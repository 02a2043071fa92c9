------------------------------ MODULE VmmProofs -------------------------------
(***************************************************************************)
(* The address spaces of user processes: whatever they load, fork and ask   *)
(* of the break, their areas stay sorted and apart, and no page is lost or  *)
(* shared, as long as programs and breaks stay below the stack.             *)
(***************************************************************************)
EXTENDS Vmm, FiniteSetTheorems, SequenceTheorems, WellFoundedInduction, TLAPS

-----------------------------------------------------------------------------
(* An address space: what the areas of m are, by their position.            *)

Segment == [vm_start : Nat, vm_end : Nat, vm_flags : {"rx", "rw"}]
AreaType == [vm_start : Nat, vm_end : Nat, vm_flags : {"rx", "rw", "stack", "none"}]

MmType == [list : Seq(Vmas), area : [Vmas -> AreaType], cache : Vmas \cup {NULL},
           map_count : Nat, brk_start : Nat, brk : Nat, ok : {TRUE}]

At(m, i) == m.area[m.list[i]]
AreasOf(m) == {At(m, i) : i \in 1..Len(m.list)}

Heap(x) == x.vm_flags \in {"rx", "rw"}

Valid(x) == USER_ACCESS(x.vm_start, x.vm_end) /\ x.vm_flags \in {"rx", "rw", "stack"}

\* The list is sorted, without overlaps, and its own count and cache are right.
Sorted(m) ==
    /\ m \in MmType
    /\ \A i \in 1..Len(m.list) : Valid(At(m, i))
    /\ \A i, j \in 1..Len(m.list) : i < j => At(m, i).vm_end <= At(m, j).vm_start
    /\ m.map_count = Len(m.list)
    /\ m.cache \in Range(m.list) \cup {NULL}

-----------------------------------------------------------------------------
(* What has to hold of programs and breaks.                                 *)

\* n is not above the bottom of any stack.
Below(n) == \A top \in StackTops : n <= top - USTACKPAGE

\* The segments of a program rise, as those of an ELF file, and end below the stack.
Rising(segs) ==
    /\ segs \in Seq(Segment)
    /\ \A i \in 1..Len(segs) : Below(segs[i].vm_end)
    /\ \A i, j \in 1..Len(segs) : i < j => segs[i].vm_start <= segs[j].vm_start

BelowStack == (\A prog \in Programs : Rising(prog)) /\ (\A b \in Brks : Below(b))

-----------------------------------------------------------------------------
(* The invariant.                                                           *)

Names == Cardinality(Vmas)

\* load_icode has the segments segs left to load: the areas are below them.
Loading(m, segs) ==
    /\ Rising(segs)
    /\ Len(m.list) + Len(segs) + 2 <= Names
    /\ \A x \in AreasOf(m) :
          /\ Heap(x) /\ x.vm_end <= m.brk_start /\ Below(x.vm_end)
          /\ \A j \in 1..Len(segs) : x.vm_start <= segs[j].vm_start

\* In user mode one area ends at the break, if that has moved, and goes down to
\* brk_start or further; the others but the stack are below brk_start.
HeapArea(m, x) == x.vm_flags = "rw" /\ x.vm_start <= m.brk_start /\ x.vm_end = m.brk

InUser(m) ==
    /\ m.brk_start <= m.brk
    /\ \A x \in AreasOf(m) :
          /\ Heap(x) => x.vm_end <= m.brk_start \/ HeapArea(m, x)
          /\ ~Heap(x) => \E top \in StackTops : x.vm_start = top - USTACKPAGE
    /\ m.brk_start < m.brk => \E x \in AreasOf(m) : HeapArea(m, x)
    /\ Len(m.list) <= Names
    /\ Len(m.list) = Names => \E x \in AreasOf(m) : Heap(x) /\ x.vm_start = m.brk_start

Stages ==
    /\ stage \in [Procs -> {"none", "load", "user"}]
    /\ todo \in [Procs -> Seq(Segment)] /\ mm \in [Procs -> MmType]
    /\ \A p \in Procs :
          /\ Sorted(mm[p])
          /\ stage[p] = "none" => mm[p] = mm_create /\ pgdir[p] = Unused
          /\ stage[p] = "load" => Loading(mm[p], todo[p])
          /\ stage[p] = "user" => InUser(mm[p])

\* The entry for page a, if there is one: the page named after it, and the rights of
\* the area.
Entry == [frame : Frames, w : BOOLEAN]
Covered(m, a, w) ==
    \E x \in AreasOf(m) : x.vm_start <= a /\ a < x.vm_end /\ w = Writable(x.vm_flags)

Tables ==
    /\ pgdir \in [Procs -> [UserPages -> Entry \cup {NULL}]]
    /\ \A p \in Procs, a \in UserPages :
          pgdir[p][a] # NULL => pgdir[p][a].frame = <<p, a>> /\ Covered(mm[p], a, pgdir[p][a].w)

PageCounts ==
    /\ used = {f \in Frames : pgdir[f[1]][f[2]] # NULL}
    /\ page_ref = [f \in Frames |-> IF f \in used THEN 1 ELSE 0]

VmInv ==
    /\ panic \in {"none", "halted"}
    /\ Stages /\ Tables /\ PageCounts

-----------------------------------------------------------------------------
(* Sequences and numbers.                                                   *)

\* A set of numbers has a least one.
LEMMA NatLeast ==
    ASSUME NEW T, T \subseteq Nat, T # {} PROVE \E x \in T : \A y \in T : x <= y
<1>1. PICK x \in T : \A y \in T : ~(<<y, x>> \in OpToRel(<, Nat))
  BY WFMin, NatLessThanWellFounded
<1>2. \A y \in T : <<y, x>> \in OpToRel(<, Nat) <=> y < x
  BY DEF OpToRel
<1>3. \A y \in T : ~(y < x)
  BY <1>1, <1>2, Zenon
<1> QED BY <1>3

LEMMA RangeIs ==
    ASSUME NEW S, NEW L \in Seq(S)
    PROVE  /\ Range(L) \subseteq S
           /\ \A i \in 1..Len(L) : L[i] \in Range(L)
           /\ \A x \in Range(L) : \E i \in 1..Len(L) : x = L[i]
BY DEF Range

\* list_add_before: the elements from i on move up by one.
LEMMA InsertAtFacts ==
    ASSUME NEW S, NEW s \in Seq(S), NEW i \in 1..(Len(s) + 1), NEW e \in S
    PROVE  /\ InsertAt(s, i, e) \in Seq(S)
           /\ Len(InsertAt(s, i, e)) = Len(s) + 1
           /\ \A j \in 1..(Len(s) + 1) :
                InsertAt(s, i, e)[j] = IF j < i THEN s[j] ELSE IF j = i THEN e ELSE s[j - 1]
<1>0. Len(s) \in Nat /\ i \in Nat /\ i >= 1 /\ i <= Len(s) + 1
  OBVIOUS
<1> DEFINE a == SubSeq(s, 1, i - 1)
           b == SubSeq(s, i, Len(s))
           c == a \o <<e>>
<1>1. a \in Seq(S) /\ Len(a) = i - 1 /\ \A j \in 1..(i - 1) : a[j] = s[j]
  OBVIOUS
<1>2. b \in Seq(S) /\ Len(b) = Len(s) + 1 - i /\ \A j \in 1..(Len(s) + 1 - i) : b[j] = s[i + j - 1]
  OBVIOUS
<1>3. InsertAt(s, i, e) = c \o b
  BY DEF InsertAt
<1> HIDE DEF a, b
<1>4. c \in Seq(S) /\ Len(c) = i /\ \A j \in 1..i : c[j] = IF j < i THEN s[j] ELSE e
  BY <1>0, <1>1
<1> HIDE DEF c
<1>5. /\ c \o b \in Seq(S) /\ Len(c \o b) = Len(c) + Len(b)
      /\ \A j \in 1..(Len(c) + Len(b)) : (c \o b)[j] = IF j <= Len(c) THEN c[j] ELSE b[j - Len(c)]
  BY <1>2, <1>4, ConcatProperties, Zenon
<1>6. ASSUME NEW j \in 1..(Len(s) + 1)
      PROVE  (c \o b)[j] = IF j < i THEN s[j] ELSE IF j = i THEN e ELSE s[j - 1]
  <2>0. j <= i \/ j > i
    BY <1>0
  <2>1. CASE j <= i
    BY <1>0, <1>2, <1>4, <1>5, <2>1
  <2>2. CASE j > i
    <3>1. j - i \in 1..(Len(s) + 1 - i) /\ i + (j - i) - 1 = j - 1
      BY <1>0, <2>2
    <3>2. (c \o b)[j] = b[j - i] /\ b[j - i] = s[i + (j - i) - 1]
      BY <1>0, <1>2, <1>4, <1>5, <2>2, <3>1
    <3> QED BY <1>0, <2>2, <3>1, <3>2
  <2> QED BY <2>0, <2>1, <2>2
<1> QED BY <1>0, <1>2, <1>3, <1>4, <1>5, <1>6

IsInsertion(S, s, i, e, t) ==
    /\ t \in Seq(S) /\ Len(t) = Len(s) + 1
    /\ \A j \in 1..(Len(s) + 1) : t[j] = IF j < i THEN s[j] ELSE IF j = i THEN e ELSE s[j - 1]

LEMMA InsertAtIs ==
    ASSUME NEW S, NEW s \in Seq(S), NEW i \in 1..(Len(s) + 1), NEW e \in S
    PROVE  IsInsertion(S, s, i, e, InsertAt(s, i, e))
BY InsertAtFacts DEF IsInsertion

LEMMA MinIs ==
    ASSUME NEW T, T \subseteq Nat, T # {} PROVE Min(T) \in T /\ \A y \in T : Min(T) <= y
<1>1. \E x \in T : \A y \in T : x <= y
  BY NatLeast
<1> QED BY <1>1 DEF Min

LEMMA OneMinMax == ASSUME NEW h \in Nat PROVE Min({h}) = h /\ Max({h}) = h /\ Cardinality({h}) = 1
<1>1. Min({h}) = h /\ Max({h}) = h
  BY DEF Min, Max
<1> QED BY <1>1, FS_Singleton

-----------------------------------------------------------------------------
(* Address spaces.                                                          *)

LEMMA SortedFacts ==
    ASSUME NEW m, Sorted(m)
    PROVE  /\ m.list \in Seq(Vmas) /\ Len(m.list) \in Nat /\ m.area \in [Vmas -> AreaType]
           /\ m.brk_start \in Nat /\ m.brk \in Nat /\ m.map_count = Len(m.list) /\ m.ok = TRUE
           /\ m.cache \in Range(m.list) \cup {NULL}
           /\ \A i \in 1..Len(m.list) :
                /\ m.list[i] \in Vmas /\ m.list[i] # NULL /\ At(m, i) \in AreaType /\ Valid(At(m, i))
                /\ At(m, i).vm_start \in Nat /\ At(m, i).vm_end \in Nat
                /\ At(m, i).vm_start < At(m, i).vm_end
           /\ \A i, j \in 1..Len(m.list) : i < j => At(m, i).vm_end <= At(m, j).vm_start
           /\ \A i, j \in 1..Len(m.list) : m.list[i] = m.list[j] => i = j
<1>1. m \in MmType
  BY DEF Sorted
<1>2. /\ m.list \in Seq(Vmas) /\ m.area \in [Vmas -> AreaType]
      /\ m.brk_start \in Nat /\ m.brk \in Nat /\ m.ok = TRUE
  BY <1>1 DEF MmType
<1>3. Len(m.list) \in Nat /\ \A i \in 1..Len(m.list) : m.list[i] \in Vmas
  BY <1>2
<1>4. \A i \in 1..Len(m.list) : At(m, i) \in AreaType
  BY <1>2, <1>3 DEF At
<1>5. ASSUME NEW i \in 1..Len(m.list)
      PROVE  /\ Valid(At(m, i)) /\ At(m, i).vm_start \in Nat /\ At(m, i).vm_end \in Nat
             /\ At(m, i).vm_start < At(m, i).vm_end
  <2>1. Valid(At(m, i))
    BY DEF Sorted
  <2>2. At(m, i).vm_start \in Nat /\ At(m, i).vm_end \in Nat
    BY <1>4 DEF AreaType
  <2> QED BY <2>1, <2>2 DEF Valid, USER_ACCESS
<1>6. \A i, j \in 1..Len(m.list) : i < j => At(m, i).vm_end <= At(m, j).vm_start
  BY DEF Sorted
<1>7. ASSUME NEW i \in 1..Len(m.list), NEW j \in 1..Len(m.list), m.list[i] = m.list[j] PROVE i = j
  <2>1. At(m, i) = At(m, j)
    BY <1>7 DEF At
  <2>2. ~(i < j) /\ ~(j < i)
    BY <1>5, <1>6, <2>1
  <2> QED BY <2>2
<1>8. NULL \notin Vmas
  BY VmAreaAssumption
<1> QED BY <1>2, <1>3, <1>4, <1>5, <1>6, <1>7, <1>8 DEF Sorted

LEMMA AreasFacts ==
    ASSUME NEW m, Sorted(m), NEW x \in AreasOf(m)
    PROVE  /\ x \in AreaType /\ Valid(x) /\ x.vm_start \in Nat /\ x.vm_end \in Nat
           /\ x.vm_start < x.vm_end /\ USERBASE <= x.vm_start /\ x.vm_end <= USERTOP
           /\ \E i \in 1..Len(m.list) : x = At(m, i)
           /\ \A y \in AreasOf(m) : x # y => x.vm_end <= y.vm_start \/ y.vm_end <= x.vm_start
<1>1. PICK i \in 1..Len(m.list) : x = At(m, i)
  BY DEF AreasOf
<1>2. /\ x \in AreaType /\ Valid(x) /\ x.vm_start \in Nat /\ x.vm_end \in Nat /\ x.vm_start < x.vm_end
  BY <1>1, SortedFacts
<1>3. USERBASE <= x.vm_start /\ x.vm_end <= USERTOP
  BY <1>2 DEF Valid, USER_ACCESS
<1>4. ASSUME NEW y \in AreasOf(m), x # y PROVE x.vm_end <= y.vm_start \/ y.vm_end <= x.vm_start
  <2>1. PICK j \in 1..Len(m.list) : y = At(m, j)
    BY DEF AreasOf
  <2>2. i < j \/ j < i
    BY <1>1, <1>4, <2>1
  <2> QED BY <1>1, <2>1, <2>2, SortedFacts
<1> QED BY <1>1, <1>2, <1>3, <1>4

\* vma_create has a name to give.
LEMMA NewVmaIs ==
    ASSUME NEW m, Sorted(m), Len(m.list) < Names
    PROVE  NewVma(m) \in Vmas /\ NewVma(m) \notin Range(m.list)
<1>1. /\ m.list \in Seq(Vmas) /\ Len(m.list) \in Nat
      /\ \A i, j \in 1..Len(m.list) : m.list[i] = m.list[j] => i = j
  BY SortedFacts
<1>2. Range(m.list) \subseteq Vmas /\ Vmas \subseteq Nat /\ IsFiniteSet(Vmas)
  BY <1>1, RangeIs, VmAreaAssumption
<1>3. Vmas \ Range(m.list) # {}
  <2> SUFFICES ASSUME Range(m.list) = Vmas PROVE FALSE
    BY <1>2
  <2>1. PICK n \in Nat : n = Len(m.list)
    BY <1>1
  <2> DEFINE s == m.list
  <2>2. IsFiniteSet(1..n) /\ Cardinality(1..n) = n
    BY FS_Interval
  <2>3. s \in [1..n -> Vmas] /\ \A y \in Vmas : \E i \in 1..n : s[i] = y
    BY <1>1, <2>1, RangeIs
  <2>4. s \in Surjection(1..n, Vmas)
    BY <2>3 DEF Surjection
  <2>5. Cardinality(Vmas) <= Cardinality(1..n)
    BY <1>2, <2>2, <2>4, FS_Surjection
  <2>6. Cardinality(Vmas) \in Nat
    BY <1>2, FS_CardinalityType
  <2> QED BY <2>1, <2>2, <2>5, <2>6 DEF Names
<1>4. Vmas \ Range(m.list) \subseteq Nat
  BY <1>2
<1> QED BY <1>3, <1>4, MinIs DEF NewVma

-----------------------------------------------------------------------------
(* find_vma.                                                                *)

In(x, a) == x.vm_start <= a /\ a < x.vm_end

LEMMA FindVma ==
    ASSUME NEW m, Sorted(m), NEW a \in Int
    PROVE  \/ find_vma(m, a) = NULL /\ \A i \in 1..Len(m.list) : ~In(At(m, i), a)
           \/ \E i \in 1..Len(m.list) :
                /\ find_vma(m, a) = m.list[i] /\ find_vma(m, a) # NULL /\ In(At(m, i), a)
                /\ \A j \in 1..Len(m.list) : In(At(m, j), a) => j = i
<1>1. /\ m.list \in Seq(Vmas) /\ Len(m.list) \in Nat /\ m.cache \in Range(m.list) \cup {NULL}
      /\ \A i \in 1..Len(m.list) : m.list[i] # NULL
      /\ \A i \in 1..Len(m.list) : At(m, i).vm_start \in Nat /\ At(m, i).vm_end \in Nat
      /\ \A i, j \in 1..Len(m.list) : i < j => At(m, i).vm_end <= At(m, j).vm_start
  BY SortedFacts
<1>2. \A i \in 1..Len(m.list) : Within(m, m.list[i], a) <=> In(At(m, i), a)
  BY DEF Within, In, At
<1>3. \A i, j \in 1..Len(m.list) : In(At(m, i), a) /\ In(At(m, j), a) => i = j
  BY <1>1 DEF In
<1>4. CASE m.cache # NULL /\ Within(m, m.cache, a)
  <2>1. find_vma(m, a) = m.cache
    BY <1>4 DEF find_vma
  <2>2. PICK i \in 1..Len(m.list) : m.cache = m.list[i]
    BY <1>1, <1>4, RangeIs
  <2> QED BY <1>2, <1>3, <1>4, <2>1, <2>2
<1>5. CASE ~(m.cache # NULL /\ Within(m, m.cache, a))
  <2>1. PICK found : found = {i \in 1..Len(m.list) : Within(m, m.list[i], a)}
    OBVIOUS
  <2>2. find_vma(m, a) = IF found = {} THEN NULL ELSE m.list[Min(found)]
    BY <1>5, <2>1, Zenon DEF find_vma
  <2>3. CASE found = {}
    BY <1>2, <2>1, <2>2, <2>3
  <2>4. CASE found # {}
    <3>1. found \subseteq Nat
      BY <2>1
    <3>2. PICK i : i = Min(found) /\ i \in found
      BY <2>4, <3>1, MinIs
    <3>3. i \in 1..Len(m.list) /\ In(At(m, i), a) /\ find_vma(m, a) = m.list[i]
      BY <1>2, <2>1, <2>2, <2>4, <3>2
    <3> QED BY <1>1, <1>3, <3>3
  <2> QED BY <2>3, <2>4
<1> QED BY <1>4, <1>5

\* n differs from m in the cache at most.
Alike(m, n) ==
    n.list = m.list /\ n.area = m.area /\ n.brk_start = m.brk_start /\ n.brk = m.brk

LEMMA AlikeAreas == ASSUME NEW m, NEW n, Alike(m, n) PROVE AreasOf(n) = AreasOf(m)
BY DEF Alike, AreasOf, At

LEMMA CachedIs ==
    ASSUME NEW m, Sorted(m), NEW a \in Int
    PROVE  /\ Sorted(Cached(m, a)) /\ Alike(m, Cached(m, a)) /\ AreasOf(Cached(m, a)) = AreasOf(m)
           /\ find_vma(m, a) = NULL => Cached(m, a) = m
<1>1. CASE find_vma(m, a) = NULL
  <2>1. Cached(m, a) = m
    BY <1>1 DEF Cached
  <2> QED BY <1>1, <2>1 DEF Alike
<1>2. CASE find_vma(m, a) # NULL
  <2>1. PICK v : v = find_vma(m, a) /\ \E i \in 1..Len(m.list) : v = m.list[i]
    BY <1>2, FindVma
  <2>2. PICK n : n = Cached(m, a)
    OBVIOUS
  <2>3. n = [m EXCEPT !.cache = v]
    BY <1>2, <2>1, <2>2 DEF Cached
  <2>4. m.list \in Seq(Vmas) /\ m \in MmType
    BY SortedFacts DEF Sorted
  <2>a. PICK i \in 1..Len(m.list) : v = m.list[i]
    BY <2>1
  <2>5. v \in Range(m.list) /\ v \in Vmas
    BY <2>a, <2>4, RangeIs
  <2>6. /\ n.list = m.list /\ n.area = m.area /\ n.brk_start = m.brk_start /\ n.brk = m.brk
        /\ n.map_count = m.map_count /\ n.cache = v /\ n \in MmType
    BY <2>3, <2>4, <2>5 DEF MmType
  <2>7. Sorted(n)
    BY <2>5, <2>6 DEF Sorted, At
  <2> QED BY <1>2, <2>2, <2>6, <2>7, AlikeAreas DEF Alike
<1> QED BY <1>1, <1>2

-----------------------------------------------------------------------------
(* insert_vma_struct.                                                       *)

Apart(x, y) == x.vm_end <= y.vm_start \/ y.vm_end <= x.vm_start

\* What x joins keeps its order, and no assertion of check_vma_overlap fails.
LEMMA Insertion ==
    ASSUME NEW m, Sorted(m), NEW v \in Vmas, v \notin Range(m.list), NEW x \in AreaType, Valid(x),
           \A y \in AreasOf(m) : Apart(x, y),
           NEW n, n = insert_vma_struct(m, v, x)
    PROVE  /\ Sorted(n) /\ AreasOf(n) = AreasOf(m) \cup {x} /\ Len(n.list) = Len(m.list) + 1
           /\ n.brk_start = m.brk_start /\ n.brk = m.brk
<1>1. /\ m.list \in Seq(Vmas) /\ Len(m.list) \in Nat /\ m.area \in [Vmas -> AreaType]
      /\ m.map_count = Len(m.list) /\ m.ok = TRUE /\ m.cache \in Range(m.list) \cup {NULL}
      /\ \A i \in 1..Len(m.list) :
           /\ m.list[i] \in Vmas /\ Valid(At(m, i))
           /\ At(m, i).vm_start \in Nat /\ At(m, i).vm_end \in Nat
           /\ At(m, i).vm_start < At(m, i).vm_end
      /\ \A i, j \in 1..Len(m.list) : i < j => At(m, i).vm_end <= At(m, j).vm_start
  BY SortedFacts
<1>2. m \in MmType
  BY DEF Sorted
<1>3. /\ x.vm_start \in Nat /\ x.vm_end \in Nat /\ x.vm_start < x.vm_end
  BY DEF AreaType, Valid, USER_ACCESS
<1>4. \A i \in 1..Len(m.list) : Apart(x, At(m, i))
  BY DEF AreasOf
<1>5. PICK N \in Nat : N = Len(m.list)
  BY <1>1
<1>6. PICK above : above = {i \in 1..Len(m.list) : m.area[m.list[i]].vm_start > x.vm_start}
  OBVIOUS
<1>7. PICK k : k = IF above = {} THEN Len(m.list) + 1 ELSE Min(above)
  OBVIOUS
<1>8. /\ k \in 1..(N + 1)
      /\ \A i \in 1..N : i < k => At(m, i).vm_end <= x.vm_start
      /\ \A i \in 1..N : k <= i => x.vm_end <= At(m, i).vm_start
  <2>1. \A i \in 1..N : i \in above <=> At(m, i).vm_start > x.vm_start
    BY <1>5, <1>6 DEF At
  <2>2. k \in 1..(N + 1) /\ (\A i \in above : k <= i) /\ (k <= N => k \in above)
    <3>1. CASE above = {}
      BY <1>5, <1>7, <3>1
    <3>2. CASE above # {}
      <4>1. above \subseteq Nat /\ above \subseteq 1..N
        BY <1>5, <1>6
      <4>2. Min(above) \in above /\ \A i \in above : Min(above) <= i
        BY <3>2, <4>1, MinIs
      <4> QED BY <1>5, <1>7, <3>2, <4>1, <4>2
    <3> QED BY <3>1, <3>2
  <2>3. ASSUME NEW i \in 1..N, i < k PROVE At(m, i).vm_end <= x.vm_start
    <3>1. ~(At(m, i).vm_start > x.vm_start)
      BY <2>1, <2>2, <2>3
    <3>2. Apart(x, At(m, i)) /\ At(m, i).vm_start \in Nat /\ At(m, i).vm_end \in Nat
      BY <1>1, <1>4, <1>5
    <3> QED BY <1>3, <3>1, <3>2 DEF Apart
  <2>4. ASSUME NEW i \in 1..N, k <= i PROVE x.vm_end <= At(m, i).vm_start
    <3>1. k \in above /\ k \in 1..N
      BY <2>2, <2>4
    <3>2. At(m, k).vm_start > x.vm_start
      BY <2>1, <3>1
    <3>3. k = i \/ At(m, k).vm_end <= At(m, i).vm_start
      BY <1>1, <1>5, <2>4, <3>1
    <3>4. /\ At(m, k).vm_start \in Nat /\ At(m, k).vm_end \in Nat /\ At(m, k).vm_start < At(m, k).vm_end
          /\ At(m, i).vm_start \in Nat /\ At(m, i).vm_end \in Nat /\ At(m, i).vm_start < At(m, i).vm_end
          /\ Apart(x, At(m, i))
      BY <1>1, <1>4, <1>5, <3>1
    <3> QED BY <1>3, <3>2, <3>3, <3>4 DEF Apart
  <2> QED BY <2>2, <2>3, <2>4
<1>9. PICK L, good :
        /\ L = InsertAt(m.list, k, v)
        /\ good = /\ m.ok
                  /\ x.vm_start < x.vm_end
                  /\ k > 1 => m.area[m.list[k - 1]].vm_end <= x.vm_start
                  /\ k <= Len(m.list) => x.vm_end <= m.area[m.list[k]].vm_start
  OBVIOUS
<1>10. n = [m EXCEPT !.list = L, !.area[v] = x, !.map_count = m.map_count + 1, !.ok = good]
  BY <1>2, <1>6, <1>7, <1>9 DEF insert_vma_struct, MmType
<1>11. good = TRUE
  <2>1. k > 1 => k - 1 \in 1..N /\ k - 1 < k
    BY <1>8
  <2>2. k <= Len(m.list) => k \in 1..N
    BY <1>5, <1>8
  <2> QED BY <1>1, <1>3, <1>8, <1>9, <2>1, <2>2 DEF At
<1>12. /\ L \in Seq(Vmas) /\ Len(L) = N + 1
       /\ \A j \in 1..(N + 1) : L[j] = IF j < k THEN m.list[j] ELSE IF j = k THEN v ELSE m.list[j - 1]
  <2>1. PICK s \in Seq(Vmas) : s = m.list /\ Len(s) = N
    BY <1>1, <1>5
  <2>2. k \in 1..(Len(s) + 1) /\ L = InsertAt(s, k, v)
    BY <1>8, <1>9, <2>1
  <2>3. /\ L \in Seq(Vmas) /\ Len(L) = Len(s) + 1
        /\ \A j \in 1..(Len(s) + 1) : L[j] = IF j < k THEN s[j] ELSE IF j = k THEN v ELSE s[j - 1]
    <3>1. IsInsertion(Vmas, s, k, v, L)
      BY <2>2, InsertAtIs
    <3> QED BY <3>1 DEF IsInsertion
  <2> QED BY <2>1, <2>3
<1>13. PICK area : area = [m.area EXCEPT ![v] = x] /\ area \in [Vmas -> AreaType]
  <2>1. PICK f \in [Vmas -> AreaType] : f = m.area
    BY <1>1
  <2>2. [f EXCEPT ![v] = x] \in [Vmas -> AreaType]
    OBVIOUS
  <2> QED BY <2>1, <2>2
<1>14. /\ n.list = L /\ n.area = area /\ n.map_count = m.map_count + 1 /\ n.ok = TRUE
       /\ n.cache = m.cache /\ n.brk_start = m.brk_start /\ n.brk = m.brk
  BY <1>2, <1>10, <1>11, <1>13 DEF MmType
<1>15. n \in MmType
  <2>1. m = [list |-> m.list, area |-> m.area, cache |-> m.cache, map_count |-> m.map_count,
             brk_start |-> m.brk_start, brk |-> m.brk, ok |-> m.ok]
    BY <1>2 DEF MmType
  <2>2. n = [list |-> L, area |-> area, cache |-> m.cache, map_count |-> m.map_count + 1,
             brk_start |-> m.brk_start, brk |-> m.brk, ok |-> TRUE]
    BY <1>10, <1>11, <1>13, <2>1
  <2>3. m.cache \in Vmas \cup {NULL} /\ m.brk_start \in Nat /\ m.brk \in Nat /\ m.map_count + 1 \in Nat
    BY <1>1, <1>2 DEF MmType
  <2> QED BY <1>12, <1>13, <2>2, <2>3 DEF MmType
<1>16. \A i \in 1..N : m.list[i] # v
  BY <1>1, <1>5, RangeIs
<1>17. ASSUME NEW j \in 1..(N + 1)
       PROVE  At(n, j) = IF j < k THEN At(m, j) ELSE IF j = k THEN x ELSE At(m, j - 1)
  <2>1. j < k \/ j = k \/ j > k
    BY <1>8
  <2>2. CASE j < k
    <3>1. j \in 1..N /\ L[j] = m.list[j]
      BY <1>8, <1>12, <2>2
    <3>2. area[m.list[j]] = m.area[m.list[j]]
      BY <1>1, <1>5, <1>13, <1>16, <3>1
    <3> QED BY <1>14, <2>2, <3>1, <3>2 DEF At
  <2>3. CASE j = k
    BY <1>1, <1>8, <1>12, <1>13, <1>14, <2>3 DEF At
  <2>4. CASE j > k
    <3>1. j - 1 \in 1..N /\ L[j] = m.list[j - 1]
      BY <1>8, <1>12, <2>4
    <3>2. area[m.list[j - 1]] = m.area[m.list[j - 1]]
      BY <1>1, <1>5, <1>13, <1>16, <3>1
    <3> QED BY <1>8, <1>14, <2>4, <3>1, <3>2 DEF At
  <2> QED BY <2>1, <2>2, <2>3, <2>4
<1>18. Len(n.list) = N + 1
  BY <1>12, <1>14
<1>19. AreasOf(n) = AreasOf(m) \cup {x}
  <2>1. ASSUME NEW y \in AreasOf(n) PROVE y \in AreasOf(m) \cup {x}
    <3>1. PICK j \in 1..(N + 1) : y = At(n, j)
      BY <1>18 DEF AreasOf
    <3>2. j < k \/ j = k \/ (j > k /\ ~(j < k) /\ j # k /\ j - 1 \in 1..N)
      BY <1>8
    <3>3. j < k => j \in 1..N
      BY <1>8
    <3> QED BY <1>5, <1>17, <3>1, <3>2, <3>3 DEF AreasOf
  <2>2. x \in AreasOf(n)
    <3>1. At(n, k) = x
      BY <1>8, <1>17
    <3> QED BY <1>8, <1>18, <3>1 DEF AreasOf
  <2>3. ASSUME NEW y \in AreasOf(m) PROVE y \in AreasOf(n)
    <3>1. PICK j \in 1..N : y = At(m, j)
      BY <1>5 DEF AreasOf
    <3>2. CASE j < k
      <4>1. j \in 1..(N + 1) /\ At(n, j) = y
        BY <1>17, <3>1, <3>2
      <4> QED BY <1>18, <4>1 DEF AreasOf
    <3>3. CASE ~(j < k)
      <4>1. PICK i \in 1..(N + 1) : i = j + 1 /\ i - 1 = j /\ ~(i < k) /\ i # k
        BY <1>8, <3>3
      <4>2. At(n, i) = y
        BY <1>17, <3>1, <4>1
      <4> QED BY <1>18, <4>2 DEF AreasOf
    <3> QED BY <3>2, <3>3
  <2> QED BY <2>1, <2>2, <2>3
<1>20. Sorted(n)
  <2>1. \A i \in 1..Len(n.list) : Valid(At(n, i))
    <3> SUFFICES ASSUME NEW i \in 1..(N + 1) PROVE Valid(At(n, i))
      BY <1>18
    <3>1. At(n, i) \in AreasOf(m) \cup {x}
      BY <1>18, <1>19 DEF AreasOf
    <3> QED BY <3>1, AreasFacts
  <2>2. ASSUME NEW i \in 1..(N + 1), NEW j \in 1..(N + 1), i < j PROVE At(n, i).vm_end <= At(n, j).vm_start
    <3>1. CASE j < k
      <4>1. i < k /\ i \in 1..N /\ j \in 1..N
        BY <1>8, <2>2, <3>1
      <4> QED BY <1>1, <1>5, <1>17, <2>2, <3>1, <4>1
    <3>2. CASE j = k
      <4>1. i < k /\ i \in 1..N
        BY <1>8, <2>2, <3>2
      <4>2. At(n, i) = At(m, i) /\ At(n, j) = x
        BY <1>17, <3>2, <4>1
      <4> QED BY <1>8, <4>1, <4>2
    <3>3. CASE j > k
      <4>1. PICK h \in 1..N : h = j - 1 /\ k <= h /\ At(n, j) = At(m, h)
        BY <1>8, <1>17, <3>3
      <4>2. CASE i < k
        <5>1. i \in 1..N /\ i < h /\ At(n, i) = At(m, i)
          BY <1>8, <1>17, <4>1, <4>2
        <5> QED BY <1>1, <1>5, <4>1, <5>1
      <4>3. CASE i = k
        <5>1. At(n, i) = x
          BY <1>17, <4>3
        <5> QED BY <1>8, <4>1, <5>1
      <4>4. CASE i > k
        <5>1. PICK g \in 1..N : g = i - 1 /\ g < h /\ At(n, i) = At(m, g)
          BY <1>8, <1>17, <2>2, <4>1, <4>4
        <5> QED BY <1>1, <1>5, <4>1, <5>1
      <4> QED BY <1>8, <4>2, <4>3, <4>4
    <3> QED BY <1>8, <3>1, <3>2, <3>3
  <2>3. n.map_count = Len(n.list)
    BY <1>1, <1>5, <1>14, <1>18
  <2>4. n.cache \in Range(n.list) \cup {NULL}
    <3> SUFFICES ASSUME m.cache \in Range(m.list) PROVE m.cache \in Range(L)
      BY <1>1, <1>14
    <3>1. PICK i \in 1..N : m.cache = m.list[i]
      BY <1>1, <1>5, RangeIs
    <3>2. PICK j \in 1..(N + 1) : L[j] = m.list[i]
      <4>1. CASE i < k
        <5>1. i \in 1..(N + 1) /\ L[i] = m.list[i]
          BY <1>12, <4>1
        <5> QED BY <5>1
      <4>2. CASE ~(i < k)
        <5>1. PICK j \in 1..(N + 1) : j = i + 1 /\ j - 1 = i /\ ~(j < k) /\ j # k
          BY <1>8, <4>2
        <5>2. L[j] = m.list[i]
          BY <1>12, <5>1
        <5> QED BY <5>2
      <4> QED BY <4>1, <4>2
    <3> QED BY <1>12, <3>1, <3>2, RangeIs
  <2> QED BY <1>15, <1>18, <2>1, <2>2, <2>3, <2>4 DEF Sorted
<1> QED BY <1>5, <1>14, <1>18, <1>19, <1>20

-----------------------------------------------------------------------------
(* mm_create and dup_mmap.                                                  *)

Empty(s, b) ==
    [list |-> <<>>, area |-> [v \in Vmas |-> NoArea], cache |-> NULL, map_count |-> 0,
     brk_start |-> s, brk |-> b, ok |-> TRUE]

IsSpace(n, e, none, s, b) ==
    n = [list |-> e, area |-> none, cache |-> NULL, map_count |-> 0, brk_start |-> s, brk |-> b,
         ok |-> TRUE]

LEMMA CreatedIs ==
    ASSUME NEW s \in Nat, NEW b \in Nat, NEW e \in Seq(Vmas), Len(e) = 0,
           NEW none \in [Vmas -> AreaType], NEW n, IsSpace(n, e, none, s, b)
    PROVE  /\ Sorted(n) /\ AreasOf(n) = {} /\ Len(n.list) = 0 /\ n.brk_start = s /\ n.brk = b
<1>1. n \in MmType
  BY DEF MmType, IsSpace
<1>2. /\ n.list = e /\ n.map_count = 0 /\ n.cache = NULL /\ Len(n.list) = 0 /\ 1..Len(n.list) = {}
      /\ n.brk_start = s /\ n.brk = b
  BY DEF IsSpace
<1>3. Sorted(n)
  BY <1>1, <1>2 DEF Sorted
<1>4. AreasOf(n) = {}
  BY <1>2 DEF AreasOf
<1> QED BY <1>2, <1>3, <1>4

LEMMA EmptyIs ==
    ASSUME NEW s \in Nat, NEW b \in Nat, NEW n, n = Empty(s, b)
    PROVE  /\ Sorted(n) /\ AreasOf(n) = {} /\ Len(n.list) = 0 /\ n.brk_start = s /\ n.brk = b
<1>1. PICK e \in Seq(Vmas) : e = <<>> /\ Len(e) = 0
  <2>1. <<>> \in Seq(Vmas) /\ Len(<<>>) = 0
    OBVIOUS
  <2> QED BY <2>1, Zenon
<1>2. PICK none \in [Vmas -> AreaType] : none = [v \in Vmas |-> NoArea]
  <2>1. NoArea \in AreaType
    BY DEF NoArea, Area, AreaType
  <2> QED BY <2>1
<1>3. IsSpace(n, e, none, s, b)
  BY <1>1, <1>2, Zenon DEF Empty, IsSpace
<1>4. Len(e) = 0
  BY <1>1
<1>5. Sorted(n)
  BY <1>3, <1>4, CreatedIs
<1>6. AreasOf(n) = {}
  BY <1>3, <1>4, CreatedIs
<1>7. n.list = e /\ n.brk_start = s /\ n.brk = b
  BY <1>3 DEF IsSpace
<1> QED BY <1>4, <1>5, <1>6, <1>7

LEMMA CreateSorted == Sorted(mm_create) /\ AreasOf(mm_create) = {} /\ Len(mm_create.list) = 0
<1>1. mm_create = Empty(0, 0)
  BY Zenon DEF mm_create, Empty
<1> QED BY <1>1, EmptyIs

LEMMA EmptyBrk ==
    ASSUME NEW s \in Nat, NEW b \in Nat PROVE [mm_create EXCEPT !.brk_start = s, !.brk = b] = Empty(s, b)
<1>1. PICK e \in Seq(Vmas), none \in [Vmas -> AreaType] : e = <<>> /\ none = [v \in Vmas |-> NoArea]
  <2>1. <<>> \in Seq(Vmas)
    OBVIOUS
  <2>2. [v \in Vmas |-> NoArea] \in [Vmas -> AreaType]
    BY DEF NoArea, Area, AreaType
  <2> QED BY <2>1, <2>2, Zenon
<1>2. mm_create = [list |-> e, area |-> none, cache |-> NULL, map_count |-> 0, brk_start |-> 0,
                   brk |-> 0, ok |-> TRUE]
  BY <1>1, Zenon DEF mm_create
<1>3. Empty(s, b) = [list |-> e, area |-> none, cache |-> NULL, map_count |-> 0, brk_start |-> s,
                     brk |-> b, ok |-> TRUE]
  BY <1>1, Zenon DEF Empty
<1>4. PICK n : n = [mm_create EXCEPT !.brk_start = s, !.brk = b]
  OBVIOUS
<1>5. n = [list |-> e, area |-> none, cache |-> NULL, map_count |-> 0, brk_start |-> s, brk |-> b,
           ok |-> TRUE]
  BY <1>2, <1>4
<1> QED BY <1>3, <1>4, <1>5, Zenon

\* The turns of the loop of dup_mmap, over the N areas of m, up to the n-th.
IsCopy(f, c, m, N, n) ==
    /\ f = [k \in 0..n |-> f[k]]
    /\ \A k \in 0..n :
          f[k] = IF k = 0 THEN c ELSE insert_vma_struct(f[k - 1], NewVma(f[k - 1]), m.area[m.list[N + 1 - k]])

LEMMA CopyExists ==
    ASSUME NEW c, NEW m, NEW N, NEW n \in Nat PROVE \E f : IsCopy(f, c, m, N, n)
<1> DEFINE Copied(f, k) == insert_vma_struct(f[k - 1], NewVma(f[k - 1]), m.area[m.list[N + 1 - k]])
           Bad == {x \in Nat : ~ \E f : IsCopy(f, c, m, N, x)}
<1> SUFFICES ASSUME n \in Bad PROVE FALSE
  OBVIOUS
<1>1. PICK x \in Bad : \A z \in Bad : x <= z
  BY NatLeast
<1>2. x \in Nat /\ ~ \E f : IsCopy(f, c, m, N, x)
  BY <1>1
<1>3. CASE x = 0
  <2>1. PICK f : f = [k \in 0..0 |-> c]
    OBVIOUS
  <2>2. f = [k \in 0..0 |-> f[k]] /\ \A k \in 0..0 : k = 0 /\ f[k] = c
    BY <2>1
  <2>3. IsCopy(f, c, m, N, 0)
    BY <2>2 DEF IsCopy
  <2> QED BY <1>2, <1>3, <2>3
<1>4. CASE x # 0
  <2>1. PICK z \in Nat : x = z + 1
    <3>1. x - 1 \in Nat /\ x = (x - 1) + 1
      BY <1>2, <1>4
    <3> QED BY <3>1
  <2>2. PICK f : IsCopy(f, c, m, N, z)
    BY <1>1, <2>1
  <2>3. PICK e : e = Copied(f, x)
    OBVIOUS
  <2>4. PICK g : g = [k \in 0..x |-> IF k = x THEN e ELSE f[k]]
    OBVIOUS
  <2>5. \A k \in 0..z : f[k] = IF k = 0 THEN c ELSE Copied(f, k)
    BY <2>2, Zenon DEF IsCopy
  <2>6. \A k \in 0..z : g[k] = f[k]
    BY <2>1, <2>4
  <2>7. g[x] = e
    BY <2>1, <2>4
  <2>8. ASSUME NEW k \in 0..x PROVE g[k] = IF k = 0 THEN c ELSE Copied(g, k)
    <3>1. CASE k = x
      <4>1. k - 1 = z /\ k # 0 /\ z \in 0..z
        BY <2>1, <3>1
      <4>2. g[k - 1] = f[k - 1]
        BY <2>6, <4>1
      <4>3. Copied(g, k) = Copied(f, k)
        BY <4>2
      <4> QED BY <2>3, <2>7, <3>1, <4>1, <4>3
    <3>2. CASE k # x
      <4>1. k \in 0..z
        BY <2>1, <3>2
      <4>2. CASE k = 0
        BY <2>5, <2>6, <4>1, <4>2
      <4>3. CASE k # 0
        <5>1. k - 1 \in 0..z
          BY <4>1, <4>3
        <5>2. g[k - 1] = f[k - 1] /\ g[k] = f[k]
          BY <2>6, <4>1, <5>1
        <5>3. Copied(g, k) = Copied(f, k)
          BY <5>2
        <5> QED BY <2>5, <4>1, <4>3, <5>2, <5>3
      <4> QED BY <4>2, <4>3
    <3> QED BY <3>1, <3>2
  <2>9. g = [k \in 0..x |-> g[k]]
    BY <2>4
  <2>10. IsCopy(g, c, m, N, x)
    BY <2>8, <2>9 DEF IsCopy
  <2> QED BY <1>2, <2>10
<1> QED BY <1>3, <1>4

\* The copy has the areas of the original.
LEMMA DupIs ==
    ASSUME NEW m, Sorted(m), Len(m.list) <= Names, NEW n, n = DupAreas(m)
    PROVE  /\ Sorted(n) /\ AreasOf(n) = AreasOf(m) /\ Len(n.list) = Len(m.list)
           /\ n.brk_start = m.brk_start /\ n.brk = m.brk
<1>1. PICK N \in Nat : N = Len(m.list)
  BY SortedFacts
<1>2. PICK c : c = [mm_create EXCEPT !.brk_start = m.brk_start, !.brk = m.brk]
  OBVIOUS
<1>3. PICK g : g = CHOOSE f : f = [k \in 0..N |->
          IF k = 0 THEN c ELSE insert_vma_struct(f[k - 1], NewVma(f[k - 1]), m.area[m.list[N + 1 - k]])]
  OBVIOUS
<1>4. n = g[N]
  BY <1>1, <1>2, <1>3, Zenon DEF DupAreas
<1>5. \A k \in 0..N :
        g[k] = IF k = 0 THEN c ELSE insert_vma_struct(g[k - 1], NewVma(g[k - 1]), m.area[m.list[N + 1 - k]])
  <2>1. PICK f : IsCopy(f, c, m, N, N)
    BY CopyExists
  <2>2. \A k \in 0..N :
          f[k] = IF k = 0 THEN c ELSE insert_vma_struct(f[k - 1], NewVma(f[k - 1]), m.area[m.list[N + 1 - k]])
    BY <2>1, Zenon DEF IsCopy
  <2>3. f = [k \in 0..N |-> f[k]]
    BY <2>1, Zenon DEF IsCopy
  <2>4. f = [k \in 0..N |->
          IF k = 0 THEN c ELSE insert_vma_struct(f[k - 1], NewVma(f[k - 1]), m.area[m.list[N + 1 - k]])]
    BY <2>2, <2>3
  <2>5. g = [k \in 0..N |->
          IF k = 0 THEN c ELSE insert_vma_struct(g[k - 1], NewVma(g[k - 1]), m.area[m.list[N + 1 - k]])]
    BY <1>3, <2>4, Zenon
  <2> QED BY <2>5, Zenon
<1>6. /\ \A i \in 1..N : At(m, i) \in AreaType /\ Valid(At(m, i))
      /\ \A i, j \in 1..N : i < j => At(m, i).vm_end <= At(m, j).vm_start
      /\ m.brk_start \in Nat /\ m.brk \in Nat
  BY <1>1, SortedFacts
<1> DEFINE Tops(k) == {At(m, i) : i \in (N + 1 - k)..N}
           Done(k) == /\ Sorted(g[k]) /\ AreasOf(g[k]) = Tops(k) /\ Len(g[k].list) = k
                      /\ g[k].brk_start = m.brk_start /\ g[k].brk = m.brk
           Bad == {x \in Nat : x <= N /\ ~Done(x)}
<1>7. Done(N)
  <2> SUFFICES ASSUME N \in Bad PROVE FALSE
    OBVIOUS
  <2>1. PICK x \in Bad : \A y \in Bad : x <= y
    BY NatLeast
  <2>2. x \in 0..N /\ ~Done(x)
    BY <2>1
  <2>3. CASE x = 0
    <3>1. g[0] = c
      BY <1>5, <2>2, <2>3
    <3>2. Tops(0) = {}
      OBVIOUS
    <3>3. Sorted(c) /\ AreasOf(c) = {} /\ Len(c.list) = 0 /\ c.brk_start = m.brk_start /\ c.brk = m.brk
      <4>1. PICK a \in Nat, b \in Nat : a = m.brk_start /\ b = m.brk
        BY <1>6
      <4>2. c = Empty(a, b)
        BY <1>2, <4>1, EmptyBrk, Zenon
      <4> QED BY <4>1, <4>2, EmptyIs
    <3> QED BY <2>2, <2>3, <3>1, <3>2, <3>3
  <2>4. CASE x # 0
    <3>1. PICK z \in 0..N : z = x - 1 /\ x = z + 1
      BY <2>2, <2>4
    <3>2. Done(z)
      <4>1. z \in Nat /\ z <= N /\ ~(x <= z)
        BY <3>1
      <4>2. z \notin Bad
        BY <2>1, <4>1
      <4> HIDE DEF Done
      <4> QED BY <4>1, <4>2
    <3>3. PICK k \in 1..N : k = N + 1 - x /\ k = N - z
      BY <2>2, <2>4, <3>1
    <3>4. PICK q, v, y : q = g[z] /\ v = NewVma(q) /\ y = At(m, k)
      OBVIOUS
    <3>5. g[x] = insert_vma_struct(q, v, y)
      BY <1>5, <2>2, <2>4, <3>1, <3>3, <3>4 DEF At
    <3>6. /\ Sorted(q) /\ AreasOf(q) = Tops(z) /\ Len(q.list) = z
          /\ q.brk_start = m.brk_start /\ q.brk = m.brk
      BY <3>2, <3>4
    <3>7. v \in Vmas /\ v \notin Range(q.list)
      <4>1. z < Names
        <5>1. Names \in Nat
          BY VmAreaAssumption, FS_CardinalityType DEF Names
        <5> QED BY <1>1, <2>2, <3>1, <5>1
      <4> QED BY <3>4, <3>6, <4>1, NewVmaIs
    <3>8. y \in AreaType /\ Valid(y)
      BY <1>6, <3>4
    <3>9. \A w \in AreasOf(q) : Apart(y, w)
      <4> SUFFICES ASSUME NEW i \in (N + 1 - z)..N PROVE Apart(y, At(m, i))
        BY <3>6
      <4>1. i \in 1..N /\ k < i
        BY <3>1, <3>3
      <4> QED BY <1>6, <3>3, <3>4, <4>1 DEF Apart
    <3>10. /\ Sorted(g[x]) /\ AreasOf(g[x]) = AreasOf(q) \cup {y} /\ Len(g[x].list) = Len(q.list) + 1
           /\ g[x].brk_start = q.brk_start /\ g[x].brk = q.brk
      BY <3>5, <3>6, <3>7, <3>8, <3>9, Insertion
    <3>11. Tops(x) = Tops(z) \cup {y}
      <4>1. (N + 1 - x)..N = ((N + 1 - z)..N) \cup {k}
        BY <3>1, <3>3
      <4> QED BY <3>4, <4>1
    <3> QED BY <2>2, <3>1, <3>6, <3>10, <3>11
  <2> QED BY <2>3, <2>4
<1>8. Tops(N) = AreasOf(m)
  <2>1. (N + 1 - N)..N = 1..N
    OBVIOUS
  <2> QED BY <1>1, <2>1 DEF AreasOf
<1> QED BY <1>1, <1>4, <1>7, <1>8

-----------------------------------------------------------------------------
(* mm_map, for what is above all areas.                                     *)

LEMMA AreaIs ==
    ASSUME NEW s \in Int, NEW e \in Int, NEW flags \in {"rx", "rw", "stack"}, USER_ACCESS(s, e)
    PROVE  /\ Area(s, e, flags) \in AreaType /\ Valid(Area(s, e, flags))
           /\ Area(s, e, flags).vm_start = s /\ Area(s, e, flags).vm_end = e
           /\ Area(s, e, flags).vm_flags = flags /\ s \in Nat /\ e \in Nat /\ s < e
<1>1. s \in Nat /\ e \in Nat /\ s < e
  BY VmAreaAssumption DEF USER_ACCESS
<1>2. PICK x : x = Area(s, e, flags)
  OBVIOUS
<1>3. x = [vm_start |-> s, vm_end |-> e, vm_flags |-> flags]
  BY <1>2, Zenon DEF Area
<1>4. x.vm_start = s /\ x.vm_end = e /\ x.vm_flags = flags
  BY <1>3
<1>5. x \in AreaType
  BY <1>1, <1>3 DEF AreaType
<1> QED BY <1>1, <1>2, <1>4, <1>5 DEF Valid

LEMMA MapIs ==
    ASSUME NEW m, Sorted(m), Len(m.list) < Names, NEW s \in Int, NEW e \in Int,
           NEW flags \in {"rx", "rw", "stack"}, MapOk(m, s, e),
           \A y \in AreasOf(m) : y.vm_start <= s,
           NEW n, n = mm_map(m, s, e, flags)
    PROVE  /\ Sorted(n) /\ AreasOf(n) = AreasOf(m) \cup {Area(s, e, flags)}
           /\ Len(n.list) = Len(m.list) + 1 /\ n.brk_start = m.brk_start /\ n.brk = m.brk
           /\ \A y \in AreasOf(m) : y.vm_end <= s
<1>1. PICK x : x = Area(s, e, flags)
  OBVIOUS
<1>2. /\ x \in AreaType /\ Valid(x) /\ x.vm_start = s /\ x.vm_end = e /\ s \in Nat /\ e \in Nat /\ s < e
  BY <1>1, AreaIs DEF MapOk
<1>3. find_vma(m, s) = NULL /\ \A i \in 1..Len(m.list) : ~In(At(m, i), s)
  <2> SUFFICES ASSUME NEW i \in 1..Len(m.list), find_vma(m, s) = m.list[i], find_vma(m, s) # NULL,
                      In(At(m, i), s)
               PROVE  FALSE
    BY FindVma
  <2>1. At(m, i).vm_start <= s
    BY DEF AreasOf
  <2>2. At(m, i).vm_start \in Nat
    BY SortedFacts
  <2>3. ~(e > m.area[m.list[i]].vm_start)
    BY DEF MapOk, Intersects
  <2> QED BY <1>2, <2>1, <2>2, <2>3 DEF At
<1>4. ASSUME NEW y \in AreasOf(m) PROVE y.vm_end <= s
  <2>1. PICK i \in 1..Len(m.list) : y = At(m, i)
    BY DEF AreasOf
  <2>2. y.vm_start \in Nat /\ y.vm_end \in Nat /\ ~In(y, s)
    BY <1>3, <2>1, SortedFacts
  <2> QED BY <2>2 DEF In
<1>5. \A y \in AreasOf(m) : Apart(x, y)
  BY <1>2, <1>4 DEF Apart
<1>6. NewVma(m) \in Vmas /\ NewVma(m) \notin Range(m.list)
  BY NewVmaIs
<1>7. Cached(m, s) = m
  BY <1>3 DEF Cached
<1>8. n = insert_vma_struct(m, NewVma(m), x)
  BY <1>1, <1>7 DEF mm_map
<1>9. /\ Sorted(n) /\ AreasOf(n) = AreasOf(m) \cup {x} /\ Len(n.list) = Len(m.list) + 1
      /\ n.brk_start = m.brk_start /\ n.brk = m.brk
  BY <1>2, <1>5, <1>6, <1>8, Insertion
<1> QED BY <1>1, <1>4, <1>9

\* n is m with other values of the break.
Moved(m, n, s, b) == n = [m EXCEPT !.brk_start = s, !.brk = b]

LEMMA MovedIs ==
    ASSUME NEW m, Sorted(m), NEW s \in Nat, NEW b \in Nat, NEW n, Moved(m, n, s, b)
    PROVE  /\ Sorted(n) /\ AreasOf(n) = AreasOf(m) /\ n.list = m.list
           /\ n.brk_start = s /\ n.brk = b
<1>1. m \in MmType
  BY DEF Sorted
<1>2. /\ n.list = m.list /\ n.area = m.area /\ n.map_count = m.map_count /\ n.cache = m.cache
      /\ n.brk_start = s /\ n.brk = b /\ n \in MmType
  BY <1>1 DEF MmType, Moved
<1>3. Sorted(n)
  BY <1>2 DEF Sorted, At
<1>4. AreasOf(n) = AreasOf(m)
  BY <1>2 DEF AreasOf, At
<1> QED BY <1>2, <1>3, <1>4

-----------------------------------------------------------------------------
(* mm_unmap, for the end of one area.                                       *)

IsRemoval(S, s, h, t) ==
    /\ t \in Seq(S) /\ Len(t) = Len(s) - 1
    /\ \A j \in 1..(Len(s) - 1) : t[j] = IF j < h THEN s[j] ELSE s[j + 1]

LEMMA WithoutOne ==
    ASSUME NEW S, NEW s \in Seq(S), NEW h \in 1..Len(s)
    PROVE  IsRemoval(S, s, h, Without(s, {h}))
<1>0. Len(s) \in Nat /\ h \in Nat /\ h >= 1 /\ h <= Len(s)
  OBVIOUS
<1> DEFINE a == SubSeq(s, 1, h - 1)
           b == SubSeq(s, h + 1, Len(s))
<1>1. a \in Seq(S) /\ Len(a) = h - 1 /\ \A j \in 1..(h - 1) : a[j] = s[j]
  OBVIOUS
<1>2. b \in Seq(S) /\ Len(b) = Len(s) - h /\ \A j \in 1..(Len(s) - h) : b[j] = s[h + j]
  OBVIOUS
<1>3. Without(s, {h}) = a \o b
  BY <1>0, OneMinMax DEF Without
<1> HIDE DEF a, b
<1>4. /\ a \o b \in Seq(S) /\ Len(a \o b) = Len(a) + Len(b)
      /\ \A j \in 1..(Len(a) + Len(b)) : (a \o b)[j] = IF j <= Len(a) THEN a[j] ELSE b[j - Len(a)]
  BY <1>1, <1>2, ConcatProperties, Zenon
<1>5. ASSUME NEW j \in 1..(Len(s) - 1) PROVE (a \o b)[j] = IF j < h THEN s[j] ELSE s[j + 1]
  <2>1. CASE j < h
    BY <1>0, <1>1, <1>2, <1>4, <2>1
  <2>2. CASE ~(j < h)
    <3>1. j - (h - 1) \in 1..(Len(s) - h) /\ h + (j - (h - 1)) = j + 1
      BY <1>0, <2>2
    <3>2. (a \o b)[j] = b[j - (h - 1)] /\ b[j - (h - 1)] = s[h + (j - (h - 1))]
      BY <1>0, <1>1, <1>2, <1>4, <2>2, <3>1
    <3> QED BY <2>2, <3>1, <3>2
  <2> QED BY <2>1, <2>2
<1>6. Len(a \o b) = Len(s) - 1
  BY <1>0, <1>1, <1>2, <1>4
<1> QED BY <1>3, <1>4, <1>5, <1>6 DEF IsRemoval

\* remove_vma_struct: one area less, and the cache does not name it.
LEMMA RemovedIs ==
    ASSUME NEW m, Sorted(m), NEW h \in 1..Len(m.list), NEW n, n = Removed(m, {h})
    PROVE  /\ Sorted(n) /\ AreasOf(n) = AreasOf(m) \ {At(m, h)} /\ Len(n.list) = Len(m.list) - 1
           /\ n.area = m.area /\ n.brk_start = m.brk_start /\ n.brk = m.brk
           /\ m.list[h] \notin Range(n.list)
<1>1. /\ m.list \in Seq(Vmas) /\ Len(m.list) \in Nat /\ m.area \in [Vmas -> AreaType]
      /\ m.map_count = Len(m.list) /\ m.ok = TRUE /\ m.cache \in Range(m.list) \cup {NULL}
      /\ \A i \in 1..Len(m.list) :
           /\ m.list[i] \in Vmas /\ Valid(At(m, i))
           /\ At(m, i).vm_start \in Nat /\ At(m, i).vm_end \in Nat
           /\ At(m, i).vm_start < At(m, i).vm_end
      /\ \A i, j \in 1..Len(m.list) : i < j => At(m, i).vm_end <= At(m, j).vm_start
      /\ \A i, j \in 1..Len(m.list) : m.list[i] = m.list[j] => i = j
  BY SortedFacts
<1>2. m \in MmType
  BY DEF Sorted
<1>3. PICK N \in Nat : N = Len(m.list) /\ N >= 1 /\ N - 1 \in Nat /\ h \in 1..N
  BY <1>1
<1>4. PICK L, cache :
        L = Without(m.list, {h}) /\ cache = IF m.list[h] = m.cache THEN NULL ELSE m.cache
  OBVIOUS
<1>5. /\ L \in Seq(Vmas) /\ Len(L) = N - 1
      /\ \A j \in 1..(N - 1) : L[j] = IF j < h THEN m.list[j] ELSE m.list[j + 1]
  <2>1. IsRemoval(Vmas, m.list, h, L)
    BY <1>1, <1>4, WithoutOne
  <2> QED BY <1>3, <2>1 DEF IsRemoval
<1>6. n = [m EXCEPT !.list = L, !.map_count = N - 1, !.cache = cache]
  <2>1. Cardinality({h}) = 1
    <3>1. h \in Nat
      BY <1>3
    <3> QED BY <3>1, OneMinMax, Zenon
  <2>2. (\E k \in {h} : m.list[k] = m.cache) <=> m.list[h] = m.cache
    OBVIOUS
  <2> QED BY <1>1, <1>2, <1>3, <1>4, <2>1, <2>2 DEF Removed, MmType
<1>7. cache \in Vmas \cup {NULL}
  BY <1>2, <1>4 DEF MmType
<1>8. /\ n.list = L /\ n.area = m.area /\ n.map_count = N - 1 /\ n.cache = cache /\ n.ok = TRUE
      /\ n.brk_start = m.brk_start /\ n.brk = m.brk /\ n \in MmType
  BY <1>2, <1>3, <1>5, <1>6, <1>7 DEF MmType
<1>9. ASSUME NEW j \in 1..(N - 1)
      PROVE  /\ At(n, j) = IF j < h THEN At(m, j) ELSE At(m, j + 1)
             /\ j \in 1..N /\ j + 1 \in 1..N
  BY <1>3, <1>5, <1>8 DEF At
<1>10. ASSUME NEW i \in 1..N, i # h
       PROVE  \E j \in 1..(N - 1) : L[j] = m.list[i] /\ At(n, j) = At(m, i)
  <2>1. CASE i < h
    <3>1. i \in 1..(N - 1)
      BY <1>3, <2>1
    <3> QED BY <1>5, <1>9, <2>1, <3>1
  <2>2. CASE ~(i < h)
    <3>1. PICK j \in 1..(N - 1) : j = i - 1 /\ j + 1 = i /\ ~(j < h)
      BY <1>3, <1>10, <2>2
    <3> QED BY <1>5, <1>9, <3>1
  <2> QED BY <2>1, <2>2
<1>11. ASSUME NEW j \in 1..(N - 1)
       PROVE  \E i \in 1..N : i # h /\ L[j] = m.list[i] /\ At(n, j) = At(m, i)
  <2>1. CASE j < h
    <3>1. j \in 1..N /\ j # h
      BY <1>3, <2>1
    <3> QED BY <1>5, <1>9, <2>1, <3>1
  <2>2. CASE ~(j < h)
    <3>1. PICK i \in 1..N : i = j + 1 /\ i # h
      BY <1>3, <2>2
    <3> QED BY <1>5, <1>9, <2>2, <3>1
  <2> QED BY <2>1, <2>2
<1>12. AreasOf(n) = AreasOf(m) \ {At(m, h)}
  <2>1. ASSUME NEW y \in AreasOf(n) PROVE y \in AreasOf(m) /\ y # At(m, h)
    <3>1. PICK j \in 1..(N - 1) : y = At(n, j)
      BY <1>5, <1>8 DEF AreasOf
    <3>2. PICK i \in 1..N : i # h /\ y = At(m, i)
      BY <1>11, <3>1
    <3>3. y \in AreasOf(m)
      BY <1>3, <3>2 DEF AreasOf
    <3>4. i < h \/ h < i
      BY <1>3, <3>2
    <3> QED BY <1>1, <1>3, <3>2, <3>3, <3>4
  <2>2. ASSUME NEW y \in AreasOf(m), y # At(m, h) PROVE y \in AreasOf(n)
    <3>1. PICK i \in 1..N : y = At(m, i)
      BY <1>3 DEF AreasOf
    <3>2. PICK j \in 1..(N - 1) : y = At(n, j)
      BY <1>10, <2>2, <3>1
    <3> QED BY <1>5, <1>8, <3>2 DEF AreasOf
  <2> QED BY <2>1, <2>2
<1>13. m.list[h] \notin Range(n.list)
  <2> SUFFICES ASSUME m.list[h] \in Range(L) PROVE FALSE
    BY <1>8
  <2>1. PICK j \in 1..(N - 1) : L[j] = m.list[h]
    BY <1>5, RangeIs
  <2> QED BY <1>1, <1>3, <1>11, <2>1
<1>14. Sorted(n)
  <2>1. \A j \in 1..Len(n.list) : Valid(At(n, j))
    <3> SUFFICES ASSUME NEW j \in 1..(N - 1) PROVE Valid(At(n, j))
      BY <1>5, <1>8
    <3>1. PICK i \in 1..N : At(n, j) = At(m, i)
      BY <1>11
    <3> QED BY <1>1, <1>3, <3>1
  <2>2. ASSUME NEW i \in 1..(N - 1), NEW j \in 1..(N - 1), i < j
        PROVE  At(n, i).vm_end <= At(n, j).vm_start
    <3>1. PICK g \in 1..N : At(n, i) = At(m, g) /\ g = IF i < h THEN i ELSE i + 1
      BY <1>9
    <3>2. PICK k \in 1..N : At(n, j) = At(m, k) /\ k = IF j < h THEN j ELSE j + 1
      BY <1>9
    <3>3. g < k
      BY <1>3, <2>2, <3>1, <3>2
    <3> QED BY <1>1, <1>3, <3>1, <3>2, <3>3
  <2>3. cache \in Range(n.list) \cup {NULL}
    <3> SUFFICES ASSUME m.cache \in Range(m.list), m.cache # m.list[h] PROVE m.cache \in Range(L)
      BY <1>1, <1>4, <1>8
    <3>1. PICK i \in 1..N : m.cache = m.list[i]
      BY <1>1, <1>3, RangeIs
    <3>2. PICK j \in 1..(N - 1) : L[j] = m.cache
      BY <1>10, <3>1
    <3> QED BY <1>5, <3>2, RangeIs
  <2> QED BY <1>5, <1>8, <2>1, <2>2, <2>3 DEF Sorted
<1> QED BY <1>3, <1>5, <1>8, <1>12, <1>13, <1>14

\* kfree of an area that is in no list.
Freed(m, n, v) == n = [m EXCEPT !.area[v] = NoArea]

LEMMA FreedIs ==
    ASSUME NEW m, Sorted(m), NEW v \in Vmas, v \notin Range(m.list), NEW n, Freed(m, n, v)
    PROVE  /\ Sorted(n) /\ AreasOf(n) = AreasOf(m) /\ Len(n.list) = Len(m.list)
           /\ n.brk_start = m.brk_start /\ n.brk = m.brk
<1>1. m \in MmType
  BY DEF Sorted
<1>2. m.list \in Seq(Vmas) /\ m.area \in [Vmas -> AreaType] /\ Len(m.list) \in Nat
  BY SortedFacts
<1>3. PICK area : area = [m.area EXCEPT ![v] = NoArea] /\ area \in [Vmas -> AreaType]
  <2>1. PICK f \in [Vmas -> AreaType] : f = m.area
    BY <1>2
  <2>2. NoArea \in AreaType
    BY DEF NoArea, Area, AreaType
  <2>3. [f EXCEPT ![v] = NoArea] \in [Vmas -> AreaType]
    BY <2>2
  <2> QED BY <2>1, <2>3
<1>4. n = [m EXCEPT !.area = area]
  BY <1>1, <1>3 DEF Freed, MmType
<1>5. /\ n.list = m.list /\ n.area = area /\ n.map_count = m.map_count /\ n.cache = m.cache
      /\ n.brk_start = m.brk_start /\ n.brk = m.brk /\ n \in MmType
  BY <1>1, <1>3, <1>4 DEF MmType
<1>6. \A i \in 1..Len(m.list) : At(n, i) = At(m, i)
  BY <1>2, <1>3, <1>5, RangeIs DEF At
<1>7. Sorted(n)
  BY <1>5, <1>6 DEF Sorted
<1>8. AreasOf(n) = AreasOf(m)
  BY <1>5, <1>6 DEF AreasOf
<1> QED BY <1>5, <1>7, <1>8

\* Of one area, that one is put back.
OnePutBack(m, h, s, e) == PutBackAll(m, {h}, s, e) = PutBack(Removed(m, {h}), m.list[h], s, e)

LEMMA PutBackOne == ASSUME NEW m, NEW h \in Nat, NEW s, NEW e PROVE OnePutBack(m, h, s, e)
<1>1. Min({h}) = h /\ Max({h}) = h
  BY OneMinMax
<1>2. PICK r : r = Removed(m, {h})
  OBVIOUS
<1>3. PICK g : g = CHOOSE f : f = [k \in h..(h + 1) |->
                     IF k > h THEN r ELSE PutBack(f[k + 1], m.list[k], s, e)]
  OBVIOUS
<1>4. PutBackAll(m, {h}, s, e) = g[h]
  BY <1>1, <1>2, <1>3, Zenon DEF PutBackAll
<1>5. PICK q : q = PutBack(r, m.list[h], s, e)
  OBVIOUS
<1>6. PICK f : f = [k \in h..(h + 1) |-> IF k > h THEN r ELSE q]
  OBVIOUS
<1>7. f[h + 1] = r /\ f[h] = q
  BY <1>6
<1>8. \A k \in h..(h + 1) : f[k] = IF k > h THEN r ELSE PutBack(f[k + 1], m.list[k], s, e)
  <2> SUFFICES ASSUME NEW k \in h..(h + 1)
               PROVE  f[k] = IF k > h THEN r ELSE PutBack(f[k + 1], m.list[k], s, e)
    OBVIOUS
  <2>1. k = h \/ k = h + 1
    OBVIOUS
  <2>2. CASE k = h
    <3>1. ~(k > h) /\ f[k + 1] = r
      BY <1>7, <2>2
    <3> QED BY <1>5, <1>7, <2>2, <3>1
  <2>3. CASE k = h + 1
    <3>1. k > h
      BY <2>3
    <3> QED BY <1>7, <2>3, <3>1
  <2> QED BY <2>1, <2>2, <2>3
<1>9. f = [k \in h..(h + 1) |-> f[k]]
  BY <1>6
<1>10. f = [k \in h..(h + 1) |-> IF k > h THEN r ELSE PutBack(f[k + 1], m.list[k], s, e)]
  BY <1>8, <1>9
<1>11. g = [k \in h..(h + 1) |-> IF k > h THEN r ELSE PutBack(g[k + 1], m.list[k], s, e)]
  BY <1>3, <1>10, Zenon
<1>12. h \in h..(h + 1) /\ h + 1 \in h..(h + 1) /\ h + 1 > h /\ ~(h > h)
  OBVIOUS
<1>13. g[h + 1] = r
  BY <1>11, <1>12, Zenon
<1>14. g[h] = PutBack(g[h + 1], m.list[h], s, e)
  BY <1>11, <1>12, Zenon
<1> QED BY <1>2, <1>4, <1>13, <1>14 DEF OnePutBack

\* Only the area that ends at e is hit, if it contains s.
LEMMA HitIs ==
    ASSUME NEW m, Sorted(m), NEW h \in 1..Len(m.list), NEW s \in Nat, NEW e \in Nat,
           In(At(m, h), s), At(m, h).vm_end = e
    PROVE  Hit(m, s, e) = {h} /\ Unmapped(m, s, e) = s..(e - 1)
<1>1. /\ Len(m.list) \in Nat
      /\ \A i \in 1..Len(m.list) : At(m, i).vm_start \in Nat /\ At(m, i).vm_end \in Nat
      /\ \A i, j \in 1..Len(m.list) : i < j => At(m, i).vm_end <= At(m, j).vm_start
      /\ \A i, j \in 1..Len(m.list) : m.list[i] = m.list[j] => i = j
  BY SortedFacts
<1>2. find_vma(m, s) = m.list[h]
  <2>1. ~(\A i \in 1..Len(m.list) : ~In(At(m, i), s))
    OBVIOUS
  <2>2. PICK i \in 1..Len(m.list) :
          find_vma(m, s) = m.list[i] /\ \A j \in 1..Len(m.list) : In(At(m, j), s) => j = i
    BY <2>1, FindVma
  <2> QED BY <2>2
<1>3. At(m, h).vm_start <= s /\ s < e
  BY DEF In
<1>4. ASSUME NEW k \in Hit(m, s, e) PROVE k = h
  <2>1. k \in 1..Len(m.list) /\ \E i \in 1..k :
          m.list[i] = find_vma(m, s) /\ \A n \in i..k : m.area[m.list[n]].vm_start < e
    BY <1>4 DEF Hit
  <2>2. PICK i \in 1..k : m.list[i] = m.list[h] /\ \A n \in i..k : m.area[m.list[n]].vm_start < e
    BY <1>2, <2>1
  <2>3. i = h
    BY <1>1, <2>1, <2>2
  <2>4. k \in i..k /\ h <= k
    BY <2>1, <2>3
  <2>5. At(m, k).vm_start < e
    BY <2>2, <2>4 DEF At
  <2>6. ~(h < k)
    BY <1>1, <2>1, <2>5
  <2> QED BY <2>1, <2>4, <2>6
<1>5. h \in Hit(m, s, e)
  <2>1. h \in 1..h /\ \A n \in h..h : n = h
    OBVIOUS
  <2>2. m.area[m.list[h]].vm_start < e
    BY <1>1, <1>3 DEF At
  <2> QED BY <1>2, <2>1, <2>2 DEF Hit
<1>6. Hit(m, s, e) = {h}
  BY <1>4, <1>5
<1>7. Unmapped(m, s, e) = (s..(e - 1)) \cap (At(m, h).vm_start..(At(m, h).vm_end - 1))
  BY <1>6 DEF Unmapped, At
<1>8. (s..(e - 1)) \cap (At(m, h).vm_start..(At(m, h).vm_end - 1)) = s..(e - 1)
  BY <1>1, <1>3
<1> QED BY <1>6, <1>7, <1>8

\* The area x that ends at e is cut at s.
LEMMA UnmapIs ==
    ASSUME NEW m, Sorted(m), NEW x \in AreasOf(m), NEW s \in Nat, NEW e \in Nat,
           In(x, s), x.vm_end = e, x.vm_flags = "rw", NEW n, n = mm_unmap(m, s, e)
    PROVE  /\ Sorted(n) /\ n.brk_start = m.brk_start /\ n.brk = m.brk
           /\ x.vm_start = s => AreasOf(n) = AreasOf(m) \ {x} /\ Len(n.list) = Len(m.list) - 1
           /\ x.vm_start < s =>
                /\ AreasOf(n) = (AreasOf(m) \ {x}) \cup {Area(x.vm_start, s, "rw")}
                /\ Len(n.list) = Len(m.list)
           /\ Unmapped(m, s, e) = s..(e - 1)
<1>0. PICK c : c = Cached(m, s)
  OBVIOUS
<1>1. /\ Sorted(c) /\ AreasOf(c) = AreasOf(m) /\ c.list = m.list /\ c.area = m.area
      /\ c.brk_start = m.brk_start /\ c.brk = m.brk
  BY <1>0, CachedIs DEF Alike
<1>2. PICK h \in 1..Len(m.list) : x = At(m, h)
  BY AreasFacts
<1>3. h \in 1..Len(c.list) /\ x = At(c, h) /\ h \in Nat
  BY <1>1, <1>2 DEF At
<1>4. Hit(c, s, e) = {h} /\ Unmapped(m, s, e) = s..(e - 1)
  <2>1. Hit(c, s, e) = {h}
    <3>1. In(At(c, h), s) /\ At(c, h).vm_end = e
      BY <1>3
    <3> QED BY <1>1, <1>3, <3>1, HitIs
  <2>2. Unmapped(m, s, e) = s..(e - 1)
    <3>1. In(At(m, h), s) /\ At(m, h).vm_end = e
      BY <1>2
    <3> QED BY <1>2, <3>1, HitIs
  <2> QED BY <2>1, <2>2
<1>5. /\ x.vm_start \in Nat /\ x.vm_start <= s /\ s < e /\ USERBASE <= x.vm_start /\ e <= USERTOP
  BY AreasFacts DEF In
<1>6. PICK v \in Vmas : v = c.list[h] /\ c.area[v] = x
  BY <1>1, <1>3, SortedFacts DEF At
<1>7. n = PutBackAll(c, {h}, s, e)
  <2>1. Min({h}) = h
    BY <1>3, OneMinMax
  <2>2. ~(e < c.area[c.list[Min({h})]].vm_end)
    BY <1>5, <1>6, <2>1
  <2>3. {h} # {}
    OBVIOUS
  <2> QED BY <1>0, <1>4, <2>2, <2>3 DEF mm_unmap
<1>8. PICK r : r = Removed(c, {h})
  OBVIOUS
<1>9. n = PutBack(r, v, s, e)
  <2>1. h \in Nat
    BY <1>3
  <2>2. OnePutBack(c, h, s, e)
    BY <2>1, PutBackOne, Zenon
  <2> QED BY <1>6, <1>7, <1>8, <2>2 DEF OnePutBack
<1>10. /\ Sorted(r) /\ AreasOf(r) = AreasOf(m) \ {x} /\ Len(r.list) = Len(m.list) - 1
       /\ r.area = c.area /\ r.brk_start = m.brk_start /\ r.brk = m.brk /\ v \notin Range(r.list)
  <2>1. /\ Sorted(r) /\ AreasOf(r) = AreasOf(c) \ {At(c, h)} /\ Len(r.list) = Len(c.list) - 1
        /\ r.area = c.area /\ r.brk_start = c.brk_start /\ r.brk = c.brk
        /\ c.list[h] \notin Range(r.list)
    BY <1>1, <1>3, <1>8, RemovedIs
  <2> QED BY <1>1, <1>3, <1>6, <2>1
<1>11. r.area[v] = x
  BY <1>6, <1>10
<1>12. CASE x.vm_start = s
  <2>1. ~(x.vm_start < s) /\ ~(x.vm_start >= s /\ e < x.vm_end)
    BY <1>5, <1>12
  <2>2. n = [r EXCEPT !.area[v] = NoArea]
    BY <1>9, <1>11, <2>1 DEF PutBack
  <2>3. Freed(r, n, v)
    BY <2>2, Zenon DEF Freed
  <2>4. /\ Sorted(n) /\ AreasOf(n) = AreasOf(r) /\ Len(n.list) = Len(r.list)
        /\ n.brk_start = r.brk_start /\ n.brk = r.brk
    BY <1>10, <2>3, FreedIs
  <2> QED BY <1>4, <1>5, <1>10, <1>12, <2>4
<1>13. CASE x.vm_start < s
  <2>1. PICK y : y = Area(x.vm_start, s, "rw")
    OBVIOUS
  <2>2. n = insert_vma_struct(r, v, y)
    BY <1>9, <1>11, <1>13, <2>1 DEF PutBack
  <2>3. USER_ACCESS(x.vm_start, s)
    BY <1>5, <1>13, VmAreaAssumption DEF USER_ACCESS
  <2>4. y \in AreaType /\ Valid(y) /\ y.vm_start = x.vm_start /\ y.vm_end = s
    BY <1>5, <2>1, <2>3, AreaIs
  <2>5. ASSUME NEW z \in AreasOf(r) PROVE Apart(y, z)
    <3>1. z \in AreasOf(m) /\ z # x /\ z.vm_start \in Nat /\ z.vm_end \in Nat
      BY <1>10, AreasFacts
    <3>2. x.vm_end <= z.vm_start \/ z.vm_end <= x.vm_start
      BY <3>1, AreasFacts
    <3> QED BY <1>5, <2>4, <3>1, <3>2 DEF Apart
  <2>6. /\ Sorted(n) /\ AreasOf(n) = AreasOf(r) \cup {y} /\ Len(n.list) = Len(r.list) + 1
        /\ n.brk_start = r.brk_start /\ n.brk = r.brk
    BY <1>10, <2>2, <2>4, <2>5, Insertion
  <2>7. Len(n.list) = Len(m.list)
    BY <1>10, <2>6, SortedFacts
  <2> QED BY <1>4, <1>10, <1>13, <2>1, <2>6, <2>7
<1> QED BY <1>5, <1>12, <1>13

-----------------------------------------------------------------------------
(* The break.                                                               *)

\* The area v ends at b instead of below.
Extended(m, n, v, b) == n = [m EXCEPT !.area[v].vm_end = b]

LEMMA ExtendIs ==
    ASSUME NEW m, Sorted(m), NEW h \in 1..Len(m.list), NEW v \in Vmas, v = m.list[h],
           NEW x, x = At(m, h), NEW b \in Nat, x.vm_end < b, b <= USERTOP,
           \A y \in AreasOf(m) : x.vm_end <= y.vm_start => b <= y.vm_start,
           NEW n, Extended(m, n, v, b), NEW z, z = Area(x.vm_start, b, x.vm_flags)
    PROVE  /\ Sorted(n) /\ AreasOf(n) = (AreasOf(m) \ {x}) \cup {z} /\ Len(n.list) = Len(m.list)
           /\ n.brk_start = m.brk_start /\ n.brk = m.brk
<1>1. /\ m.list \in Seq(Vmas) /\ Len(m.list) \in Nat /\ m.area \in [Vmas -> AreaType]
      /\ \A i \in 1..Len(m.list) :
           /\ m.list[i] \in Vmas /\ At(m, i) \in AreaType /\ Valid(At(m, i))
           /\ At(m, i).vm_start \in Nat /\ At(m, i).vm_end \in Nat
           /\ At(m, i).vm_start < At(m, i).vm_end
      /\ \A i, j \in 1..Len(m.list) : i < j => At(m, i).vm_end <= At(m, j).vm_start
      /\ \A i, j \in 1..Len(m.list) : m.list[i] = m.list[j] => i = j
  BY SortedFacts
<1>2. m \in MmType
  BY DEF Sorted
<1>3. /\ x \in AreaType /\ Valid(x) /\ x.vm_start \in Nat /\ x.vm_end \in Nat /\ x.vm_start < b
      /\ x.vm_flags \in {"rx", "rw", "stack"} /\ USER_ACCESS(x.vm_start, b)
  BY <1>1, VmAreaAssumption DEF Valid, USER_ACCESS
<1>4. z \in AreaType /\ Valid(z) /\ z.vm_start = x.vm_start /\ z.vm_end = b
  BY <1>3, AreaIs
<1>5. PICK area : area = [m.area EXCEPT ![v] = z] /\ area \in [Vmas -> AreaType]
  <2>1. PICK f \in [Vmas -> AreaType] : f = m.area
    BY <1>1
  <2>2. [f EXCEPT ![v] = z] \in [Vmas -> AreaType]
    BY <1>4
  <2> QED BY <2>1, <2>2
<1>6. n = [m EXCEPT !.area = area]
  <2>1. m.area[v] = x
    BY DEF At
  <2>2. [x EXCEPT !.vm_end = b] = z
    <3>1. x = [vm_start |-> x.vm_start, vm_end |-> x.vm_end, vm_flags |-> x.vm_flags]
      BY <1>3 DEF AreaType
    <3> QED BY <3>1 DEF Area
  <2>3. [m.area EXCEPT ![v].vm_end = b] = area
    BY <1>1, <1>5, <2>1, <2>2
  <2> QED BY <1>2, <2>3 DEF Extended, MmType
<1>7. /\ n.list = m.list /\ n.area = area /\ n.map_count = m.map_count /\ n.cache = m.cache
      /\ n.brk_start = m.brk_start /\ n.brk = m.brk /\ n \in MmType
  BY <1>2, <1>5, <1>6 DEF MmType
<1>8. At(n, h) = z /\ \A i \in 1..Len(m.list) : i # h => At(n, i) = At(m, i)
  BY <1>1, <1>5, <1>7 DEF At
<1>9. Sorted(n)
  <2>1. \A i \in 1..Len(n.list) : Valid(At(n, i))
    BY <1>1, <1>4, <1>7, <1>8
  <2>2. ASSUME NEW i \in 1..Len(m.list), NEW j \in 1..Len(m.list), i < j
        PROVE  At(n, i).vm_end <= At(n, j).vm_start
    <3>1. At(m, i).vm_end <= At(m, j).vm_start /\ At(m, j) \in AreasOf(m)
      BY <1>1, <2>2 DEF AreasOf
    <3>2. CASE i = h
      BY <1>4, <1>8, <2>2, <3>1, <3>2
    <3>3. CASE i # h
      BY <1>4, <1>8, <2>2, <3>1, <3>3
    <3> QED BY <3>2, <3>3
  <2> QED BY <1>7, <2>1, <2>2 DEF Sorted
<1>10. AreasOf(n) = (AreasOf(m) \ {x}) \cup {z}
  <2>1. \A i \in 1..Len(m.list) : i # h => At(m, i) # x
    <3> SUFFICES ASSUME NEW i \in 1..Len(m.list), i # h, At(m, i) = x PROVE FALSE
      OBVIOUS
    <3>1. i < h \/ h < i
      OBVIOUS
    <3> QED BY <1>1, <3>1
  <2>2. ASSUME NEW y \in AreasOf(n) PROVE y \in (AreasOf(m) \ {x}) \cup {z}
    <3>1. PICK i \in 1..Len(m.list) : y = At(n, i)
      BY <1>7 DEF AreasOf
    <3> QED BY <1>8, <2>1, <3>1 DEF AreasOf
  <2>3. ASSUME NEW y \in AreasOf(m), y # x PROVE y \in AreasOf(n)
    <3>1. PICK i \in 1..Len(m.list) : y = At(m, i)
      BY DEF AreasOf
    <3> QED BY <1>7, <1>8, <2>3, <3>1 DEF AreasOf
  <2>4. z \in AreasOf(n)
    BY <1>7, <1>8 DEF AreasOf
  <2> QED BY <2>2, <2>3, <2>4
<1> QED BY <1>7, <1>9, <1>10

\* What do_brk relies on: the areas other than the stack end at the break or below,
\* at most one ends at the break if that has moved, and the stack is above b.
LEMMA HeapFacts ==
    ASSUME NEW m, Sorted(m), InUser(m)
    PROVE  /\ m.brk_start \in Nat /\ m.brk \in Nat /\ m.brk_start <= m.brk
           /\ \A y \in AreasOf(m) : Heap(y) => y.vm_end <= m.brk
           /\ \A y \in AreasOf(m), b \in Nat : ~Heap(y) /\ Below(b) => b <= y.vm_start
           /\ \A y, z \in AreasOf(m) : y.vm_end = z.vm_end => y = z
<1>1. m.brk_start \in Nat /\ m.brk \in Nat /\ m.brk_start <= m.brk
  BY SortedFacts DEF InUser
<1>2. ASSUME NEW y \in AreasOf(m), Heap(y) PROVE y.vm_end <= m.brk
  <2>1. y.vm_end <= m.brk_start \/ y.vm_end = m.brk
    BY <1>2 DEF InUser, HeapArea
  <2>2. y.vm_end \in Nat
    BY AreasFacts
  <2> QED BY <1>1, <2>1, <2>2
<1>3. ASSUME NEW y \in AreasOf(m), NEW b \in Nat, ~Heap(y), Below(b) PROVE b <= y.vm_start
  BY <1>3 DEF InUser, Below
<1>4. ASSUME NEW y \in AreasOf(m), NEW z \in AreasOf(m), y.vm_end = z.vm_end PROVE y = z
  <2>1. /\ y.vm_start \in Nat /\ y.vm_end \in Nat /\ y.vm_start < y.vm_end
        /\ z.vm_start \in Nat /\ z.vm_end \in Nat /\ z.vm_start < z.vm_end
    BY AreasFacts
  <2>2. y # z => y.vm_end <= z.vm_start \/ z.vm_end <= y.vm_start
    BY AreasFacts
  <2> QED BY <1>4, <2>1, <2>2
<1> QED BY <1>1, <1>2, <1>3, <1>4

\* The pages of m's areas but those in A are in areas of n, with the same rights.
Covers(m, n, A) ==
    \A a \in Int \ A, w \in BOOLEAN : Covered(m, a, w) => Covered(n, a, w)

\* do_brk to a lower address.
LEMMA ShrinkIs ==
    ASSUME NEW m, Sorted(m), InUser(m), NEW b \in Nat, m.brk_start <= b, b < m.brk,
           NEW k, k = mm_unmap(m, b, m.brk), NEW n, n = [k EXCEPT !.brk = b]
    PROVE  /\ k.ok /\ Sorted(n) /\ InUser(n)
           /\ Unmapped(m, b, m.brk) = b..(m.brk - 1)
           /\ Covers(m, n, b..(m.brk - 1))
<1>1. m.brk_start \in Nat /\ m.brk \in Nat
  BY HeapFacts
<1>2. PICK x \in AreasOf(m) : HeapArea(m, x)
  BY <1>1 DEF InUser
<1>3. /\ x.vm_flags = "rw" /\ x.vm_start <= m.brk_start /\ x.vm_end = m.brk /\ In(x, b)
      /\ x.vm_start \in Nat /\ x.vm_start <= b
  BY <1>1, <1>2, AreasFacts DEF HeapArea, In
<1>4. PICK e \in Nat : e = m.brk
  BY <1>1
<1>5. /\ Sorted(k) /\ k.brk_start = m.brk_start /\ k.brk = m.brk
      /\ x.vm_start = b => AreasOf(k) = AreasOf(m) \ {x} /\ Len(k.list) = Len(m.list) - 1
      /\ x.vm_start < b =>
           /\ AreasOf(k) = (AreasOf(m) \ {x}) \cup {Area(x.vm_start, b, "rw")}
           /\ Len(k.list) = Len(m.list)
      /\ Unmapped(m, b, e) = b..(e - 1)
  BY <1>3, <1>4, UnmapIs
<1>6. k.ok
  BY <1>5, SortedFacts
<1>7. Moved(k, n, m.brk_start, b)
  <2>1. k \in MmType
    BY <1>5 DEF Sorted
  <2> QED BY <1>5, <2>1 DEF Moved, MmType
<1>8. /\ Sorted(n) /\ AreasOf(n) = AreasOf(k) /\ n.list = k.list
      /\ n.brk_start = m.brk_start /\ n.brk = b
  BY <1>1, <1>5, <1>7, MovedIs
<1>9. ASSUME NEW y \in AreasOf(m), y # x
      PROVE  /\ Heap(y) => y.vm_end <= m.brk_start
             /\ ~Heap(y) => \E top \in StackTops : y.vm_start = top - USTACKPAGE
  <2>1. y.vm_end # m.brk
    BY <1>3, <1>9, HeapFacts
  <2> QED BY <2>1 DEF InUser, HeapArea
<1>10. \A y \in AreasOf(m) : y.vm_start = m.brk_start /\ Heap(y) => y = x
  <2> SUFFICES ASSUME NEW y \in AreasOf(m), y.vm_start = m.brk_start, Heap(y), y # x PROVE FALSE
    OBVIOUS
  <2>1. y.vm_end <= m.brk_start
    BY <1>9
  <2>2. y.vm_start < y.vm_end /\ y.vm_end \in Nat
    BY AreasFacts
  <2> QED BY <1>1, <2>1, <2>2
<1>11. Names \in Nat /\ Len(m.list) \in Nat /\ Len(m.list) <= Names
  BY VmAreaAssumption, FS_CardinalityType, SortedFacts DEF InUser, Names
<1>12. CASE x.vm_start = b
  <2>1. AreasOf(n) = AreasOf(m) \ {x} /\ Len(n.list) = Len(m.list) - 1 /\ m.brk_start = b
    BY <1>1, <1>3, <1>5, <1>8, <1>12
  <2>2. InUser(n)
    <3>1. Len(n.list) <= Names /\ Len(n.list) # Names
      BY <1>11, <2>1
    <3> QED BY <1>1, <1>8, <1>9, <2>1, <3>1 DEF InUser
  <2>3. ASSUME NEW a \in Int \ (b..(m.brk - 1)), NEW w \in BOOLEAN, Covered(m, a, w) PROVE Covered(n, a, w)
    <3>1. PICK y \in AreasOf(m) : y.vm_start <= a /\ a < y.vm_end /\ w = Writable(y.vm_flags)
      BY <2>3 DEF Covered
    <3>2. y # x
      BY <1>1, <1>3, <1>12, <2>3, <3>1
    <3> QED BY <2>1, <3>1, <3>2 DEF Covered
  <2> QED BY <1>4, <1>5, <1>6, <1>8, <2>2, <2>3 DEF Covers
<1>13. CASE x.vm_start < b
  <2>1. PICK z : z = Area(x.vm_start, b, "rw")
    OBVIOUS
  <2>2. AreasOf(n) = (AreasOf(m) \ {x}) \cup {z} /\ Len(n.list) = Len(m.list)
    BY <1>5, <1>8, <1>13, <2>1
  <2>3. z.vm_start = x.vm_start /\ z.vm_end = b /\ z.vm_flags = "rw"
    BY <2>1 DEF Area
  <2>4. Heap(z) /\ HeapArea(n, z)
    BY <1>3, <1>8, <2>3 DEF Heap, HeapArea
  <2>5. InUser(n)
    <3>1. \A y \in AreasOf(n) :
            /\ Heap(y) => y.vm_end <= n.brk_start \/ HeapArea(n, y)
            /\ ~Heap(y) => \E top \in StackTops : y.vm_start = top - USTACKPAGE
      BY <1>8, <1>9, <2>2, <2>4
    <3>2. Len(n.list) = Names => \E y \in AreasOf(n) : Heap(y) /\ y.vm_start = n.brk_start
      <4> SUFFICES ASSUME Len(m.list) = Names PROVE z.vm_start = m.brk_start
        BY <1>8, <2>2, <2>4
      <4>1. PICK y \in AreasOf(m) : Heap(y) /\ y.vm_start = m.brk_start
        BY DEF InUser
      <4> QED BY <1>10, <2>3, <4>1
    <3>3. \E y \in AreasOf(n) : HeapArea(n, y)
      BY <2>2, <2>4
    <3> QED BY <1>8, <1>11, <2>2, <3>1, <3>2, <3>3 DEF InUser
  <2>6. ASSUME NEW a \in Int \ (b..(m.brk - 1)), NEW w \in BOOLEAN, Covered(m, a, w) PROVE Covered(n, a, w)
    <3>1. PICK y \in AreasOf(m) : y.vm_start <= a /\ a < y.vm_end /\ w = Writable(y.vm_flags)
      BY <2>6 DEF Covered
    <3>2. CASE y # x
      BY <2>2, <3>1, <3>2 DEF Covered
    <3>3. CASE y = x
      <4>1. z.vm_start <= a /\ a < z.vm_end /\ w = Writable(z.vm_flags)
        BY <1>1, <1>3, <2>3, <2>6, <3>1, <3>3
      <4> QED BY <2>2, <4>1 DEF Covered
    <3> QED BY <3>2, <3>3
  <2> QED BY <1>4, <1>5, <1>6, <1>8, <2>5, <2>6 DEF Covers
<1> QED BY <1>3, <1>12, <1>13

\* No area is in the way from s to e: mm_unmap finds nothing to remove.
LEMMA NothingAbove ==
    ASSUME NEW m, Sorted(m), NEW s \in Nat, NEW e \in Nat, s < e, ~Intersects(m, s, e + 1)
    PROVE  mm_unmap(m, s, e) = m /\ Unmapped(m, s, e) = {}
<1>1. find_vma(m, s) = NULL
  <2> SUFFICES ASSUME NEW i \in 1..Len(m.list), find_vma(m, s) = m.list[i], find_vma(m, s) # NULL,
                      In(At(m, i), s)
               PROVE  FALSE
    BY FindVma
  <2>1. ~(e + 1 > At(m, i).vm_start)
    BY DEF Intersects, At
  <2>2. At(m, i).vm_start \in Nat /\ At(m, i).vm_start <= s
    BY SortedFacts DEF In
  <2> QED BY <2>1, <2>2
<1>2. Cached(m, s) = m
  BY <1>1 DEF Cached
<1>3. Hit(m, s, e) = {}
  <2> SUFFICES ASSUME NEW k \in 1..Len(m.list), NEW i \in 1..k, m.list[i] = NULL PROVE FALSE
    BY <1>1 DEF Hit
  <2>1. i \in 1..Len(m.list)
    BY SortedFacts
  <2> QED BY <2>1, SortedFacts
<1>4. mm_unmap(m, s, e) = m
  BY <1>2, <1>3 DEF mm_unmap
<1>5. Unmapped(m, s, e) = {}
  BY <1>3 DEF Unmapped
<1> QED BY <1>4, <1>5

\* do_brk to a higher address, with nothing in between: the area that ends at the
\* break grows, or a new one begins there.
LEMMA GrowIs ==
    ASSUME NEW m, Sorted(m), InUser(m), NEW b \in Nat, m.brk < b, USER_ACCESS(m.brk, b), Below(b),
           ~Intersects(m, m.brk, b + 1),
           NEW k, k = mm_brk(m, m.brk, b), NEW n, n = [k EXCEPT !.brk = b]
    PROVE  /\ k.ok /\ Sorted(n) /\ InUser(n)
           /\ Unmapped(m, m.brk, b) = {}
           /\ Covers(m, n, {})
<1>1. PICK e \in Nat : e = m.brk /\ m.brk_start \in Nat /\ m.brk_start <= e /\ e < b
  BY HeapFacts
<1>2. mm_unmap(m, e, b) = m /\ Unmapped(m, e, b) = {}
  BY <1>1, NothingAbove
<1>3. PICK c : c = Cached(m, e - 1)
  OBVIOUS
<1>4. /\ Sorted(c) /\ AreasOf(c) = AreasOf(m) /\ c.list = m.list /\ c.area = m.area
      /\ c.brk_start = m.brk_start /\ c.brk = m.brk
  <2>1. PICK a \in Int : a = e - 1
    BY <1>1
  <2> QED BY <1>3, <2>1, CachedIs DEF Alike
<1>5. PICK v : v = find_vma(c, e - 1)
  OBVIOUS
<1>6. k = IF v # NULL /\ c.area[v].vm_end = e /\ c.area[v].vm_flags = "rw"
          THEN [c EXCEPT !.area[v].vm_end = b]
          ELSE insert_vma_struct(c, NewVma(c), Area(e, b, "rw"))
  BY <1>1, <1>2, <1>3, <1>5 DEF mm_brk
<1>7. /\ \A y \in AreasOf(m) : Heap(y) => y.vm_end <= e
      /\ \A y \in AreasOf(m) : ~Heap(y) => b <= y.vm_start
      /\ \A y, z \in AreasOf(m) : y.vm_end = z.vm_end => y = z
      /\ \A y \in AreasOf(m) : y.vm_start \in Nat /\ y.vm_end \in Nat /\ y.vm_start < y.vm_end
  BY <1>1, HeapFacts, AreasFacts
<1>8. USERBASE <= e /\ b <= USERTOP /\ USERTOP \in Nat /\ USERBASE \in Nat
  BY <1>1, VmAreaAssumption DEF USER_ACCESS
<1>9. Names \in Nat /\ Len(m.list) \in Nat /\ Len(m.list) <= Names
  BY VmAreaAssumption, FS_CardinalityType, SortedFacts DEF InUser, Names
<1>10. ASSUME Sorted(k), k.brk_start = m.brk_start, k.brk = m.brk
       PROVE  /\ k.ok /\ Sorted(n) /\ AreasOf(n) = AreasOf(k) /\ n.list = k.list
              /\ n.brk_start = m.brk_start /\ n.brk = b
  <2>1. k \in MmType
    BY <1>10 DEF Sorted
  <2>2. Moved(k, n, m.brk_start, b)
    BY <1>10, <2>1 DEF Moved, MmType
  <2>3. k.ok
    BY <1>10, SortedFacts
  <2>4. m.brk_start \in Nat
    BY <1>1
  <2> QED BY <1>10, <2>2, <2>3, <2>4, MovedIs
<1>11. CASE v # NULL /\ c.area[v].vm_end = e /\ c.area[v].vm_flags = "rw"
  <2>1. PICK h \in 1..Len(c.list) : v = c.list[h]
    BY <1>1, <1>4, <1>5, <1>11, FindVma
  <2>2. PICK x \in AreasOf(m) : x = At(c, h) /\ x.vm_end = e /\ x.vm_flags = "rw"
    BY <1>4, <1>11, <2>1 DEF AreasOf, At
  <2>3. PICK z : z = Area(x.vm_start, b, "rw")
    OBVIOUS
  <2>4. z.vm_start = x.vm_start /\ z.vm_end = b /\ z.vm_flags = "rw"
    BY <2>3 DEF Area
  <2>5. Extended(c, k, v, b)
    BY <1>6, <1>11 DEF Extended
  <2>6. \A y \in AreasOf(c) : x.vm_end <= y.vm_start => b <= y.vm_start
    BY <1>1, <1>4, <1>7, <2>2
  <2>7. v \in Vmas
    BY <1>4, <2>1, SortedFacts
  <2>8. /\ Sorted(k) /\ AreasOf(k) = (AreasOf(m) \ {x}) \cup {z} /\ Len(k.list) = Len(m.list)
        /\ k.brk_start = m.brk_start /\ k.brk = m.brk
    <3>1. x = At(c, h) /\ x.vm_end < b /\ b <= USERTOP /\ z = Area(x.vm_start, b, x.vm_flags)
      BY <1>1, <1>8, <2>2, <2>3
    <3>2. /\ Sorted(k) /\ AreasOf(k) = (AreasOf(c) \ {x}) \cup {z} /\ Len(k.list) = Len(c.list)
          /\ k.brk_start = c.brk_start /\ k.brk = c.brk
      BY <1>4, <2>1, <2>5, <2>6, <2>7, <3>1, ExtendIs
    <3> QED BY <1>4, <3>2
  <2>9. /\ k.ok /\ Sorted(n) /\ AreasOf(n) = (AreasOf(m) \ {x}) \cup {z} /\ Len(n.list) = Len(m.list)
        /\ n.brk_start = m.brk_start /\ n.brk = b
    BY <1>10, <2>8
  <2>10. x.vm_start <= m.brk_start
    <3>1. Heap(x)
      BY <2>2 DEF Heap
    <3>2. x.vm_end <= m.brk_start \/ x.vm_start <= m.brk_start
      BY <3>1 DEF InUser, HeapArea
    <3> QED BY <1>1, <1>7, <3>2
  <2>11. Heap(z) /\ HeapArea(n, z)
    BY <2>4, <2>9, <2>10 DEF Heap, HeapArea
  <2>12. InUser(n)
    <3>1. ASSUME NEW y \in AreasOf(m), y # x
          PROVE  /\ Heap(y) => y.vm_end <= m.brk_start
                 /\ ~Heap(y) => \E top \in StackTops : y.vm_start = top - USTACKPAGE
      <4>1. y.vm_end # m.brk
        BY <1>1, <1>7, <2>2, <3>1
      <4> QED BY <4>1 DEF InUser, HeapArea
    <3>2. \A y \in AreasOf(n) :
            /\ Heap(y) => y.vm_end <= n.brk_start \/ HeapArea(n, y)
            /\ ~Heap(y) => \E top \in StackTops : y.vm_start = top - USTACKPAGE
      BY <2>9, <2>11, <3>1
    <3>3. Len(n.list) = Names => \E y \in AreasOf(n) : Heap(y) /\ y.vm_start = n.brk_start
      <4> SUFFICES ASSUME Len(m.list) = Names PROVE z.vm_start = m.brk_start
        BY <2>9, <2>11
      <4>1. PICK y \in AreasOf(m) : Heap(y) /\ y.vm_start = m.brk_start
        BY DEF InUser
      <4>2. y = x
        <5> SUFFICES ASSUME y # x PROVE FALSE
          OBVIOUS
        <5>1. y.vm_end <= m.brk_start
          BY <3>1, <4>1
        <5> QED BY <1>1, <1>7, <4>1, <5>1
      <4> QED BY <2>4, <4>1, <4>2
    <3>4. \E y \in AreasOf(n) : HeapArea(n, y)
      BY <2>9, <2>11
    <3>5. n.brk_start <= n.brk
      BY <1>1, <2>9
    <3> QED BY <1>9, <2>9, <3>2, <3>3, <3>4, <3>5 DEF InUser
  <2>13. ASSUME NEW a \in Int \ {}, NEW w \in BOOLEAN, Covered(m, a, w) PROVE Covered(n, a, w)
    <3>1. PICK y \in AreasOf(m) : y.vm_start <= a /\ a < y.vm_end /\ w = Writable(y.vm_flags)
      BY <2>13 DEF Covered
    <3>2. CASE y # x
      BY <2>9, <3>1, <3>2 DEF Covered
    <3>3. CASE y = x
      <4>1. z.vm_start <= a /\ a < z.vm_end /\ w = Writable(z.vm_flags)
        BY <1>1, <2>2, <2>4, <3>1, <3>3
      <4> QED BY <2>9, <4>1 DEF Covered
    <3> QED BY <3>2, <3>3
  <2> QED BY <1>1, <1>2, <2>9, <2>12, <2>13 DEF Covers
<1>12. CASE ~(v # NULL /\ c.area[v].vm_end = e /\ c.area[v].vm_flags = "rw")
  <2>1. \A y \in AreasOf(m) : ~HeapArea(m, y)
    <3> SUFFICES ASSUME NEW y \in AreasOf(m), HeapArea(m, y) PROVE FALSE
      OBVIOUS
    <3>1. PICK h \in 1..Len(c.list) : y = At(c, h)
      BY <1>4 DEF AreasOf
    <3>2. y.vm_end = e /\ y.vm_flags = "rw"
      BY <1>1 DEF HeapArea
    <3>3. In(At(c, h), e - 1)
      BY <1>1, <1>7, <3>1, <3>2 DEF In
    <3>4. e - 1 \in Int
      BY <1>1
    <3>5. PICK i \in 1..Len(c.list) : v = c.list[i] /\ v # NULL /\ h = i
      BY <1>4, <1>5, <3>3, <3>4, FindVma
    <3> QED BY <1>12, <3>1, <3>2, <3>5 DEF At
  <2>2. m.brk_start = e
    BY <1>1, <2>1 DEF InUser
  <2>3. Len(c.list) < Names
    <3> SUFFICES ASSUME Len(m.list) = Names PROVE FALSE
      BY <1>4, <1>9
    <3>1. PICK y \in AreasOf(m) : Heap(y) /\ y.vm_start = m.brk_start
      BY DEF InUser
    <3>2. y.vm_end <= m.brk_start
      BY <2>1, <3>1 DEF InUser
    <3> QED BY <1>1, <1>7, <3>1, <3>2
  <2>4. PICK z : z = Area(e, b, "rw")
    OBVIOUS
  <2>5. z \in AreaType /\ Valid(z) /\ z.vm_start = e /\ z.vm_end = b /\ z.vm_flags = "rw"
    BY <1>1, <2>4, AreaIs
  <2>6. ASSUME NEW y \in AreasOf(c) PROVE Apart(z, y)
    BY <1>4, <1>7, <2>5 DEF Apart
  <2>7. NewVma(c) \in Vmas /\ NewVma(c) \notin Range(c.list)
    BY <1>4, <2>3, NewVmaIs
  <2>8. k = insert_vma_struct(c, NewVma(c), z)
    BY <1>6, <1>12, <2>4
  <2>9. /\ Sorted(k) /\ AreasOf(k) = AreasOf(m) \cup {z} /\ Len(k.list) = Len(m.list) + 1
        /\ k.brk_start = m.brk_start /\ k.brk = m.brk
    <3>1. /\ Sorted(k) /\ AreasOf(k) = AreasOf(c) \cup {z} /\ Len(k.list) = Len(c.list) + 1
          /\ k.brk_start = c.brk_start /\ k.brk = c.brk
      BY <1>4, <2>5, <2>6, <2>7, <2>8, Insertion
    <3> QED BY <1>4, <3>1
  <2>10. /\ k.ok /\ Sorted(n) /\ AreasOf(n) = AreasOf(m) \cup {z} /\ Len(n.list) = Len(m.list) + 1
         /\ n.brk_start = m.brk_start /\ n.brk = b
    BY <1>10, <2>9
  <2>11. Heap(z) /\ HeapArea(n, z) /\ z.vm_start = n.brk_start
    BY <1>1, <2>2, <2>5, <2>10 DEF Heap, HeapArea
  <2>12. InUser(n)
    <3>1. \A y \in AreasOf(n) :
            /\ Heap(y) => y.vm_end <= n.brk_start \/ HeapArea(n, y)
            /\ ~Heap(y) => \E top \in StackTops : y.vm_start = top - USTACKPAGE
      BY <2>1, <2>10, <2>11 DEF InUser
    <3>2. n.brk_start <= n.brk /\ Len(n.list) <= Names
      BY <1>1, <1>4, <1>9, <2>3, <2>10
    <3> QED BY <2>10, <2>11, <3>1, <3>2 DEF InUser
  <2>13. Covers(m, n, {})
    BY <2>10 DEF Covers, Covered
  <2> QED BY <1>1, <1>2, <2>10, <2>12, <2>13
<1> QED BY <1>11, <1>12

-----------------------------------------------------------------------------
(* Page tables and reference counts.                                        *)

\* The pages of the areas, by area.
LEMMA AreaPagesIs ==
    ASSUME NEW m, Sorted(m), NEW flags, NEW a
    PROVE  a \in AreaPages(m, flags) <=>
             a \in Int /\ \E x \in AreasOf(m) : x.vm_flags \in flags /\ In(x, a)
<1>1. /\ m.list \in Seq(Vmas) /\ Len(m.list) \in Nat
      /\ \A i \in 1..Len(m.list) : At(m, i).vm_start \in Nat /\ At(m, i).vm_end \in Nat
  BY SortedFacts
<1>2. ASSUME a \in AreaPages(m, flags)
      PROVE  a \in Int /\ \E x \in AreasOf(m) : x.vm_flags \in flags /\ In(x, a)
  <2>1. PICK v \in Range(m.list) :
          m.area[v].vm_flags \in flags /\ a \in m.area[v].vm_start..(m.area[v].vm_end - 1)
    BY <1>2 DEF AreaPages
  <2>2. PICK i \in 1..Len(m.list) : v = m.list[i]
    BY <1>1, RangeIs
  <2>3. PICK x \in AreasOf(m) : x = m.area[v] /\ x.vm_start \in Nat /\ x.vm_end \in Nat
    BY <1>1, <2>2 DEF AreasOf, At
  <2> QED BY <2>1, <2>3 DEF In
<1>3. ASSUME a \in Int, NEW x \in AreasOf(m), x.vm_flags \in flags, In(x, a)
      PROVE  a \in AreaPages(m, flags)
  <2>1. PICK i \in 1..Len(m.list) : x = At(m, i)
    BY DEF AreasOf
  <2>2. PICK v \in Range(m.list) : v = m.list[i] /\ x = m.area[v]
    BY <1>1, <2>1, RangeIs DEF At
  <2>3. x.vm_start \in Nat /\ x.vm_end \in Nat
    BY <1>1, <2>1
  <2>4. a \in m.area[v].vm_start..(m.area[v].vm_end - 1) /\ m.area[v].vm_flags \in flags
    BY <1>3, <2>2, <2>3 DEF In
  <2> QED BY <2>4 DEF AreaPages
<1> QED BY <1>2, <1>3

\* What an entry says.
LEMMA PteFacts ==
    ASSUME Tables, NEW p \in Procs, NEW a \in UserPages, pgdir[p][a] # NULL
    PROVE  /\ pgdir[p][a] \in Entry /\ pgdir[p][a].frame = <<p, a>> /\ pgdir[p][a].w \in BOOLEAN
           /\ Covered(mm[p], a, pgdir[p][a].w)
<1>1. pgdir[p][a] \in Entry
  BY DEF Tables
<1>2. pgdir[p][a].w \in BOOLEAN
  BY <1>1 DEF Entry
<1> QED BY <1>1, <1>2 DEF Tables

\* alloc_page and page_insert for pages that are not there: each gets a page of its
\* own, with one reference.
LEMMA MapPagesIs ==
    ASSUME Tables, PageCounts, NEW p \in Procs, NEW A \in SUBSET UserPages, NEW W,
           \A a \in A : pgdir[p][a] = NULL, MapPages(p, pgdir[p], A, W)
    PROVE  /\ pgdir' \in [Procs -> [UserPages -> Entry \cup {NULL}]]
           /\ \A q \in Procs \ {p} : pgdir'[q] = pgdir[q]
           /\ \A a \in UserPages :
                pgdir'[p][a] = IF a \in A THEN [frame |-> <<p, a>>, w |-> a \in W] ELSE pgdir[p][a]
           /\ PageCounts'
<1>1. pgdir \in [Procs -> [UserPages -> Entry \cup {NULL}]]
  BY DEF Tables
<1>2. PICK T : T = [a \in UserPages |-> IF a \in A THEN [frame |-> <<p, a>>, w |-> a \in W]
                                        ELSE pgdir[p][a]]
  OBVIOUS
<1>3. pgdir' = [pgdir EXCEPT ![p] = T]
  BY <1>2 DEF MapPages
<1>4. \A a \in A : [frame |-> <<p, a>>, w |-> a \in W] \in Entry
  BY DEF Entry, Frames
<1>5. T \in [UserPages -> Entry \cup {NULL}]
  BY <1>1, <1>2, <1>4
<1>6. pgdir' \in [Procs -> [UserPages -> Entry \cup {NULL}]]
  BY <1>1, <1>3, <1>5
<1>7. pgdir'[p] = T /\ \A q \in Procs \ {p} : pgdir'[q] = pgdir[q]
  BY <1>1, <1>3
<1>8. \A a \in UserPages : pgdir'[p][a] = IF a \in A THEN [frame |-> <<p, a>>, w |-> a \in W] ELSE pgdir[p][a]
  BY <1>2, <1>7
<1>9. PageCounts'
  <2>1. PICK given : given = {p} \X A
    OBVIOUS
  <2>2. /\ page_ref' = [f \in Frames |-> IF f \in given THEN page_ref[f] + 1 ELSE page_ref[f]]
        /\ used' = used \cup given
    BY <2>1 DEF MapPages
  <2>3. NULL \notin Entry
    BY VmmAssumption DEF Entry
  <2>4. ASSUME NEW f \in Frames
        PROVE  (f \in used') <=> (pgdir'[f[1]][f[2]] # NULL)
    <3>1. PICK q \in Procs, a \in UserPages : f = <<q, a>> /\ f[1] = q /\ f[2] = a
      BY DEF Frames
    <3>2. f \in used <=> pgdir[q][a] # NULL
      BY <3>1 DEF PageCounts
    <3>3. f \in given <=> q = p /\ a \in A
      BY <2>1, <3>1
    <3>4. CASE q = p /\ a \in A
      <4>1. pgdir'[q][a] \in Entry
        BY <1>4, <1>8, <3>4
      <4> QED BY <2>2, <2>3, <3>1, <3>3, <3>4, <4>1
    <3>5. CASE ~(q = p /\ a \in A)
      BY <1>7, <1>8, <2>2, <3>1, <3>2, <3>3, <3>5
    <3> QED BY <3>4, <3>5
  <2>5. used' \subseteq Frames
    BY <2>1, <2>2 DEF PageCounts, Frames
  <2>6. used' = {f \in Frames : pgdir'[f[1]][f[2]] # NULL}
    BY <2>4, <2>5
  <2>7. ASSUME NEW f \in Frames PROVE page_ref'[f] = IF f \in used' THEN 1 ELSE 0
    <3>1. page_ref[f] = IF f \in used THEN 1 ELSE 0
      BY DEF PageCounts
    <3>2. f \in given => f \notin used
      <4> SUFFICES ASSUME f \in given PROVE f \notin used
        OBVIOUS
      <4>1. PICK a \in A : f = <<p, a>> /\ f[1] = p /\ f[2] = a
        BY <2>1
      <4> QED BY <4>1 DEF PageCounts
    <3> QED BY <2>2, <3>1, <3>2
  <2>8. page_ref' = [f \in Frames |-> IF f \in used' THEN 1 ELSE 0]
    <3>1. page_ref' = [f \in Frames |-> page_ref'[f]]
      BY <2>2
    <3> QED BY <2>7, <3>1
  <2> QED BY <2>6, <2>8 DEF PageCounts
<1> QED BY <1>6, <1>7, <1>8, <1>9

\* page_remove_pte for the pages A: the counts, when the entries for A have gone.
LEMMA DroppedIs ==
    ASSUME Tables, PageCounts, NEW p \in Procs, NEW A,
           page_ref' = RefAfter(p, A), used' = used \ {f \in Dropped(p, A) : page_ref'[f] = 0},
           \A q \in Procs, a \in UserPages :
              pgdir'[q][a] = IF q = p /\ a \in A THEN NULL ELSE pgdir[q][a]
    PROVE  PageCounts'
<1>1. ASSUME NEW q \in Procs, NEW a \in UserPages
      PROVE  <<q, a>> \in Dropped(p, A) <=> q = p /\ a \in A /\ pgdir[q][a] # NULL
  <2>1. ASSUME <<q, a>> \in Dropped(p, A) PROVE q = p /\ a \in A /\ pgdir[q][a] # NULL
    <3>1. PICK b \in A \cap Mapped(p) : <<q, a>> = pgdir[p][b].frame
      BY <2>1 DEF Dropped
    <3>2. b \in UserPages /\ pgdir[p][b] # NULL /\ pgdir[p][b].frame = <<p, b>>
      BY <3>1, PteFacts DEF Mapped
    <3> QED BY <3>1, <3>2
  <2>2. ASSUME q = p, a \in A, pgdir[q][a] # NULL PROVE <<q, a>> \in Dropped(p, A)
    <3>1. a \in A \cap Mapped(p) /\ pgdir[p][a].frame = <<q, a>>
      BY <2>2, PteFacts DEF Mapped
    <3> QED BY <3>1 DEF Dropped
  <2> QED BY <2>1, <2>2
<1>2. ASSUME NEW f \in Frames
      PROVE  /\ (f \in used') <=> (pgdir'[f[1]][f[2]] # NULL)
             /\ page_ref'[f] = IF f \in used' THEN 1 ELSE 0
  <2>1. PICK q \in Procs, a \in UserPages : f = <<q, a>> /\ f[1] = q /\ f[2] = a
    BY DEF Frames
  <2>2. (f \in used <=> pgdir[q][a] # NULL) /\ page_ref[f] = IF f \in used THEN 1 ELSE 0
    BY <2>1 DEF PageCounts
  <2>3. f \in Dropped(p, A) <=> q = p /\ a \in A /\ pgdir[q][a] # NULL
    BY <1>1, <2>1
  <2>4. page_ref'[f] = IF f \in Dropped(p, A) THEN page_ref[f] - 1 ELSE page_ref[f]
    BY DEF RefAfter
  <2>5. pgdir'[q][a] = IF q = p /\ a \in A THEN NULL ELSE pgdir[q][a]
    OBVIOUS
  <2>6. CASE f \in Dropped(p, A)
    <3>1. f \in used /\ page_ref'[f] = 0 /\ pgdir'[q][a] = NULL
      BY <2>2, <2>3, <2>4, <2>5, <2>6
    <3> QED BY <2>1, <2>6, <3>1
  <2>7. CASE f \notin Dropped(p, A)
    <3>1. (f \in used') <=> (f \in used)
      BY <2>7
    <3>2. pgdir'[q][a] # NULL <=> pgdir[q][a] # NULL
      BY <2>3, <2>5, <2>7
    <3> QED BY <2>1, <2>2, <2>4, <2>7, <3>1, <3>2
  <2> QED BY <2>6, <2>7
<1>3. used' \subseteq Frames
  BY DEF PageCounts
<1>4. used' = {f \in Frames : pgdir'[f[1]][f[2]] # NULL}
  BY <1>2, <1>3
<1>5. page_ref' = [f \in Frames |-> IF f \in used' THEN 1 ELSE 0]
  <2>1. page_ref' = [f \in Frames |-> page_ref'[f]]
    BY DEF RefAfter
  <2> QED BY <1>2, <2>1
<1> QED BY <1>4, <1>5 DEF PageCounts

LEMMA UnmapRange ==
    ASSUME Tables, PageCounts, NEW p \in Procs, NEW A, unmap_range(p, A)
    PROVE  /\ pgdir' \in [Procs -> [UserPages -> Entry \cup {NULL}]]
           /\ \A q \in Procs \ {p} : pgdir'[q] = pgdir[q]
           /\ \A a \in UserPages : pgdir'[p][a] = IF a \in A THEN NULL ELSE pgdir[p][a]
           /\ PageCounts'
<1>1. pgdir \in [Procs -> [UserPages -> Entry \cup {NULL}]]
  BY DEF Tables
<1>2. PICK T : T = [a \in UserPages |-> IF a \in A THEN NULL ELSE pgdir[p][a]]
  OBVIOUS
<1>3. pgdir' = [pgdir EXCEPT ![p] = T]
  BY <1>1, <1>2 DEF unmap_range
<1>4. T \in [UserPages -> Entry \cup {NULL}]
  BY <1>1, <1>2
<1>5. pgdir' \in [Procs -> [UserPages -> Entry \cup {NULL}]]
  BY <1>1, <1>3, <1>4
<1>6. pgdir'[p] = T /\ \A q \in Procs \ {p} : pgdir'[q] = pgdir[q]
  BY <1>1, <1>3
<1>7. \A a \in UserPages : pgdir'[p][a] = IF a \in A THEN NULL ELSE pgdir[p][a]
  BY <1>2, <1>6
<1>8. \A q \in Procs, a \in UserPages :
         pgdir'[q][a] = IF q = p /\ a \in A THEN NULL ELSE pgdir[q][a]
  BY <1>6, <1>7
<1>9. page_ref' = RefAfter(p, A) /\ used' = used \ {f \in Dropped(p, A) : page_ref'[f] = 0}
  BY DEF unmap_range
<1>10. PageCounts'
  BY <1>8, <1>9, DroppedIs
<1> QED BY <1>5, <1>6, <1>7, <1>10

\* exit_mmap frees every page, for none is mapped outside the areas.
LEMMA FreeMmIs ==
    ASSUME Tables, PageCounts, NEW p \in Procs, Sorted(mm[p]), FreeMm(p)
    PROVE  /\ pgdir' \in [Procs -> [UserPages -> Entry \cup {NULL}]]
           /\ \A q \in Procs \ {p} : pgdir'[q] = pgdir[q]
           /\ pgdir'[p] = Unused /\ mm' = [mm EXCEPT ![p] = mm_create]
           /\ PageCounts'
<1>1. pgdir \in [Procs -> [UserPages -> Entry \cup {NULL}]]
  BY DEF Tables
<1>2. PICK A : A = AreaPages(mm[p], {"rx", "rw", "stack"})
  OBVIOUS
<1>3. /\ page_ref' = RefAfter(p, A) /\ used' = used \ {f \in Dropped(p, A) : page_ref'[f] = 0}
      /\ pgdir' = [pgdir EXCEPT ![p] = Unused] /\ mm' = [mm EXCEPT ![p] = mm_create]
  BY <1>2 DEF FreeMm
<1>4. Unused \in [UserPages -> Entry \cup {NULL}] /\ \A a \in UserPages : Unused[a] = NULL
  BY DEF Unused
<1>5. pgdir' \in [Procs -> [UserPages -> Entry \cup {NULL}]]
  BY <1>1, <1>3, <1>4
<1>6. pgdir'[p] = Unused /\ \A q \in Procs \ {p} : pgdir'[q] = pgdir[q]
  BY <1>1, <1>3
<1>7. ASSUME NEW a \in UserPages, a \notin A PROVE pgdir[p][a] = NULL
  <2> SUFFICES ASSUME pgdir[p][a] # NULL PROVE FALSE
    OBVIOUS
  <2>1. PICK x \in AreasOf(mm[p]) : x.vm_start <= a /\ a < x.vm_end
    BY PteFacts DEF Covered
  <2>2. x.vm_flags \in {"rx", "rw", "stack"}
    BY AreasFacts DEF Valid
  <2>3. In(x, a) /\ a \in Int
    BY <2>1, VmAreaAssumption DEF In, UserPages
  <2> QED BY <1>2, <1>7, <2>2, <2>3, AreaPagesIs
<1>8. \A q \in Procs, a \in UserPages :
         pgdir'[q][a] = IF q = p /\ a \in A THEN NULL ELSE pgdir[q][a]
  BY <1>4, <1>6, <1>7
<1>9. PageCounts'
  BY <1>3, <1>8, DroppedIs
<1> QED BY <1>3, <1>5, <1>6, <1>9

-----------------------------------------------------------------------------
(* One process moves, the others keep what they have.                       *)

Types ==
    /\ stage \in [Procs -> {"none", "load", "user"}]
    /\ todo \in [Procs -> Seq(Segment)] /\ mm \in [Procs -> MmType]

\* What the stage of p asks of its address space m, tables t and segments segs.
Fits(st, m, t, segs) ==
    /\ Sorted(m)
    /\ st = "none" => m = mm_create /\ t = Unused
    /\ st = "load" => Loading(m, segs)
    /\ st = "user" => InUser(m)

\* The entries t of p are its own, and in areas of m.
Owned(p, m, t) ==
    \A a \in UserPages : t[a] # NULL => t[a].frame = <<p, a>> /\ Covered(m, a, t[a].w)

LEMMA InvIs ==
    Stages /\ Tables <=>
      /\ Types /\ pgdir \in [Procs -> [UserPages -> Entry \cup {NULL}]]
      /\ \A p \in Procs : Fits(stage[p], mm[p], pgdir[p], todo[p]) /\ Owned(p, mm[p], pgdir[p])
BY DEF Stages, Tables, Types, Fits, Owned

LEMMA OneMoves ==
    ASSUME VmInv, NEW p \in Procs, Types', pgdir' \in [Procs -> [UserPages -> Entry \cup {NULL}]],
           \A q \in Procs \ {p} :
              stage'[q] = stage[q] /\ todo'[q] = todo[q] /\ mm'[q] = mm[q] /\ pgdir'[q] = pgdir[q],
           Fits(stage'[p], mm'[p], pgdir'[p], todo'[p]), Owned(p, mm'[p], pgdir'[p]),
           PageCounts', panic' \in {"none", "halted"}
    PROVE  VmInv'
<1>1. \A q \in Procs : Fits(stage[q], mm[q], pgdir[q], todo[q]) /\ Owned(q, mm[q], pgdir[q])
  BY InvIs DEF VmInv
<1>2. \A q \in Procs : Fits(stage'[q], mm'[q], pgdir'[q], todo'[q]) /\ Owned(q, mm'[q], pgdir'[q])
  BY <1>1
<1>3. Stages'
  BY <1>2 DEF Stages, Types, Fits
<1>4. Tables'
  BY <1>2 DEF Tables, Owned
<1> QED BY <1>3, <1>4 DEF VmInv

LEMMA InUserAlike ==
    ASSUME NEW m, NEW n, Alike(m, n), InUser(m) PROVE InUser(n)
<1>1. AreasOf(n) = AreasOf(m) /\ n.list = m.list /\ n.brk_start = m.brk_start /\ n.brk = m.brk
  BY AlikeAreas DEF Alike
<1> QED BY <1>1 DEF InUser, HeapArea

\* Nothing changes but the cache of p: a fault, a read of user memory.
LEMMA CacheMoves ==
    ASSUME VmInv, NEW p \in Procs, stage[p] = "user", NEW a \in UserPages,
           mm' = [mm EXCEPT ![p] = Cached(mm[p], a)], UNCHANGED <<stage, todo, memVars, panic>>
    PROVE  VmInv'
<1>0. a \in Int
  BY VmAreaAssumption DEF UserPages
<1>1. Types /\ Sorted(mm[p]) /\ InUser(mm[p]) /\ Owned(p, mm[p], pgdir[p])
  BY InvIs DEF VmInv, Fits
<1>2. PICK n : n = Cached(mm[p], a)
  OBVIOUS
<1>3. Sorted(n) /\ Alike(mm[p], n) /\ AreasOf(n) = AreasOf(mm[p]) /\ n \in MmType
  BY <1>0, <1>1, <1>2, CachedIs DEF Sorted
<1>4. Types' /\ mm'[p] = n /\ \A q \in Procs \ {p} : mm'[q] = mm[q]
  BY <1>1, <1>2, <1>3 DEF Types
<1>5. Fits("user", n, pgdir[p], todo[p])
  BY <1>1, <1>3, InUserAlike DEF Fits
<1>6. Owned(p, n, pgdir[p])
  BY <1>1, <1>3 DEF Owned, Covered
<1>7. /\ stage' = stage /\ todo' = todo /\ pgdir' = pgdir /\ page_ref' = page_ref /\ used' = used
      /\ panic' = panic
  BY DEF memVars
<1>8. PageCounts' /\ panic' \in {"none", "halted"} /\ pgdir' \in [Procs -> [UserPages -> Entry \cup {NULL}]]
  BY <1>7 DEF PageCounts, VmInv, Tables
<1> QED BY <1>4, <1>5, <1>6, <1>7, <1>8, OneMoves

\* The kernel halts.
LEMMA Halts ==
    ASSUME VmInv, panic' = "halted", UNCHANGED <<stage, todo, mm, memVars>> PROVE VmInv'
<1>1. /\ stage' = stage /\ todo' = todo /\ mm' = mm /\ pgdir' = pgdir /\ page_ref' = page_ref
      /\ used' = used
  BY DEF memVars
<1> QED BY <1>1 DEF VmInv, Stages, Tables, PageCounts

\* exit_mmap: p has nothing left.
LEMMA Frees ==
    ASSUME VmInv, NEW p \in Procs, FreeMm(p), NEW st \in {"none", "load"}, NEW segs \in Seq(Segment),
           stage' = [stage EXCEPT ![p] = st], todo' = [todo EXCEPT ![p] = segs], UNCHANGED panic,
           st = "load" => Loading(mm_create, segs)
    PROVE  VmInv'
<1>1. Types /\ Sorted(mm[p]) /\ Tables /\ PageCounts /\ panic \in {"none", "halted"}
  BY InvIs DEF VmInv, Fits
<1>2. /\ pgdir' \in [Procs -> [UserPages -> Entry \cup {NULL}]]
      /\ \A q \in Procs \ {p} : pgdir'[q] = pgdir[q]
      /\ pgdir'[p] = Unused /\ mm' = [mm EXCEPT ![p] = mm_create]
      /\ PageCounts'
  BY <1>1, FreeMmIs
<1>3. Sorted(mm_create) /\ mm_create \in MmType
  BY CreateSorted DEF Sorted
<1>4. /\ Types' /\ stage'[p] = st /\ todo'[p] = segs /\ mm'[p] = mm_create
      /\ \A q \in Procs \ {p} : stage'[q] = stage[q] /\ todo'[q] = todo[q] /\ mm'[q] = mm[q]
  BY <1>1, <1>2, <1>3 DEF Types
<1>5. Fits(st, mm_create, Unused, segs)
  BY <1>3 DEF Fits
<1>6. Owned(p, mm_create, Unused)
  BY DEF Owned, Unused
<1> QED BY <1>1, <1>2, <1>4, <1>5, <1>6, OneMoves

LEMMA LoadingNothing == ASSUME NEW prog \in Programs, BelowStack PROVE Loading(mm_create, prog)
<1>1. AreasOf(mm_create) = {} /\ Len(mm_create.list) = 0
  BY CreateSorted
<1>2. Rising(prog)
  BY DEF BelowStack
<1>3. Len(prog) \in Nat /\ Len(prog) + 2 <= Names
  BY VmmAssumption DEF Names
<1>4. Len(mm_create.list) + Len(prog) + 2 <= Names
  BY <1>1, <1>3, VmAreaAssumption, FS_CardinalityType DEF Names
<1> QED BY <1>1, <1>2, <1>4 DEF Loading

-----------------------------------------------------------------------------
(* load_icode.                                                              *)

\* Pages A of p are mapped, and n covers them and what p had.
LEMMA Maps ==
    ASSUME VmInv, NEW p \in Procs, NEW n, Sorted(n), NEW A \in SUBSET UserPages, NEW W,
           \A a \in A : pgdir[p][a] = NULL, MapPages(p, pgdir[p], A, W),
           mm' = [mm EXCEPT ![p] = n], Covers(mm[p], n, {}), \A a \in A : Covered(n, a, a \in W),
           NEW st \in {"load", "user"}, NEW segs \in Seq(Segment),
           stage' = [stage EXCEPT ![p] = st], todo' = [todo EXCEPT ![p] = segs],
           panic' = panic,
           st = "load" => Loading(n, segs), st = "user" => InUser(n)
    PROVE  VmInv'
<1>1. Types /\ Tables /\ PageCounts /\ panic \in {"none", "halted"}
  BY InvIs DEF VmInv
<1>2. /\ pgdir' \in [Procs -> [UserPages -> Entry \cup {NULL}]]
      /\ \A q \in Procs \ {p} : pgdir'[q] = pgdir[q]
      /\ \A a \in UserPages :
           pgdir'[p][a] = IF a \in A THEN [frame |-> <<p, a>>, w |-> a \in W] ELSE pgdir[p][a]
      /\ PageCounts'
  BY <1>1, MapPagesIs
<1>3. n \in MmType
  BY DEF Sorted
<1>4. /\ Types' /\ stage'[p] = st /\ todo'[p] = segs /\ mm'[p] = n
      /\ \A q \in Procs \ {p} : stage'[q] = stage[q] /\ todo'[q] = todo[q] /\ mm'[q] = mm[q]
  BY <1>1, <1>3 DEF Types
<1>5. Fits(st, n, pgdir'[p], segs)
  BY DEF Fits
<1>6. Owned(p, n, pgdir'[p])
  <2> SUFFICES ASSUME NEW a \in UserPages, pgdir'[p][a] # NULL
               PROVE  pgdir'[p][a].frame = <<p, a>> /\ Covered(n, a, pgdir'[p][a].w)
    BY DEF Owned
  <2>1. CASE a \in A
    <3>1. pgdir'[p][a] = [frame |-> <<p, a>>, w |-> a \in W]
      BY <1>2, <2>1
    <3>2. pgdir'[p][a].frame = <<p, a>> /\ pgdir'[p][a].w = (a \in W)
      BY <3>1
    <3> QED BY <2>1, <3>2
  <2>2. CASE a \notin A
    <3>1. pgdir'[p][a] = pgdir[p][a]
      BY <1>2, <2>2
    <3>2. /\ pgdir[p][a].frame = <<p, a>> /\ pgdir[p][a].w \in BOOLEAN
          /\ Covered(mm[p], a, pgdir[p][a].w)
      BY <1>1, <3>1, PteFacts
    <3>3. a \in Int \ {}
      BY VmAreaAssumption DEF UserPages
    <3> QED BY <3>1, <3>2, <3>3 DEF Covers
  <2> QED BY <2>1, <2>2
<1> QED BY <1>1, <1>2, <1>4, <1>5, <1>6, OneMoves

LEMMA MaxTwo == ASSUME NEW i \in Nat, NEW j \in Nat PROVE Max({i, j}) \in Nat /\ i <= Max({i, j}) /\ j <= Max({i, j})
<1>1. \E x \in {i, j} : \A y \in {i, j} : x >= y
  OBVIOUS
<1> QED BY <1>1 DEF Max

\* n is m with another start of the heap.
Raised(m, n, s) == n = [m EXCEPT !.brk_start = s]

\* A segment above all areas.
LEMMA SegmentIs ==
    ASSUME NEW m, Sorted(m), NEW segs \in Seq(Segment), Loading(m, segs), segs # <<>>,
           NEW x, x = Head(segs), MapOk(m, x.vm_start, x.vm_end),
           NEW k, k = mm_map(m, x.vm_start, x.vm_end, x.vm_flags),
           NEW n, NEW t, t = Max({k.brk_start, x.vm_end}), Raised(k, n, t)
    PROVE  /\ k.ok /\ Sorted(n) /\ Loading(n, Tail(segs)) /\ Tail(segs) \in Seq(Segment)
           /\ AreasOf(n) = AreasOf(m) \cup {Area(x.vm_start, x.vm_end, x.vm_flags)}
           /\ \A y \in AreasOf(m) : y.vm_end <= x.vm_start
<1>1. /\ Len(segs) \in Nat /\ Len(segs) >= 1 /\ 1 \in 1..Len(segs) /\ x = segs[1] /\ x \in Segment
      /\ Tail(segs) \in Seq(Segment) /\ Len(Tail(segs)) = Len(segs) - 1
      /\ \A j \in 1..(Len(segs) - 1) : Tail(segs)[j] = segs[j + 1] /\ j + 1 \in 1..Len(segs) /\ 1 < j + 1
  OBVIOUS
<1>2. x.vm_start \in Nat /\ x.vm_end \in Nat /\ x.vm_flags \in {"rx", "rw"}
  BY <1>1 DEF Segment
<1>3. /\ Rising(segs) /\ Len(m.list) + Len(segs) + 2 <= Names
      /\ \A y \in AreasOf(m) :
          /\ Heap(y) /\ y.vm_end <= m.brk_start /\ Below(y.vm_end)
          /\ \A j \in 1..Len(segs) : y.vm_start <= segs[j].vm_start
  BY DEF Loading
<1>4. Names \in Nat /\ Len(m.list) \in Nat /\ m.brk_start \in Nat /\ m.brk \in Nat
  BY VmAreaAssumption, FS_CardinalityType, SortedFacts DEF Names
<1>5. PICK z : z = Area(x.vm_start, x.vm_end, x.vm_flags)
  OBVIOUS
<1>6. z.vm_start = x.vm_start /\ z.vm_end = x.vm_end /\ z.vm_flags = x.vm_flags
  BY <1>5 DEF Area
<1>7. /\ Sorted(k) /\ AreasOf(k) = AreasOf(m) \cup {z}
      /\ Len(k.list) = Len(m.list) + 1 /\ k.brk_start = m.brk_start /\ k.brk = m.brk
      /\ \A y \in AreasOf(m) : y.vm_end <= x.vm_start
  <2>1. Len(m.list) < Names
    BY <1>1, <1>3, <1>4
  <2>2. \A y \in AreasOf(m) : y.vm_start <= x.vm_start
    BY <1>1, <1>3
  <2>3. PICK s \in Int, e \in Int, flags \in {"rx", "rw", "stack"} :
          s = x.vm_start /\ e = x.vm_end /\ flags = x.vm_flags
    BY <1>2
  <2> QED BY <1>5, <2>1, <2>2, <2>3, MapIs
<1>8. t \in Nat /\ m.brk_start <= t /\ x.vm_end <= t
  BY <1>2, <1>4, <1>7, MaxTwo
<1>10. /\ Sorted(n) /\ AreasOf(n) = AreasOf(m) \cup {z} /\ Len(n.list) = Len(m.list) + 1
       /\ n.brk_start = t
  <2>1. PICK b \in Nat : b = m.brk
    BY <1>4
  <2>2. Sorted(n) /\ AreasOf(n) = AreasOf(k) /\ n.list = k.list /\ n.brk_start = t
    <3>1. k \in MmType
      BY <1>7 DEF Sorted
    <3>2. Moved(k, n, t, b)
      BY <1>7, <2>1, <3>1 DEF Moved, Raised, MmType
    <3> QED BY <1>7, <1>8, <3>2, MovedIs
  <2> QED BY <1>7, <2>2
<1>11. Loading(n, Tail(segs))
  <2>1. Rising(Tail(segs))
    BY <1>1, <1>3 DEF Rising
  <2>2. Len(n.list) + Len(Tail(segs)) + 2 <= Names
    BY <1>1, <1>3, <1>4, <1>10
  <2>3. ASSUME NEW y \in AreasOf(m)
        PROVE  /\ Heap(y) /\ y.vm_end <= n.brk_start /\ Below(y.vm_end)
               /\ \A j \in 1..Len(Tail(segs)) : y.vm_start <= Tail(segs)[j].vm_start
    <3>1. y.vm_end \in Nat
      BY AreasFacts
    <3>2. y.vm_end <= n.brk_start
      BY <1>3, <1>4, <1>8, <1>10, <3>1
    <3> QED BY <1>1, <1>3, <3>2
  <2>4. /\ Heap(z) /\ z.vm_end <= n.brk_start /\ Below(z.vm_end)
        /\ \A j \in 1..Len(Tail(segs)) : z.vm_start <= Tail(segs)[j].vm_start
    <3>1. Below(x.vm_end) /\ \A j \in 1..(Len(segs) - 1) : x.vm_start <= segs[j + 1].vm_start
      BY <1>1, <1>3 DEF Rising
    <3> QED BY <1>1, <1>2, <1>6, <1>8, <1>10, <3>1 DEF Heap
  <2> QED BY <1>10, <2>1, <2>2, <2>3, <2>4 DEF Loading
<1>12. k.ok
  BY <1>7, SortedFacts
<1> QED BY <1>1, <1>5, <1>7, <1>10, <1>11, <1>12

\* The stack above them.
LEMMA StackIs ==
    ASSUME NEW m, Sorted(m), NEW segs, Len(segs) = 0, Loading(m, segs), NEW top \in StackTops,
           NEW rnd \in BrkRandom, NEW s, s = top - USTACKPAGE, MapOk(m, s, top),
           NEW k, k = mm_map(m, s, top, "stack"),
           NEW n, NEW t, t = k.brk_start + rnd, Moved(k, n, t, t)
    PROVE  /\ k.ok /\ Sorted(n) /\ InUser(n) /\ s \in Nat /\ top \in Nat
           /\ AreasOf(n) = AreasOf(m) \cup {Area(s, top, "stack")}
           /\ \A y \in AreasOf(m) : y.vm_end <= s
<1>1. top \in Int /\ rnd \in Nat /\ USTACKPAGE \in Nat /\ s \in Int
  BY VmAreaAssumption, VmmAssumption DEF StackTops
<1>2. /\ Len(m.list) + Len(segs) + 2 <= Names
      /\ \A y \in AreasOf(m) : Heap(y) /\ y.vm_end <= m.brk_start /\ Below(y.vm_end)
  BY DEF Loading
<1>3. Names \in Nat /\ Len(m.list) \in Nat /\ m.brk_start \in Nat
  BY VmAreaAssumption, FS_CardinalityType, SortedFacts DEF Names
<1>4. PICK z : z = Area(s, top, "stack")
  OBVIOUS
<1>5. USER_ACCESS(s, top)
  BY DEF MapOk
<1>6. z.vm_start = s /\ z.vm_flags = "stack" /\ s \in Nat /\ top \in Nat
  BY <1>1, <1>4, <1>5, AreaIs
<1>7. \A y \in AreasOf(m) : y.vm_start <= s
  <2> SUFFICES ASSUME NEW y \in AreasOf(m) PROVE y.vm_start <= s
    OBVIOUS
  <2>1. y.vm_start \in Nat /\ y.vm_end \in Nat /\ y.vm_start < y.vm_end
    BY AreasFacts
  <2>2. y.vm_end <= top - USTACKPAGE
    BY <1>2 DEF Below
  <2> QED BY <1>1, <2>1, <2>2
<1>8. /\ Sorted(k) /\ AreasOf(k) = AreasOf(m) \cup {z}
      /\ Len(k.list) = Len(m.list) + 1 /\ k.brk_start = m.brk_start /\ k.brk = m.brk
      /\ \A y \in AreasOf(m) : y.vm_end <= s
  <2>1. Len(m.list) < Names
    BY <1>2, <1>3
  <2>2. PICK flags \in {"rx", "rw", "stack"} : flags = "stack"
    OBVIOUS
  <2> QED BY <1>1, <1>4, <1>7, <2>1, <2>2, MapIs
<1>9. t \in Nat /\ m.brk_start <= t
  BY <1>1, <1>3, <1>8
<1>11. /\ Sorted(n) /\ AreasOf(n) = AreasOf(m) \cup {z} /\ Len(n.list) = Len(m.list) + 1
       /\ n.brk_start = t /\ n.brk = t
  BY <1>8, <1>9, MovedIs
<1>12. InUser(n)
  <2>1. Len(n.list) <= Names /\ Len(n.list) # Names
    BY <1>2, <1>3, <1>11
  <2>2. ~Heap(z) /\ \E h \in StackTops : z.vm_start = h - USTACKPAGE
    BY <1>6 DEF Heap
  <2>3. ASSUME NEW y \in AreasOf(m) PROVE Heap(y) /\ y.vm_end <= n.brk_start
    <3>1. y.vm_end \in Nat
      BY AreasFacts
    <3> QED BY <1>2, <1>3, <1>9, <1>11, <3>1
  <2> QED BY <1>9, <1>11, <2>1, <2>2, <2>3 DEF InUser
<1>13. k.ok
  BY <1>8, SortedFacts
<1> QED BY <1>4, <1>6, <1>8, <1>11, <1>12, <1>13

-----------------------------------------------------------------------------
(* The steps.                                                               *)

\* What the invariant says of one process.
LEMMA ProcFacts ==
    ASSUME VmInv, NEW p \in Procs
    PROVE  /\ Types /\ Tables /\ PageCounts /\ Sorted(mm[p]) /\ todo[p] \in Seq(Segment)
           /\ stage[p] = "none" => mm[p] = mm_create /\ pgdir[p] = Unused
           /\ stage[p] = "load" => Loading(mm[p], todo[p])
           /\ stage[p] = "user" => InUser(mm[p])
           /\ stage = [stage EXCEPT ![p] = stage[p]] /\ todo = [todo EXCEPT ![p] = todo[p]]
BY DEF VmInv, Stages, Types

\* Pages outside every area are not mapped.
LEMMA NotMapped ==
    ASSUME VmInv, NEW p \in Procs, NEW a \in UserPages, \A y \in AreasOf(mm[p]) : ~In(y, a)
    PROVE  pgdir[p][a] = NULL
<1> SUFFICES ASSUME pgdir[p][a] # NULL PROVE FALSE
  OBVIOUS
<1>1. Covered(mm[p], a, pgdir[p][a].w)
  BY ProcFacts, PteFacts
<1> QED BY <1>1 DEF Covered, In

LEMMA ExecStep ==
    ASSUME VmInv, BelowStack, NEW p \in Procs, NEW prog \in Programs, Exec(p, prog) PROVE VmInv'
<1>1. Loading(mm_create, prog) /\ prog \in Seq(Segment)
  BY LoadingNothing, VmmAssumption DEF Segment
<1>2. FreeMm(p) /\ stage' = [stage EXCEPT ![p] = "load"] /\ todo' = [todo EXCEPT ![p] = prog] /\ UNCHANGED panic
  BY DEF Exec
<1> QED BY <1>1, <1>2, Frees

LEMMA EmptySegs == <<>> \in Seq(Segment)
OBVIOUS

LEMMA LoadFailsStep == ASSUME VmInv, NEW p \in Procs, LoadFails(p) PROVE VmInv'
<1>1. PICK none \in Seq(Segment) : none = <<>>
  BY EmptySegs, Zenon
<1>2. FreeMm(p) /\ stage' = [stage EXCEPT ![p] = "none"] /\ todo' = [todo EXCEPT ![p] = none] /\ UNCHANGED panic
  BY <1>1, Zenon DEF LoadFails
<1> QED BY <1>2, Frees

LEMMA ExitStep == ASSUME VmInv, NEW p \in Procs, Exit(p) PROVE VmInv'
<1>1. todo[p] \in Seq(Segment) /\ todo = [todo EXCEPT ![p] = todo[p]]
  BY ProcFacts
<1>2. /\ FreeMm(p) /\ stage' = [stage EXCEPT ![p] = "none"] /\ todo' = [todo EXCEPT ![p] = todo[p]]
      /\ UNCHANGED panic
  BY <1>1 DEF Exit
<1> QED BY <1>1, <1>2, Frees

LEMMA LoadStep == ASSUME VmInv, NEW p \in Procs, Load(p) PROVE VmInv'
<1>0. PICK segs \in Seq(Segment) : segs = todo[p]
  BY ProcFacts
<1>1. PICK m, x : m = mm[p] /\ segs = todo[p] /\ x = Head(segs) /\ segs # <<>> /\ stage[p] = "load"
  BY <1>0 DEF Load
<1>2. Sorted(m) /\ Loading(m, segs) /\ stage = [stage EXCEPT ![p] = stage[p]]
  BY <1>1, ProcFacts
<1>3. PICK A, k :
        A = x.vm_start..(x.vm_end - 1) /\ k = mm_map(m, x.vm_start, x.vm_end, x.vm_flags)
  OBVIOUS
<1>4. MapOk(m, x.vm_start, x.vm_end)
  BY <1>1 DEF Load
<1>5. CASE OutOfMemory(A)
  BY <1>5, Halts DEF OutOfMemory
<1>6. CASE /\ MapPages(p, pgdir[p], A, IF Writable(x.vm_flags) THEN A ELSE {})
           /\ mm' = [mm EXCEPT ![p] = [k EXCEPT !.brk_start = Max({k.brk_start, x.vm_end})]]
           /\ todo' = [todo EXCEPT ![p] = Tail(todo[p])]
           /\ Assert_(k.ok)
           /\ UNCHANGED stage
  <2>0. PICK t : t = Max({k.brk_start, x.vm_end})
    OBVIOUS
  <2>1. PICK n : n = [k EXCEPT !.brk_start = t]
    OBVIOUS
  <2>13. Raised(k, n, t)
    BY <2>1, Zenon DEF Raised
  <2>2. PICK z : z = Area(x.vm_start, x.vm_end, x.vm_flags)
    OBVIOUS
  <2>3. /\ k.ok /\ Sorted(n) /\ Loading(n, Tail(segs)) /\ Tail(segs) \in Seq(Segment)
        /\ AreasOf(n) = AreasOf(m) \cup {z}
        /\ \A y \in AreasOf(m) : y.vm_end <= x.vm_start
    BY <1>1, <1>2, <1>3, <1>4, <2>0, <2>2, <2>13, SegmentIs
  <2>4. x.vm_start \in Nat /\ x.vm_end \in Nat /\ x \in Segment
    <3>1. x \in Segment
      BY <1>1
    <3> QED BY <3>1 DEF Segment
  <2>5. USERBASE <= x.vm_start /\ x.vm_end <= USERTOP /\ USERBASE \in Nat /\ USERTOP \in Nat
    BY <1>4, VmAreaAssumption DEF MapOk, USER_ACCESS
  <2>6. A \in SUBSET UserPages /\ \A a \in A : a \in Int /\ x.vm_start <= a /\ a < x.vm_end
    BY <1>3, <2>4, <2>5 DEF UserPages
  <2>7. \A a \in A : pgdir[p][a] = NULL
    <3> SUFFICES ASSUME NEW a \in A, NEW y \in AreasOf(mm[p]) PROVE ~In(y, a)
      BY <2>6, NotMapped
    <3>1. y.vm_end <= x.vm_start /\ y.vm_end \in Nat
      BY <1>1, <1>2, <2>3, AreasFacts
    <3> QED BY <2>4, <2>6, <3>1 DEF In
  <2>8. PICK W : W = IF Writable(x.vm_flags) THEN A ELSE {}
    OBVIOUS
  <2>9. \A a \in A : Covered(n, a, a \in W)
    <3> SUFFICES ASSUME NEW a \in A PROVE Covered(n, a, a \in W)
      OBVIOUS
    <3>1. z.vm_start = x.vm_start /\ z.vm_end = x.vm_end /\ z.vm_flags = x.vm_flags
      BY <2>2 DEF Area
    <3>2. (a \in W) = Writable(x.vm_flags)
      BY <2>8 DEF Writable
    <3> QED BY <2>3, <2>6, <3>1, <3>2 DEF Covered
  <2>10. Covers(mm[p], n, {})
    BY <1>1, <2>3 DEF Covers, Covered
  <2>11. panic' = panic
    BY <1>6, <2>3 DEF Assert_
  <2>12. /\ mm' = [mm EXCEPT ![p] = n] /\ MapPages(p, pgdir[p], A, W)
         /\ todo' = [todo EXCEPT ![p] = Tail(segs)] /\ stage' = [stage EXCEPT ![p] = "load"]
    BY <1>1, <1>2, <1>6, <2>0, <2>1, <2>8
  <2> QED BY <2>3, <2>6, <2>7, <2>9, <2>10, <2>11, <2>12, Maps
<1>7. \/ OutOfMemory(A)
      \/ /\ MapPages(p, pgdir[p], A, IF Writable(x.vm_flags) THEN A ELSE {})
         /\ mm' = [mm EXCEPT ![p] = [k EXCEPT !.brk_start = Max({k.brk_start, x.vm_end})]]
         /\ todo' = [todo EXCEPT ![p] = Tail(todo[p])]
         /\ Assert_(k.ok)
         /\ UNCHANGED stage
  BY <1>1, <1>3, ProcFacts DEF Load, Types
<1> QED BY <1>5, <1>6, <1>7

LEMMA LoadStackStep ==
    ASSUME VmInv, NEW p \in Procs, NEW rnd \in BrkRandom, NEW top \in StackTops, LoadStack(p, rnd, top)
    PROVE  VmInv'
<1>1. PICK m, s, A, k : /\ m = mm[p] /\ s = top - USTACKPAGE /\ A = (top - StackMapped)..(top - 1)
                        /\ k = mm_map(m, s, top, "stack")
  OBVIOUS
<1>2. /\ stage[p] = "load" /\ todo[p] = <<>> /\ MapOk(m, s, top)
  BY <1>1 DEF LoadStack
<1>3. /\ Sorted(m) /\ Loading(m, todo[p]) /\ todo = [todo EXCEPT ![p] = todo[p]] /\ todo[p] \in Seq(Segment)
  BY <1>1, <1>2, ProcFacts
<1>4. CASE OutOfMemory(A)
  BY <1>4, Halts DEF OutOfMemory
<1>5. CASE /\ MapPages(p, pgdir[p], A, A)
           /\ mm' = [mm EXCEPT ![p] = [k EXCEPT !.brk_start = k.brk_start + rnd, !.brk = k.brk_start + rnd]]
           /\ stage' = [stage EXCEPT ![p] = "user"]
           /\ Assert_(k.ok)
           /\ UNCHANGED todo
  <2>0. PICK t : t = k.brk_start + rnd
    OBVIOUS
  <2>1. PICK n : n = [k EXCEPT !.brk_start = t, !.brk = t]
    OBVIOUS
  <2>2. PICK z : z = Area(s, top, "stack")
    OBVIOUS
  <2>3. /\ k.ok /\ Sorted(n) /\ InUser(n) /\ s \in Nat /\ top \in Nat
        /\ AreasOf(n) = AreasOf(m) \cup {z}
        /\ \A y \in AreasOf(m) : y.vm_end <= s
    <3>1. Len(todo[p]) = 0
      BY <1>2
    <3>2. Moved(k, n, t, t)
      BY <2>1 DEF Moved
    <3> QED BY <1>1, <1>2, <1>3, <2>0, <2>2, <3>1, <3>2, StackIs
  <2>4. USERBASE <= s /\ top <= USERTOP /\ USERBASE \in Nat /\ USERTOP \in Nat
    BY <1>2, VmAreaAssumption DEF MapOk, USER_ACCESS
  <2>5. StackMapped \in Nat /\ StackMapped <= USTACKPAGE /\ USTACKPAGE \in Nat
    BY VmmAssumption
  <2>6. A \in SUBSET UserPages /\ \A a \in A : a \in Int /\ s <= a /\ a < top
    BY <1>1, <2>3, <2>4, <2>5 DEF UserPages
  <2>7. \A a \in A : pgdir[p][a] = NULL
    <3> SUFFICES ASSUME NEW a \in A, NEW y \in AreasOf(mm[p]) PROVE ~In(y, a)
      BY <2>6, NotMapped
    <3>1. y.vm_end <= s /\ y.vm_end \in Nat
      BY <1>1, <1>3, <2>3, AreasFacts
    <3> QED BY <2>3, <2>6, <3>1 DEF In
  <2>8. \A a \in A : Covered(n, a, a \in A)
    <3> SUFFICES ASSUME NEW a \in A PROVE Covered(n, a, a \in A)
      OBVIOUS
    <3>1. z.vm_start = s /\ z.vm_end = top /\ z.vm_flags = "stack"
      BY <2>2 DEF Area
    <3>2. (a \in A) = Writable(z.vm_flags)
      BY <3>1 DEF Writable
    <3> QED BY <2>3, <2>6, <3>1, <3>2 DEF Covered
  <2>9. Covers(mm[p], n, {})
    BY <1>1, <2>3 DEF Covers, Covered
  <2>10. panic' = panic
    BY <1>5, <2>3 DEF Assert_
  <2>11. /\ mm' = [mm EXCEPT ![p] = n] /\ MapPages(p, pgdir[p], A, A)
         /\ todo' = [todo EXCEPT ![p] = todo[p]] /\ stage' = [stage EXCEPT ![p] = "user"]
    BY <1>3, <1>5, <2>0, <2>1
  <2> QED BY <1>3, <2>3, <2>6, <2>7, <2>8, <2>9, <2>10, <2>11, Maps
<1>6. \/ OutOfMemory(A)
      \/ /\ MapPages(p, pgdir[p], A, A)
         /\ mm' = [mm EXCEPT ![p] = [k EXCEPT !.brk_start = k.brk_start + rnd, !.brk = k.brk_start + rnd]]
         /\ stage' = [stage EXCEPT ![p] = "user"]
         /\ Assert_(k.ok)
         /\ UNCHANGED todo
  BY <1>1 DEF LoadStack
<1> QED BY <1>4, <1>5, <1>6

LEMMA ForkStep == ASSUME VmInv, NEW p \in Procs, NEW c \in Procs, Fork(p, c) PROVE VmInv'
<1>1. PICK m, n, A :
        m = mm[p] /\ n = DupAreas(m) /\ A = Mapped(p) \cap AreaPages(m, {"rx", "rw", "stack"})
  OBVIOUS
<1>2. stage[p] = "user" /\ stage[c] = "none"
  BY DEF Fork
<1>3. Sorted(m) /\ InUser(m) /\ Tables
  BY <1>1, <1>2, ProcFacts
<1>4. /\ mm[c] = mm_create /\ pgdir[c] = Unused /\ todo = [todo EXCEPT ![c] = todo[c]]
      /\ todo[c] \in Seq(Segment)
  BY <1>2, ProcFacts
<1>5. CASE OutOfMemory(A)
  BY <1>5, Halts DEF OutOfMemory
<1>6. CASE /\ MapPages(c, Unused, A, {a \in A : pgdir[p][a].w})
           /\ mm' = [mm EXCEPT ![c] = n]
           /\ stage' = [stage EXCEPT ![c] = "user"]
           /\ Assert_(n.ok)
           /\ UNCHANGED todo
  <2>1. /\ Sorted(n) /\ AreasOf(n) = AreasOf(m) /\ Len(n.list) = Len(m.list)
        /\ n.brk_start = m.brk_start /\ n.brk = m.brk
    <3>1. Len(m.list) <= Names
      BY <1>3 DEF InUser
    <3> QED BY <1>1, <1>3, <3>1, DupIs
  <2>2. InUser(n)
    BY <1>3, <2>1 DEF InUser, HeapArea
  <2>3. n.ok
    BY <2>1, SortedFacts
  <2>4. panic' = panic
    BY <1>6, <2>3 DEF Assert_
  <2>5. A \in SUBSET UserPages /\ \A a \in A : pgdir[p][a] # NULL
    BY <1>1 DEF Mapped
  <2>6. \A a \in A : pgdir[c][a] = NULL
    BY <1>4, <2>5 DEF Unused
  <2>7. PICK W : W = {a \in A : pgdir[p][a].w}
    OBVIOUS
  <2>8. \A a \in A : Covered(n, a, a \in W)
    <3> SUFFICES ASSUME NEW a \in A PROVE Covered(n, a, a \in W)
      OBVIOUS
    <3>1. pgdir[p][a].w \in BOOLEAN /\ Covered(m, a, pgdir[p][a].w)
      BY <1>1, <1>3, <2>5, PteFacts
    <3>2. (a \in W) = pgdir[p][a].w
      BY <2>7, <3>1
    <3> QED BY <2>1, <3>1, <3>2 DEF Covered
  <2>9. Covers(mm[c], n, {})
    <3>1. AreasOf(mm[c]) = {}
      BY <1>4, CreateSorted
    <3> QED BY <3>1 DEF Covers, Covered
  <2>10. /\ MapPages(c, pgdir[c], A, W) /\ stage' = [stage EXCEPT ![c] = "user"]
         /\ todo' = [todo EXCEPT ![c] = todo[c]] /\ mm' = [mm EXCEPT ![c] = n]
    BY <1>4, <1>6, <2>7
  <2> QED BY <1>4, <2>1, <2>2, <2>4, <2>5, <2>6, <2>8, <2>9, <2>10, Maps
<1>7. \/ OutOfMemory(A)
      \/ /\ MapPages(c, Unused, A, {a \in A : pgdir[p][a].w})
         /\ mm' = [mm EXCEPT ![c] = n]
         /\ stage' = [stage EXCEPT ![c] = "user"]
         /\ Assert_(n.ok)
         /\ UNCHANGED todo
  BY <1>1 DEF Fork
<1> QED BY <1>5, <1>6, <1>7

LEMMA PageFaultStep ==
    ASSUME VmInv, NEW p \in Procs, NEW a \in UserPages, NEW write, PageFault(p, a, write) PROVE VmInv'
<1>1. PICK m, v : m = mm[p] /\ v = find_vma(m, a)
  OBVIOUS
<1>2. stage[p] = "user" /\ pgdir[p][a] = NULL /\ v # NULL
  BY <1>1 DEF PageFault
<1>3. /\ Sorted(m) /\ InUser(m) /\ todo = [todo EXCEPT ![p] = todo[p]] /\ todo[p] \in Seq(Segment)
      /\ stage = [stage EXCEPT ![p] = "user"] /\ mm \in [Procs -> MmType] /\ a \in Int
  BY <1>1, <1>2, ProcFacts, VmAreaAssumption DEF Types, UserPages
<1>4. CASE OutOfMemory({a})
  BY <1>4, Halts DEF OutOfMemory
<1>5. CASE /\ MapPages(p, pgdir[p], {a}, IF Writable(m.area[v].vm_flags) THEN {a} ELSE {})
           /\ mm' = [mm EXCEPT ![p] = Cached(m, a)]
           /\ UNCHANGED <<stage, todo, panic>>
  <2>1. PICK n : n = Cached(m, a)
    OBVIOUS
  <2>2. Sorted(n) /\ Alike(m, n) /\ AreasOf(n) = AreasOf(m)
    BY <1>3, <2>1, CachedIs
  <2>3. InUser(n)
    BY <1>3, <2>2, InUserAlike
  <2>4. PICK i \in 1..Len(m.list) : v = m.list[i] /\ In(At(m, i), a)
    BY <1>1, <1>2, <1>3, FindVma
  <2>5. PICK x \in AreasOf(n) : x = m.area[v] /\ x.vm_start <= a /\ a < x.vm_end
    BY <2>2, <2>4 DEF AreasOf, At, In
  <2>6. PICK W : W = IF Writable(m.area[v].vm_flags) THEN {a} ELSE {}
    OBVIOUS
  <2>7. \A b \in {a} : Covered(n, b, b \in W)
    <3>1. (a \in W) = Writable(x.vm_flags)
      BY <2>5, <2>6 DEF Writable
    <3> QED BY <2>5, <3>1 DEF Covered
  <2>8. Covers(mm[p], n, {})
    BY <1>1, <2>2 DEF Covers, Covered
  <2>9. /\ MapPages(p, pgdir[p], {a}, W) /\ stage' = [stage EXCEPT ![p] = "user"]
        /\ todo' = [todo EXCEPT ![p] = todo[p]] /\ mm' = [mm EXCEPT ![p] = n] /\ panic' = panic
    BY <1>3, <1>5, <2>1, <2>6
  <2>10. PICK A \in SUBSET UserPages : A = {a}
    OBVIOUS
  <2>11. /\ \A b \in A : pgdir[p][b] = NULL
         /\ MapPages(p, pgdir[p], A, W) /\ \A b \in A : Covered(n, b, b \in W)
    BY <1>2, <2>7, <2>9, <2>10
  <2> QED BY <1>3, <2>2, <2>3, <2>8, <2>9, <2>11, Maps
<1>6. \/ OutOfMemory({a})
      \/ /\ MapPages(p, pgdir[p], {a}, IF Writable(m.area[v].vm_flags) THEN {a} ELSE {})
         /\ mm' = [mm EXCEPT ![p] = Cached(m, a)]
         /\ UNCHANGED <<stage, todo, panic>>
  BY <1>1, <1>3 DEF PageFault
<1> QED BY <1>4, <1>5, <1>6

\* The break of p has moved: pages A are unmapped, and n covers the others.
LEMMA Breaks ==
    ASSUME VmInv, NEW p \in Procs, stage[p] = "user", NEW n, Sorted(n), InUser(n), NEW A,
           unmap_range(p, A), mm' = [mm EXCEPT ![p] = n], Covers(mm[p], n, A),
           UNCHANGED <<stage, todo>>, panic' = panic
    PROVE  VmInv'
<1>1. Types /\ Tables /\ PageCounts /\ panic \in {"none", "halted"}
  BY InvIs DEF VmInv
<1>2. /\ pgdir' \in [Procs -> [UserPages -> Entry \cup {NULL}]]
      /\ \A q \in Procs \ {p} : pgdir'[q] = pgdir[q]
      /\ \A a \in UserPages : pgdir'[p][a] = IF a \in A THEN NULL ELSE pgdir[p][a]
      /\ PageCounts'
  BY <1>1, UnmapRange
<1>3. n \in MmType
  BY DEF Sorted
<1>4. /\ Types' /\ stage'[p] = "user" /\ mm'[p] = n
      /\ \A q \in Procs \ {p} : stage'[q] = stage[q] /\ todo'[q] = todo[q] /\ mm'[q] = mm[q]
  BY <1>1, <1>3 DEF Types
<1>5. Fits("user", n, pgdir'[p], todo'[p])
  BY DEF Fits
<1>6. Owned(p, n, pgdir'[p])
  <2> SUFFICES ASSUME NEW a \in UserPages, pgdir'[p][a] # NULL
               PROVE  pgdir'[p][a].frame = <<p, a>> /\ Covered(n, a, pgdir'[p][a].w)
    BY DEF Owned
  <2>1. a \notin A /\ pgdir'[p][a] = pgdir[p][a]
    BY <1>2
  <2>2. /\ pgdir[p][a].frame = <<p, a>> /\ pgdir[p][a].w \in BOOLEAN
        /\ Covered(mm[p], a, pgdir[p][a].w)
    BY <1>1, <2>1, PteFacts
  <2>3. a \in Int \ A
    BY <2>1, VmAreaAssumption DEF UserPages
  <2> QED BY <2>1, <2>2, <2>3 DEF Covers
<1> QED BY <1>1, <1>2, <1>4, <1>5, <1>6, OneMoves

LEMMA BrkShrinkStep ==
    ASSUME VmInv, NEW p \in Procs, NEW a \in UserPages, NEW b \in Brks, BrkShrink(p, a, b) PROVE VmInv'
<1>1. PICK m, k : m = Cached(mm[p], a) /\ k = mm_unmap(m, b, m.brk)
  OBVIOUS
<1>2. PICK n : n = [k EXCEPT !.brk = b]
  OBVIOUS
<1>3. /\ stage[p] = "user" /\ m.brk_start <= b /\ b < m.brk /\ unmap_range(p, Unmapped(m, b, m.brk))
      /\ mm' = [mm EXCEPT ![p] = Cached(n, a)] /\ Assert_(k.ok) /\ UNCHANGED <<stage, todo>>
  BY <1>1, <1>2 DEF BrkShrink
<1>4. Sorted(mm[p]) /\ InUser(mm[p]) /\ a \in Int /\ b \in Nat
  BY <1>3, ProcFacts, VmAreaAssumption, VmmAssumption DEF UserPages
<1>5. Sorted(m) /\ Alike(mm[p], m) /\ AreasOf(m) = AreasOf(mm[p])
  BY <1>1, <1>4, CachedIs
<1>6. InUser(m)
  BY <1>4, <1>5, InUserAlike
<1>7. /\ k.ok /\ Sorted(n) /\ InUser(n)
      /\ Unmapped(m, b, m.brk) = b..(m.brk - 1)
      /\ Covers(m, n, b..(m.brk - 1))
  BY <1>1, <1>2, <1>3, <1>4, <1>5, <1>6, ShrinkIs
<1>8. PICK c : c = Cached(n, a)
  OBVIOUS
<1>9. Sorted(c) /\ Alike(n, c) /\ AreasOf(c) = AreasOf(n)
  BY <1>4, <1>7, <1>8, CachedIs
<1>10. InUser(c)
  BY <1>7, <1>9, InUserAlike
<1>11. Covers(mm[p], c, Unmapped(m, b, m.brk))
  BY <1>5, <1>7, <1>9 DEF Covers, Covered
<1>12. panic' = panic
  BY <1>3, <1>7 DEF Assert_
<1> QED BY <1>3, <1>8, <1>9, <1>10, <1>11, <1>12, Breaks

LEMMA BrkGrowStep ==
    ASSUME VmInv, BelowStack, NEW p \in Procs, NEW a \in UserPages, NEW b \in Brks, BrkGrow(p, a, b)
    PROVE  VmInv'
<1>1. PICK m, k : m = Cached(mm[p], a) /\ k = mm_brk(m, m.brk, b)
  OBVIOUS
<1>2. PICK n : n = [k EXCEPT !.brk = b]
  OBVIOUS
<1>3. /\ stage[p] = "user" /\ b > m.brk /\ USER_ACCESS(m.brk, b) /\ ~Intersects(m, m.brk, b + 1)
      /\ unmap_range(p, Unmapped(m, m.brk, b))
      /\ mm' = [mm EXCEPT ![p] = Cached(n, a)] /\ Assert_(k.ok) /\ UNCHANGED <<stage, todo>>
  BY <1>1, <1>2 DEF BrkGrow
<1>4. Sorted(mm[p]) /\ InUser(mm[p]) /\ a \in Int /\ b \in Nat /\ Below(b)
  BY <1>3, ProcFacts, VmAreaAssumption, VmmAssumption DEF UserPages, BelowStack
<1>5. Sorted(m) /\ Alike(mm[p], m) /\ AreasOf(m) = AreasOf(mm[p])
  BY <1>1, <1>4, CachedIs
<1>6. InUser(m) /\ m.brk < b
  BY <1>3, <1>4, <1>5, InUserAlike, SortedFacts
<1>7. /\ k.ok /\ Sorted(n) /\ InUser(n)
      /\ Unmapped(m, m.brk, b) = {}
      /\ Covers(m, n, {})
  BY <1>1, <1>2, <1>3, <1>4, <1>5, <1>6, GrowIs
<1>8. PICK c : c = Cached(n, a)
  OBVIOUS
<1>9. Sorted(c) /\ Alike(n, c) /\ AreasOf(c) = AreasOf(n)
  BY <1>4, <1>7, <1>8, CachedIs
<1>10. InUser(c)
  BY <1>7, <1>9, InUserAlike
<1>11. Covers(mm[p], c, Unmapped(m, m.brk, b))
  BY <1>5, <1>7, <1>9 DEF Covers, Covered
<1>12. panic' = panic
  BY <1>3, <1>7 DEF Assert_
<1> QED BY <1>3, <1>8, <1>9, <1>10, <1>11, <1>12, Breaks

LEMMA StepKeeps == ASSUME VmInv, BelowStack, NEW p \in Procs, Step(p) PROVE VmInv'
<1>1. CASE \E prog \in Programs : Exec(p, prog)
  BY <1>1, ExecStep
<1>2. CASE Load(p)
  BY <1>2, LoadStep
<1>3. CASE LoadFails(p)
  BY <1>3, LoadFailsStep
<1>4. CASE \E rnd \in BrkRandom, top \in StackTops : LoadStack(p, rnd, top)
  BY <1>4, LoadStackStep
<1>5. CASE \E c \in Procs : Fork(p, c)
  BY <1>5, ForkStep
<1>6. CASE Exit(p)
  BY <1>6, ExitStep
<1>7. CASE \E a \in UserPages : \E write \in BOOLEAN : PageFault(p, a, write)
  BY <1>7, PageFaultStep
<1>8. CASE \E a \in UserPages : \E write \in BOOLEAN : BadFault(p, a, write)
  BY <1>8, Halts DEF BadFault
<1>9. ASSUME NEW a \in UserPages, NEW b \in Brks, BrkUnchanged(p, a, b) PROVE VmInv'
  <2>1. /\ stage[p] = "user" /\ mm' = [mm EXCEPT ![p] = Cached(mm[p], a)]
        /\ UNCHANGED <<stage, todo, memVars, panic>>
    BY <1>9 DEF BrkUnchanged
  <2> QED BY <2>1, CacheMoves
<1>10. CASE \E a \in UserPages : \E b \in Brks : Brk(p, a, b)
  BY <1>9, <1>10, BrkShrinkStep, BrkGrowStep DEF Brk
<1> QED BY <1>1, <1>2, <1>3, <1>4, <1>5, <1>6, <1>7, <1>8, <1>10 DEF Step

LEMMA InitHolds == ASSUME Init, BelowStack PROVE VmInv
<1>1. PICK p \in Procs, prog \in Programs :
        /\ stage = [q \in Procs |-> IF q = p THEN "load" ELSE "none"]
        /\ todo = [q \in Procs |-> IF q = p THEN prog ELSE <<>>]
  BY DEF Init
<1>2. /\ mm = [q \in Procs |-> mm_create] /\ pgdir = [q \in Procs |-> Unused]
      /\ page_ref = [f \in Frames |-> 0] /\ used = {} /\ panic = "none"
  BY DEF Init
<1>3. Sorted(mm_create) /\ mm_create \in MmType
  BY CreateSorted DEF Sorted
<1>4. Loading(mm_create, prog) /\ prog \in Seq(Segment)
  BY LoadingNothing, VmmAssumption DEF Segment
<1>5. Stages
  <2>1. stage \in [Procs -> {"none", "load", "user"}] /\ mm \in [Procs -> MmType]
    BY <1>1, <1>2, <1>3
  <2>2. todo \in [Procs -> Seq(Segment)]
    <3>1. PICK none \in Seq(Segment) : none = <<>>
      BY EmptySegs, Zenon
    <3>2. todo = [q \in Procs |-> IF q = p THEN prog ELSE none]
      BY <1>1, <3>1, Zenon
    <3> QED BY <1>4, <3>2
  <2>3. ASSUME NEW q \in Procs
        PROVE  /\ Sorted(mm[q])
               /\ stage[q] = "none" => mm[q] = mm_create /\ pgdir[q] = Unused
               /\ stage[q] = "load" => Loading(mm[q], todo[q])
               /\ stage[q] = "user" => InUser(mm[q])
    <3>1. mm[q] = mm_create /\ pgdir[q] = Unused
      BY <1>2
    <3>2. (q = p /\ stage[q] = "load" /\ todo[q] = prog) \/ stage[q] = "none"
      BY <1>1
    <3> QED BY <1>3, <1>4, <3>1, <3>2
  <2> QED BY <2>1, <2>2, <2>3 DEF Stages
<1>6. \A q \in Procs, a \in UserPages : pgdir[q][a] = NULL
  BY <1>2 DEF Unused
<1>7. Tables
  <2>1. Unused \in [UserPages -> Entry \cup {NULL}]
    BY DEF Unused
  <2>2. pgdir \in [Procs -> [UserPages -> Entry \cup {NULL}]]
    BY <1>2, <2>1
  <2> QED BY <1>6, <2>2 DEF Tables
<1>8. PageCounts
  <2>1. ASSUME NEW f \in Frames PROVE pgdir[f[1]][f[2]] = NULL
    BY <1>6 DEF Frames
  <2> QED BY <1>2, <2>1 DEF PageCounts
<1> QED BY <1>2, <1>5, <1>7, <1>8 DEF VmInv

LEMMA VmAlways == Spec => [](BelowStack => VmInv)
<1>1. Init => (BelowStack => VmInv)
  BY InitHolds
<1>2. (BelowStack => VmInv) /\ [Next]_vars => (BelowStack => VmInv)'
  <2> SUFFICES ASSUME VmInv, BelowStack, [Next]_vars PROVE VmInv'
    BY DEF BelowStack, Rising, Below, StackTops
  <2>1. CASE UNCHANGED vars
    <3>1. /\ stage' = stage /\ todo' = todo /\ mm' = mm /\ pgdir' = pgdir /\ page_ref' = page_ref
          /\ used' = used /\ panic' = panic
      BY <2>1 DEF vars, memVars
    <3> QED BY <3>1 DEF VmInv, Stages, Tables, PageCounts
  <2>2. CASE Next
    BY <2>2, StepKeeps DEF Next
  <2> QED BY <2>1, <2>2
<1> QED BY <1>1, <1>2, PTL DEF Spec

-----------------------------------------------------------------------------
(* What it is for.                                                          *)

LEMMA AreasFollow == ASSUME VmInv PROVE AreasExact
<1>1. NoAssertFails
  BY DEF VmInv, NoAssertFails
<1> SUFFICES ASSUME NEW p \in Procs, NEW m, m = mm[p]
             PROVE  /\ \A i \in 1..Len(m.list) :
                         /\ USER_ACCESS(m.area[m.list[i]].vm_start, m.area[m.list[i]].vm_end)
                         /\ i > 1 => m.area[m.list[i - 1]].vm_end <= m.area[m.list[i]].vm_start
                    /\ m.map_count = Len(m.list)
                    /\ m.cache \in Range(m.list) \cup {NULL}
                    /\ stage[p] = "user" =>
                          /\ m.brk_start <= m.brk
                          /\ m.brk_start..(m.brk - 1) \subseteq AreaPages(m, {"rw"})
                          /\ AreaPages(m, {"rx", "rw"}) \cap (m.brk..(USERTOP - 1)) = {}
  BY <1>1 DEF AreasExact
<1>2. Sorted(m) /\ (stage[p] = "user" => InUser(m))
  BY ProcFacts
<1>3. /\ Len(m.list) \in Nat /\ m.map_count = Len(m.list) /\ m.cache \in Range(m.list) \cup {NULL}
      /\ \A i \in 1..Len(m.list) : Valid(At(m, i))
      /\ \A i, j \in 1..Len(m.list) : i < j => At(m, i).vm_end <= At(m, j).vm_start
  BY <1>2, SortedFacts
<1>4. ASSUME NEW i \in 1..Len(m.list)
      PROVE  /\ USER_ACCESS(m.area[m.list[i]].vm_start, m.area[m.list[i]].vm_end)
             /\ i > 1 => m.area[m.list[i - 1]].vm_end <= m.area[m.list[i]].vm_start
  <2>1. i > 1 => i - 1 \in 1..Len(m.list) /\ i - 1 < i
    BY <1>3
  <2> QED BY <1>3, <2>1 DEF At, Valid
<1>5. ASSUME stage[p] = "user"
      PROVE  /\ m.brk_start <= m.brk
             /\ m.brk_start..(m.brk - 1) \subseteq AreaPages(m, {"rw"})
             /\ AreaPages(m, {"rx", "rw"}) \cap (m.brk..(USERTOP - 1)) = {}
  <2>1. /\ InUser(m) /\ m.brk_start \in Nat /\ m.brk \in Nat /\ m.brk_start <= m.brk
        /\ \A y \in AreasOf(m) : Heap(y) => y.vm_end <= m.brk
    BY <1>2, <1>5, HeapFacts
  <2>2. ASSUME NEW a \in m.brk_start..(m.brk - 1) PROVE a \in AreaPages(m, {"rw"})
    <3>1. a \in Int /\ m.brk_start <= a /\ a < m.brk
      BY <2>1
    <3>2. PICK x \in AreasOf(m) : HeapArea(m, x)
      BY <2>1, <3>1 DEF InUser
    <3>3. x.vm_flags \in {"rw"} /\ In(x, a)
      <4>1. x.vm_start \in Nat /\ x.vm_end \in Nat
        BY <1>2, AreasFacts
      <4> QED BY <2>1, <3>1, <3>2, <4>1 DEF HeapArea, In
    <3> QED BY <1>2, <3>1, <3>3, AreaPagesIs
  <2>3. ASSUME NEW a \in m.brk..(USERTOP - 1), a \in AreaPages(m, {"rx", "rw"}) PROVE FALSE
    <3>1. PICK x \in AreasOf(m) : x.vm_flags \in {"rx", "rw"} /\ In(x, a)
      BY <1>2, <2>3, AreaPagesIs
    <3>2. x.vm_end <= m.brk /\ x.vm_end \in Nat
      BY <1>2, <2>1, <3>1, AreasFacts DEF Heap
    <3> QED BY <2>1, <2>3, <3>1, <3>2 DEF In
  <2> QED BY <2>1, <2>2, <2>3
<1> QED BY <1>3, <1>4, <1>5

LEMMA FramesFollow == ASSUME VmInv PROVE FramesExact
<1> DEFINE ptes == {x \in Procs \X UserPages : pgdir[x[1]][x[2]] # NULL}
           Frame(x) == pgdir[x[1]][x[2]].frame
<1>1. Tables /\ PageCounts
  BY DEF VmInv
<1>2. ASSUME NEW x \in ptes
      PROVE  \E p \in Procs, a \in UserPages :
               x = <<p, a>> /\ x[1] = p /\ x[2] = a /\ pgdir[p][a] # NULL
  OBVIOUS
<1>3. ASSUME NEW x \in ptes
      PROVE  /\ Frame(x) = x
             /\ \E v \in Range(mm[x[1]].list) :
                  /\ Within(mm[x[1]], v, x[2])
                  /\ pgdir[x[1]][x[2]].w = Writable(mm[x[1]].area[v].vm_flags)
  <2>1. PICK p \in Procs, a \in UserPages :
          x = <<p, a>> /\ x[1] = p /\ x[2] = a /\ pgdir[p][a] # NULL
    BY <1>2
  <2>2. pgdir[p][a].frame = <<p, a>> /\ Covered(mm[p], a, pgdir[p][a].w)
    BY <1>1, <2>1, PteFacts
  <2>3. PICK y \in AreasOf(mm[p]) :
          y.vm_start <= a /\ a < y.vm_end /\ pgdir[p][a].w = Writable(y.vm_flags)
    BY <2>2 DEF Covered
  <2>4. PICK i \in 1..Len(mm[p].list) : y = At(mm[p], i)
    BY DEF AreasOf
  <2>5. PICK v \in Range(mm[p].list) : y = mm[p].area[v]
    <3>1. mm[p].list \in Seq(Vmas)
      BY ProcFacts, SortedFacts
    <3> QED BY <2>4, <3>1, RangeIs DEF At
  <2>6. Within(mm[p], v, a) /\ pgdir[p][a].w = Writable(mm[p].area[v].vm_flags)
    BY <2>3, <2>5 DEF Within
  <2> QED BY <2>1, <2>2, <2>6
<1>4. used = ptes
  BY <1>1 DEF PageCounts, Frames
<1>5. used = {Frame(x) : x \in ptes}
  <2> HIDE DEF ptes, Frame
  <2> QED BY <1>3, <1>4
<1>6. \A x, y \in ptes : Frame(x) = Frame(y) => x = y
  <2> HIDE DEF ptes, Frame
  <2> QED BY <1>3
<1>7. \A f \in Frames : page_ref[f] = IF f \in used THEN 1 ELSE 0
  BY <1>1 DEF PageCounts
<1> QED BY <1>3, <1>5, <1>6, <1>7 DEF FramesExact

\* The areas of every process stay in order, apart and counted, the cache never
\* names one that was freed, and from the start of the heap to the break there is
\* one writable area and nothing above it up to the stack: for any programs, breaks,
\* forks and numbers of pages, if segments rise and end, like the breaks, below the
\* stack.  insert_vma_struct, mm_map, mm_unmap, mm_brk and dup_mmap (vmm.c).
THEOREM AreasStayExact == Spec => [](BelowStack => AreasExact)
<1>1. (BelowStack => VmInv) => (BelowStack => AreasExact)
  BY AreasFollow
<1> QED BY <1>1, VmAlways, PTL

\* Every page table entry has a page of its own with one reference, no other page is
\* in use, and its rights are those of the area it is in: page_insert,
\* page_remove_pte (pmm.c), exit_mmap, copy_range and do_pgfault lose no page and
\* share none, under the same condition.
THEOREM FramesStayExact == Spec => [](BelowStack => FramesExact)
<1>1. (BelowStack => VmInv) => (BelowStack => FramesExact)
  BY FramesFollow
<1> QED BY <1>1, VmAlways, PTL
=============================================================================
