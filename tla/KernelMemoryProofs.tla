------------------------- MODULE KernelMemoryProofs --------------------------
(***************************************************************************)
(* Theorems about the memory of the kernel, for every memory map, every     *)
(* sequence of calls of alloc_pages and free_pages, and every number of     *)
(* pages that check_swap uses.                                              *)
(***************************************************************************)
EXTENDS KernelMemory, FiniteSetTheorems, SequenceTheorems, WellFoundedInduction, TLAPS

-----------------------------------------------------------------------------
(* Lists of free blocks: L has the first pages, pr the sizes, mk the pages  *)
(* that are marked as first ones.                                           *)

Run(b, n) == b..(b + n - 1)
Ends(pr, p) == p + pr[p]
Apart(pr, p, q) == Ends(pr, p) < q \/ Ends(pr, q) < p

\* p is the first page of a block, and the only one of it that is marked.
BlockOK(pr, mk, p) ==
    /\ p \in Pages /\ pr[p] > 0 /\ Run(p, pr[p]) \subseteq Pages
    /\ \A q \in Run(p, pr[p]) : q \in mk => q = p

\* The list is sorted, and what touches is joined.
ListOK(L, pr, mk) ==
    /\ L \in Seq(Pages)
    /\ \A i \in 1..Len(L) : BlockOK(pr, mk, L[i])
    /\ \A i, j \in 1..Len(L) : i < j => Ends(pr, L[i]) < L[j]

Cover(L, pr) == UNION {Run(p, pr[p]) : p \in Range(L)}

-----------------------------------------------------------------------------
(* The invariant of the page allocator.                                     *)

Freeing == op.at \in {"merge", "insert"}

\* default_free_pages has its block between those of the list; it touches none of
\* those that the first loop has visited, and is above those the second has.
FreeingOK(o, L, pr, mk) ==
    /\ BlockOK(pr, mk, o.base)
    /\ o.le \in 1..(Len(L) + 1)
    /\ \A i \in 1..Len(L) : Ends(pr, L[i]) <= o.base \/ Ends(pr, o.base) <= L[i]
    /\ \A i \in 1..Len(L) : i < o.le \/ o.at = "insert" => Apart(pr, L[i], o.base)
    /\ o.at = "insert" => \A i \in 1..(o.le - 1) : L[i] < o.base

MemmapOK ==
    op.le \in 1..(Len(MemMap) + 1) /\ pg_property \subseteq Initialised /\ held = {}

OpType == [at : {"none", "memmap", "merge", "insert"}, base : Nat, le : Nat, n : Nat]

OpInv ==
    /\ op \in OpType
    /\ op.at = "none" => op = Idle
    /\ op.at = "memmap" => MemmapOK
    /\ Freeing => FreeingOK(op, free_list, property, pg_property)

PmmTypeOK ==
    /\ property \in [Pages -> Nat] /\ pg_property \subseteq Pages /\ nr_free \in Int
    /\ held \subseteq Pages \X (Nat \ {0})
    /\ failed \in BOOLEAN

\* The allocator manages the pages P.
PmmInv(P) ==
    /\ P \subseteq Pages /\ PmmTypeOK
    /\ ListOK(free_list, property, pg_property)
    /\ OpInv
    /\ pg_property \cap HeldPages = {}
    /\ PartitionOf(P)
    /\ op.at = "merge" => nr_free + op.n = Cardinality(FreePages)

-----------------------------------------------------------------------------
(* The invariant of the system.                                             *)

Managed ==
    CASE phase \in {"boot", "take"} -> Initialised
      [] phase = "done" -> Pages \ CheckPages
      [] OTHER -> CheckPages

\* No element twice.
Distinct(s) == \A i, j \in 1..Len(s) : s[i] = s[j] => i = j

Singles(S) == {<<p, 1>> : p \in S}

\* check_swap takes its pages.
TakeInv ==
    /\ check_rp \in Seq(Pages) /\ Len(check_rp) <= N
    /\ Distinct(check_rp)
    /\ phase = "boot" => check_rp = <<>> /\ held = {}
    /\ phase # "boot" => pt \in Pages /\ pt \notin Range(check_rp) /\ op.at # "memmap"
    /\ phase = "take" => op = Idle /\ held = Singles(CheckPages)
    /\ phase = "boot" => op.at \in {"memmap", "none"}
    /\ phase # "done" => failed = FALSE
    /\ phase \in {"boot", "take", "give"} => pra_list = <<>>

\* The list that check_swap has put aside.
HiddenInv ==
    /\ store \in [list : Seq(Pages), nr : Int]
    /\ HidesFree =>
          /\ ListOK(store.list, property, pg_property)
          /\ Hidden \cup CheckPages = Pages /\ Hidden \cap CheckPages = {}
          /\ store.nr = Cardinality(Hidden)
          /\ held \subseteq Singles(CheckPages)

\* The pages to be freed are held.
GiveInv ==
    phase \in {"give", "restore"} =>
        /\ todo \in Seq(Pages)
        /\ Distinct(todo)
        /\ held = Singles(Range(todo) \cup (IF phase = "give" THEN {pt} ELSE {}))
        /\ phase = "give" => pt \notin Range(todo)
        /\ fault = 0

\* The pages of the FIFO list are those that are held.
AccessInv ==
    /\ fault \in VPages \cup {0}
    /\ fault # 0 => phase \in Accesses /\ (phase = "any" \/ todo # <<>>)
    /\ phase \in Accesses =>
          /\ pra_list \in Seq(Pages)
          /\ Distinct(pra_list)
          /\ held = Singles(Range(pra_list) \cup {pt}) /\ pt \notin Range(pra_list)
          /\ op # Idle => fault # 0
    /\ phase \in {"access", "any"} /\ panic = "none" =>
          /\ fault = 0 => FreePages = {}
          /\ \A x, y \in FreePages : x = y

\* A call of kmalloc.
ReqOK(r) ==
    \/ r = NoReq
    \/ /\ r = [at |-> r.at, size |-> r.size, bb |-> r.bb]
       /\ r.at \in {"small", "bb", "pages"} /\ r.size \in KSizes

\* Big blocks have their pages.
BigInv ==
    /\ bigblocks \in Seq(Range(bigblocks))
    /\ \A i \in 1..Len(bigblocks) : bigblocks[i].order \in Nat /\ bigblocks[i].pages \in Pages
    /\ BigPages \subseteq held
    /\ \A i, j \in 1..Len(bigblocks) : bigblocks[i].pages = bigblocks[j].pages => i = j
    /\ ReqOK(req)
    /\ phase # "done" => bigblocks = <<>> /\ req = NoReq

Phases == {"boot", "take", "give", "set", "access", "any", "restore", "done"}

PagesInv ==
    /\ phase \in Phases /\ panic \in {"none", "assert", "no_memory"}
    /\ PmmInv(Managed)
    /\ TakeInv /\ HiddenInv /\ GiveInv /\ AccessInv /\ BigInv

-----------------------------------------------------------------------------
(* Sequences and sets of numbers.                                           *)

\* list_del: the elements after i move down by one.
LEMMA RemoveAtFacts ==
    ASSUME NEW S, NEW s \in Seq(S), NEW i \in 1..Len(s)
    PROVE  /\ RemoveAt(s, i) \in Seq(S)
           /\ Len(RemoveAt(s, i)) = Len(s) - 1
           /\ \A j \in 1..(Len(s) - 1) : RemoveAt(s, i)[j] = IF j < i THEN s[j] ELSE s[j + 1]
<1>0. Len(s) \in Nat /\ i \in Nat /\ i >= 1 /\ i <= Len(s)
  OBVIOUS
<1> DEFINE a == SubSeq(s, 1, i - 1)
           b == SubSeq(s, i + 1, Len(s))
<1>1. a \in Seq(S) /\ Len(a) = i - 1 /\ \A j \in 1..(i - 1) : a[j] = s[j]
  OBVIOUS
<1>2. b \in Seq(S) /\ Len(b) = Len(s) - i /\ \A j \in 1..(Len(s) - i) : b[j] = s[i + j]
  OBVIOUS
<1> HIDE DEF a, b
<1>3. RemoveAt(s, i) = a \o b
  BY DEF RemoveAt, a, b
<1>4. /\ a \o b \in Seq(S) /\ Len(a \o b) = Len(a) + Len(b)
      /\ \A j \in 1..(Len(a) + Len(b)) : (a \o b)[j] = IF j <= Len(a) THEN a[j] ELSE b[j - Len(a)]
  BY <1>1, <1>2, ConcatProperties, Zenon
<1>5. ASSUME NEW j \in 1..(Len(s) - 1) PROVE (a \o b)[j] = IF j < i THEN s[j] ELSE s[j + 1]
  <2>0. j < i \/ j >= i
    BY <1>0
  <2>1. CASE j < i
    BY <1>0, <1>1, <1>2, <1>4, <2>1
  <2>2. CASE j >= i
    <3>1. j - (i - 1) \in 1..(Len(s) - i) /\ i + (j - (i - 1)) = j + 1
      BY <1>0, <2>2
    <3>2. (a \o b)[j] = b[j - (i - 1)] /\ b[j - (i - 1)] = s[i + (j - (i - 1))]
      BY <1>0, <1>1, <1>2, <1>4, <2>2, <3>1
    <3> QED BY <1>0, <2>2, <3>1, <3>2
  <2> QED BY <2>0, <2>1, <2>2
<1> QED BY <1>0, <1>1, <1>2, <1>3, <1>4, <1>5

\* list_add_before: the elements from i on move up by one.
LEMMA InsertAtFacts ==
    ASSUME NEW S, NEW s \in Seq(S), NEW i \in 1..(Len(s) + 1), NEW e \in S
    PROVE  /\ InsertAt(s, i, e) \in Seq(S)
           /\ Len(InsertAt(s, i, e)) = Len(s) + 1
           /\ \A j \in 1..(Len(s) + 1) :
                InsertAt(s, i, e)[j] = IF j < i THEN s[j] ELSE IF j = i THEN e ELSE s[j - 1]
<1>0. Len(s) \in Nat /\ i \in Nat /\ i >= 1 /\ i <= Len(s) + 1
  OBVIOUS
<1> DEFINE a == SubSeq(s, 1, i - 1)
           b == SubSeq(s, i, Len(s))
           c == a \o <<e>>
<1>1. a \in Seq(S) /\ Len(a) = i - 1 /\ \A j \in 1..(i - 1) : a[j] = s[j]
  OBVIOUS
<1>2. b \in Seq(S) /\ Len(b) = Len(s) + 1 - i /\ \A j \in 1..(Len(s) + 1 - i) : b[j] = s[i + j - 1]
  OBVIOUS
<1>3. InsertAt(s, i, e) = c \o b
  BY DEF InsertAt
<1> HIDE DEF a, b
<1>4. c \in Seq(S) /\ Len(c) = i /\ \A j \in 1..i : c[j] = IF j < i THEN s[j] ELSE e
  BY <1>0, <1>1
<1> HIDE DEF c
<1>5. /\ c \o b \in Seq(S) /\ Len(c \o b) = Len(c) + Len(b)
      /\ \A j \in 1..(Len(c) + Len(b)) : (c \o b)[j] = IF j <= Len(c) THEN c[j] ELSE b[j - Len(c)]
  BY <1>2, <1>4, ConcatProperties, Zenon
<1>6. ASSUME NEW j \in 1..(Len(s) + 1)
      PROVE  (c \o b)[j] = IF j < i THEN s[j] ELSE IF j = i THEN e ELSE s[j - 1]
  <2>0. j <= i \/ j > i
    BY <1>0
  <2>1. CASE j <= i
    BY <1>0, <1>2, <1>4, <1>5, <2>1
  <2>2. CASE j > i
    <3>1. j - i \in 1..(Len(s) + 1 - i) /\ i + (j - i) - 1 = j - 1
      BY <1>0, <2>2
    <3>2. (c \o b)[j] = b[j - i] /\ b[j - i] = s[i + (j - i) - 1]
      BY <1>0, <1>2, <1>4, <1>5, <2>2, <3>1
    <3> QED BY <1>0, <2>2, <3>1, <3>2
  <2> QED BY <2>0, <2>1, <2>2
<1> QED BY <1>0, <1>2, <1>3, <1>4, <1>5, <1>6

\* A set of numbers has a least one.
LEMMA NatLeast ==
    ASSUME NEW T, T \subseteq Nat, T # {} PROVE \E x \in T : \A y \in T : x <= y
<1>1. PICK x \in T : \A y \in T : ~(<<y, x>> \in OpToRel(<, Nat))
  BY WFMin, NatLessThanWellFounded
<1>2. \A y \in T : <<y, x>> \in OpToRel(<, Nat) <=> y < x
  BY DEF OpToRel
<1>3. \A y \in T : ~(y < x)
  BY <1>1, <1>2, Zenon
<1> QED BY <1>3

LEMMA PairMinMax ==
    ASSUME NEW a \in Nat, NEW b \in Nat
    PROVE  /\ Max({a, b}) = IF a >= b THEN a ELSE b
           /\ Min({a, b}) = IF a <= b THEN a ELSE b
BY DEF Max, Min

-----------------------------------------------------------------------------
(* The pages.                                                               *)

LEMMA DivFacts ==
    ASSUME NEW x \in Nat, NEW d \in Nat \ {0}
    PROVE  x \div d \in Nat /\ x \div d <= x
OBVIOUS

LEMMA EntryFacts ==
    ASSUME NEW i \in 1..Len(MemMap)
    PROVE  /\ FirstPage(MemMap[i]) \in Nat /\ EndPage(MemMap[i]) \in Nat
           /\ EndPage(MemMap[i]) <= KMEMSIZE
<1>0. PICK e : e = MemMap[i]
  OBVIOUS
<1>1. e \in [addr : Nat, size : Nat, arm : BOOLEAN]
  <2>1. PICK R : R = [addr : Nat, size : Nat, arm : BOOLEAN]
    OBVIOUS
  <2>2. MemMap \in Seq(R)
    BY <2>1, PmmAssumption
  <2>3. MemMap[i] \in R
    BY <2>2
  <2> QED BY <1>0, <2>1, <2>3
<1>2. e.addr \in Nat /\ e.size \in Nat /\ e.addr + e.size \in Nat
  BY <1>1
<1>3. PGSIZE \in Nat \ {0} /\ KMEMSIZE \in Nat /\ FreeMem \in Nat
  BY PmmAssumption
<1>4. PICK a : a = e.addr
  OBVIOUS
<1>5. PICK z : z = e.addr + e.size
  OBVIOUS
<1>6. Max({a, FreeMem}) \in Nat /\ Min({z, KMEMSIZE}) \in 0..KMEMSIZE
  <2>1. a \in Nat /\ z \in Nat
    BY <1>2, <1>4, <1>5
  <2>2. Max({a, FreeMem}) = IF a >= FreeMem THEN a ELSE FreeMem
    BY <1>3, <2>1, PairMinMax
  <2>3. Min({z, KMEMSIZE}) = IF z <= KMEMSIZE THEN z ELSE KMEMSIZE
    BY <1>3, <2>1, PairMinMax
  <2> QED BY <1>3, <2>1, <2>2, <2>3
<1>7. PICK x : x = Max({a, FreeMem}) + PGSIZE - 1
  OBVIOUS
<1>8. PICK y : y = Min({z, KMEMSIZE})
  OBVIOUS
<1>9. x \in Nat /\ y \in Nat /\ y <= KMEMSIZE
  BY <1>3, <1>6, <1>7, <1>8
<1>10. x \div PGSIZE \in Nat /\ y \div PGSIZE \in Nat /\ y \div PGSIZE <= y
  BY <1>3, <1>9, DivFacts
<1>11. FirstPage(MemMap[i]) = x \div PGSIZE /\ EndPage(MemMap[i]) = y \div PGSIZE
  BY <1>0, <1>4, <1>5, <1>7, <1>8, Zenon DEF FirstPage, EndPage
<1> QED BY <1>3, <1>9, <1>10, <1>11

LEMMA PagesFacts == Pages \subseteq Nat /\ IsFiniteSet(Pages)
<1>1. \A x \in Pages : x \in Nat /\ x <= KMEMSIZE
  <2> SUFFICES ASSUME NEW i \in 1..Len(MemMap), NEW x \in Given(MemMap[i])
               PROVE  x \in Nat /\ x <= KMEMSIZE
    BY DEF Pages
  <2>1. /\ FirstPage(MemMap[i]) \in Nat /\ EndPage(MemMap[i]) \in Nat
        /\ EndPage(MemMap[i]) <= KMEMSIZE
    BY EntryFacts
  <2>2. x \in FirstPage(MemMap[i])..(EndPage(MemMap[i]) - 1)
    BY DEF Given
  <2>3. KMEMSIZE \in Nat
    BY PmmAssumption
  <2> QED BY <2>1, <2>2, <2>3
<1>2. KMEMSIZE \in Nat
  BY PmmAssumption
<1>3. Pages \subseteq 0..KMEMSIZE
  BY <1>1, <1>2
<1>4. IsFiniteSet(0..KMEMSIZE)
  BY <1>2, FS_Interval
<1> QED BY <1>1, <1>3, <1>4, FS_Subset

-----------------------------------------------------------------------------
(* Runs of pages.                                                           *)

LEMMA InRun ==
    ASSUME NEW b \in Int, NEW n \in Int, NEW x
    PROVE  x \in Run(b, n) <=> x \in Int /\ b <= x /\ x < b + n
BY DEF Run

LEMMA CardRun ==
    ASSUME NEW b \in Nat, NEW n \in Nat PROVE IsFiniteSet(Run(b, n)) /\ Cardinality(Run(b, n)) = n
<1>1. IsFiniteSet(b..(b + n - 1)) /\ Cardinality(b..(b + n - 1)) =
        IF b > b + n - 1 THEN 0 ELSE (b + n - 1) - b + 1
  BY FS_Interval
<1> QED BY <1>1 DEF Run

LEMMA CardMinus ==
    ASSUME NEW F, IsFiniteSet(F), NEW R, R \subseteq F
    PROVE  /\ IsFiniteSet(F \ R) /\ Cardinality(F \ R) = Cardinality(F) - Cardinality(R)
           /\ Cardinality(F) \in Nat /\ Cardinality(R) \in Nat /\ Cardinality(R) <= Cardinality(F)
<1>1. IsFiniteSet(R) /\ Cardinality(R) <= Cardinality(F)
  BY FS_Subset
<1>2. IsFiniteSet(F \ R) /\ Cardinality(F \ R) = Cardinality(F) - Cardinality(F \cap R)
  BY FS_Difference
<1>3. F \cap R = R
  OBVIOUS
<1> QED BY <1>1, <1>2, <1>3, FS_CardinalityType

LEMMA CardPlus ==
    ASSUME NEW F, IsFiniteSet(F), NEW R, IsFiniteSet(R), F \cap R = {}
    PROVE  /\ IsFiniteSet(F \cup R) /\ Cardinality(F \cup R) = Cardinality(F) + Cardinality(R)
           /\ Cardinality(F) \in Nat /\ Cardinality(R) \in Nat
<1>1. Cardinality(F \cap R) = 0
  BY FS_EmptySet
<1>2. IsFiniteSet(F \cup R) /\ Cardinality(F \cup R) = Cardinality(F) + Cardinality(R) - Cardinality(F \cap R)
  BY FS_Union
<1> QED BY <1>1, <1>2, FS_CardinalityType

-----------------------------------------------------------------------------
(* Lists of blocks.                                                         *)

\* What a list is, in terms of numbers.
LEMMA ListFacts ==
    ASSUME NEW L, NEW pr \in [Pages -> Nat], NEW mk, ListOK(L, pr, mk)
    PROVE  /\ L \in Seq(Pages) /\ Len(L) \in Nat
           /\ \A i \in 1..Len(L) : L[i] \in Pages /\ L[i] \in Nat /\ pr[L[i]] \in Nat \ {0}
           /\ \A i, j \in 1..Len(L) : i < j => L[i] + pr[L[i]] < L[j]
           /\ \A i, j \in 1..Len(L) :
                i = j \/ L[i] + pr[L[i]] < L[j] \/ L[j] + pr[L[j]] < L[i]
<1>1. L \in Seq(Pages) /\ Len(L) \in Nat
  BY DEF ListOK
<1>2. ASSUME NEW i \in 1..Len(L) PROVE L[i] \in Pages /\ L[i] \in Nat /\ pr[L[i]] \in Nat \ {0}
  <2>1. L[i] \in Pages /\ pr[L[i]] > 0
    BY DEF ListOK, BlockOK
  <2> QED BY <2>1, PagesFacts
<1>3. \A i, j \in 1..Len(L) : i < j => L[i] + pr[L[i]] < L[j]
  BY DEF ListOK, Ends
<1> QED BY <1>1, <1>2, <1>3

LEMMA RangeIs ==
    ASSUME NEW S, NEW L \in Seq(S)
    PROVE  /\ Range(L) \subseteq S
           /\ \A i \in 1..Len(L) : L[i] \in Range(L)
           /\ \A x \in Range(L) : \E i \in 1..Len(L) : x = L[i]
BY DEF Range

\* The pages of the blocks of a list.
LEMMA InCover ==
    ASSUME NEW L \in Seq(Pages), NEW pr \in [Pages -> Nat], NEW x
    PROVE  x \in Cover(L, pr) <=>
             \E i \in 1..Len(L) : x \in Int /\ L[i] <= x /\ x < L[i] + pr[L[i]]
<1>1. ASSUME NEW i \in 1..Len(L) PROVE L[i] \in Int /\ pr[L[i]] \in Int
  <2>1. L[i] \in Pages
    OBVIOUS
  <2> QED BY <2>1, PagesFacts
<1>2. x \in Cover(L, pr) <=> \E i \in 1..Len(L) : x \in Run(L[i], pr[L[i]])
  <2>1. x \in Cover(L, pr) <=> \E p \in Range(L) : x \in Run(p, pr[p])
    BY DEF Cover
  <2> QED BY <2>1, RangeIs
<1>3. \A i \in 1..Len(L) : x \in Run(L[i], pr[L[i]]) <=> x \in Int /\ L[i] <= x /\ x < L[i] + pr[L[i]]
  BY <1>1, InRun
<1> QED BY <1>2, <1>3

LEMMA CoverInPages ==
    ASSUME NEW L, NEW pr \in [Pages -> Nat], NEW mk, ListOK(L, pr, mk)
    PROVE  Cover(L, pr) \subseteq Pages /\ IsFiniteSet(Cover(L, pr))
<1>1. Cover(L, pr) \subseteq Pages
  BY DEF Cover, ListOK, BlockOK, Range
<1> QED BY <1>1, PagesFacts, FS_Subset

\* The blocks of a list are not touched by what happens elsewhere.
Untouched(C, pr, mk, pr2, mk2) == \A x \in C : pr2[x] = pr[x] /\ (x \in mk2 => x \in mk)

LEMMA ListFrame ==
    ASSUME NEW L, NEW pr \in [Pages -> Nat], NEW mk, ListOK(L, pr, mk),
           NEW pr2 \in [Pages -> Nat], NEW mk2,
           Untouched(Cover(L, pr), pr, mk, pr2, mk2)
    PROVE  ListOK(L, pr2, mk2) /\ Cover(L, pr2) = Cover(L, pr)
<1> USE DEF Untouched
<1>1. /\ L \in Seq(Pages) /\ Len(L) \in Nat
      /\ \A i \in 1..Len(L) : L[i] \in Pages /\ L[i] \in Nat /\ pr[L[i]] \in Nat \ {0}
  BY ListFacts
<1>2. \A i \in 1..Len(L) : Run(L[i], pr[L[i]]) \subseteq Cover(L, pr)
  <2>1. \A p \in Range(L) : Run(p, pr[p]) \subseteq Cover(L, pr)
    BY DEF Cover
  <2> QED BY <1>1, <2>1, RangeIs
<1>3. \A i \in 1..Len(L) : L[i] \in Run(L[i], pr[L[i]])
  BY <1>1 DEF Run
<1>4. \A i \in 1..Len(L) : pr2[L[i]] = pr[L[i]]
  BY <1>2, <1>3
<1>5. \A p \in Range(L) : pr2[p] = pr[p]
  <2>1. \A p \in Range(L) : \E i \in 1..Len(L) : p = L[i]
    BY <1>1, RangeIs
  <2> QED BY <1>4, <2>1
<1>6. Cover(L, pr2) = Cover(L, pr)
  BY <1>5 DEF Cover
<1>7. ASSUME NEW i \in 1..Len(L) PROVE BlockOK(pr2, mk2, L[i])
  <2>1. BlockOK(pr, mk, L[i]) /\ pr2[L[i]] = pr[L[i]] /\ Run(L[i], pr[L[i]]) \subseteq Cover(L, pr)
    BY <1>2, <1>4 DEF ListOK
  <2> QED BY <2>1 DEF BlockOK
<1>8. \A i, j \in 1..Len(L) : i < j => Ends(pr2, L[i]) < L[j]
  BY <1>4 DEF ListOK, Ends
<1> QED BY <1>1, <1>6, <1>7, <1>8 DEF ListOK

\* default_alloc_pages: block i gives its first n pages, and has some left.
Shrinks(L, pr, mk, i, n, L2, pr2, mk2) ==
    /\ L2 = [L EXCEPT ![i] = L[i] + n]
    /\ pr2 = [pr EXCEPT ![L[i] + n] = pr[L[i]] - n]
    /\ mk2 = (mk \cup {L[i] + n}) \ {L[i]}

Tables(pr, mk) == pr \in [Pages -> Nat] /\ mk \subseteq Pages

Shrunk(L, pr, mk, i, n, L2, pr2, mk2) ==
    /\ Tables(pr2, mk2) /\ ListOK(L2, pr2, mk2)
    /\ Cover(L2, pr2) = Cover(L, pr) \ Run(L[i], n)
    /\ Run(L[i], n) \subseteq Cover(L, pr) /\ Run(L[i], n) \cap mk2 = {}
    /\ \A x \in Pages \ Cover(L, pr) : pr2[x] = pr[x] /\ (x \in mk2 <=> x \in mk)

LEMMA ListShrink ==
    ASSUME NEW L, NEW pr \in [Pages -> Nat], NEW mk, ListOK(L, pr, mk), mk \subseteq Pages,
           NEW i \in 1..Len(L), NEW n \in Nat \ {0}, n < pr[L[i]],
           NEW L2, NEW pr2, NEW mk2, Shrinks(L, pr, mk, i, n, L2, pr2, mk2)
    PROVE  Shrunk(L, pr, mk, i, n, L2, pr2, mk2)
<1> USE DEF Shrinks
<1>0. PICK p : p = L[i]
  OBVIOUS
<1>1. /\ L \in Seq(Pages) /\ Len(L) \in Nat
      /\ \A j \in 1..Len(L) : L[j] \in Pages /\ L[j] \in Nat /\ pr[L[j]] \in Nat \ {0}
      /\ \A k, j \in 1..Len(L) : k < j => L[k] + pr[L[k]] < L[j]
      /\ \A k, j \in 1..Len(L) : k = j \/ L[k] + pr[L[k]] < L[j] \/ L[j] + pr[L[j]] < L[k]
  BY ListFacts
<1>2. p \in Nat /\ pr[p] \in Nat /\ n < pr[p] /\ p \in Pages
  BY <1>0, <1>1
<1>3. BlockOK(pr, mk, p)
  BY <1>0 DEF ListOK
<1>4. p + n \in Run(p, pr[p]) /\ p + n \in Pages /\ p + n # p /\ p + n \notin mk
  <2>1. p + n \in Run(p, pr[p]) /\ p + n # p
    BY <1>2, InRun
  <2> QED BY <1>3, <2>1 DEF BlockOK
<1>5. /\ pr2 \in [Pages -> Nat] /\ mk2 \subseteq Pages
      /\ pr2[p + n] = pr[p] - n /\ \A x \in Pages : x # p + n => pr2[x] = pr[x]
  <2>1. PICK r : r = p + n
    OBVIOUS
  <2>2. PICK m : m = pr[p] - n
    OBVIOUS
  <2>3. m \in Nat /\ r \in Pages
    BY <1>2, <1>4, <2>1, <2>2
  <2>4. pr2 = [pr EXCEPT ![r] = m]
    BY <1>0, <2>1, <2>2
  <2>5. pr2 \in [Pages -> Nat] /\ pr2[r] = m /\ \A x \in Pages : x # r => pr2[x] = pr[x]
    BY <2>3, <2>4
  <2>6. mk2 \subseteq Pages
    BY <1>0, <1>4
  <2> QED BY <2>1, <2>2, <2>5, <2>6
<1>6. /\ L2 \in Seq(Pages) /\ Len(L2) = Len(L) /\ L2[i] = p + n
      /\ \A j \in 1..Len(L) : j # i => L2[j] = L[j]
  BY <1>0, <1>1, <1>4
<1>8. \A j \in 1..Len(L) : j # i => L2[j] = L[j] /\ pr2[L2[j]] = pr[L[j]]
  <2> SUFFICES ASSUME NEW j \in 1..Len(L), j # i PROVE L2[j] = L[j] /\ pr2[L2[j]] = pr[L[j]]
    OBVIOUS
  <2>1. L2[j] = L[j] /\ L[j] \in Pages /\ L[j] \in Nat /\ pr[L[j]] \in Nat \ {0}
    BY <1>1, <1>6
  <2>2. L[j] # p + n
    BY <1>1, <1>2, <1>0, <2>1
  <2> QED BY <1>5, <2>1, <2>2
<1>9. L2[i] = p + n /\ pr2[L2[i]] = pr[p] - n
  BY <1>5, <1>6
<1>10. \A k, j \in 1..Len(L2) : k < j => Ends(pr2, L2[k]) < L2[j]
  <2> SUFFICES ASSUME NEW k \in 1..Len(L), NEW j \in 1..Len(L), k < j
               PROVE  L2[k] + pr2[L2[k]] < L2[j]
    BY <1>6 DEF Ends
  <2>1. L[k] + pr[L[k]] < L[j]
    BY <1>1
  <2>2. L2[k] + pr2[L2[k]] = L[k] + pr[L[k]]
    <3>1. CASE k = i
      BY <1>0, <1>2, <1>9, <3>1
    <3>2. CASE k # i
      BY <1>8, <3>2
    <3> QED BY <3>1, <3>2
  <2>3. L2[j] >= L[j]
    BY <1>0, <1>1, <1>2, <1>8, <1>9
  <2>4. L2[j] \in Nat /\ L[j] \in Nat /\ L[k] + pr[L[k]] \in Nat
    BY <1>1, <1>6, PagesFacts, SMTT(20)
  <2> QED BY <2>1, <2>2, <2>3, <2>4
<1>11. \A j \in 1..Len(L2) : BlockOK(pr2, mk2, L2[j])
  <2> SUFFICES ASSUME NEW j \in 1..Len(L) PROVE BlockOK(pr2, mk2, L2[j])
    BY <1>6
  <2>1. CASE j = i
    <3>1. Run(p + n, pr[p] - n) \subseteq Run(p, pr[p])
      BY <1>2, InRun
    <3>2. p \notin Run(p + n, pr[p] - n)
      BY <1>2, InRun
    <3>3. \A q \in Run(p + n, pr[p] - n) : q \in mk2 => q = p + n
      BY <1>0, <1>3, <3>1, <3>2 DEF BlockOK
    <3>4. pr[p] - n > 0
      BY <1>2
    <3> QED BY <1>3, <1>4, <1>9, <2>1, <3>1, <3>3, <3>4 DEF BlockOK
  <2>2. CASE j # i
    <3>1. BlockOK(pr, mk, L[j]) /\ L2[j] = L[j] /\ pr2[L2[j]] = pr[L[j]]
      BY <1>8, <2>2 DEF ListOK
    <3>2. p + n \notin Run(L[j], pr[L[j]])
      BY <1>0, <1>1, <1>2, <2>2, InRun, SMTT(20)
    <3> QED BY <1>0, <3>1, <3>2 DEF BlockOK
  <2> QED BY <2>1, <2>2
<1>12. Cover(L2, pr2) = Cover(L, pr) \ Run(p, n)
  <2>1. \A x : x \in Cover(L2, pr2) <=>
           \E j \in 1..Len(L) : x \in Int /\ L2[j] <= x /\ x < L2[j] + pr2[L2[j]]
    BY <1>5, <1>6, InCover
  <2>2. \A x : x \in Cover(L, pr) <=>
           \E j \in 1..Len(L) : x \in Int /\ L[j] <= x /\ x < L[j] + pr[L[j]]
    BY <1>1, InCover
  <2>3. \A x : x \in Run(p, n) <=> x \in Int /\ p <= x /\ x < p + n
    BY <1>2, InRun
  <2>4. ASSUME NEW x \in Int, NEW j \in 1..Len(L), L2[j] <= x, x < L2[j] + pr2[L2[j]]
        PROVE  L[j] <= x /\ x < L[j] + pr[L[j]] /\ (x < p \/ p + n <= x)
    <3>1. CASE j = i
      BY <1>0, <1>2, <1>9, <2>4, <3>1
    <3>2. CASE j # i
      <4>1. L2[j] = L[j] /\ pr2[L2[j]] = pr[L[j]] /\ L[j] \in Nat /\ pr[L[j]] \in Nat
        BY <1>1, <1>8, <3>2
      <4>2. L[j] + pr[L[j]] < p \/ p + pr[p] < L[j]
        BY <1>0, <1>1, <3>2
      <4> QED BY <1>2, <2>4, <4>1, <4>2
    <3> QED BY <3>1, <3>2
  <2>5. ASSUME NEW x \in Int, NEW j \in 1..Len(L), L[j] <= x, x < L[j] + pr[L[j]], x < p \/ p + n <= x
        PROVE  L2[j] <= x /\ x < L2[j] + pr2[L2[j]]
    <3>1. CASE j = i
      BY <1>0, <1>2, <1>9, <2>5, <3>1
    <3>2. CASE j # i
      BY <1>8, <2>5, <3>2
    <3> QED BY <3>1, <3>2
  <2>6. ASSUME NEW x PROVE x \in Cover(L2, pr2) <=> x \in Cover(L, pr) /\ x \notin Run(p, n)
    <3>1. ASSUME x \in Cover(L2, pr2) PROVE x \in Cover(L, pr) /\ x \notin Run(p, n)
      <4>1. PICK j \in 1..Len(L) : x \in Int /\ L2[j] <= x /\ x < L2[j] + pr2[L2[j]]
        BY <2>1, <3>1
      <4>2. L[j] <= x /\ x < L[j] + pr[L[j]] /\ (x < p \/ p + n <= x)
        BY <2>4, <4>1
      <4>3. x \notin Run(p, n)
        BY <1>2, <2>3, <4>1, <4>2
      <4> QED BY <2>2, <4>1, <4>2, <4>3
    <3>2. ASSUME x \in Cover(L, pr), x \notin Run(p, n) PROVE x \in Cover(L2, pr2)
      <4>1. PICK j \in 1..Len(L) : x \in Int /\ L[j] <= x /\ x < L[j] + pr[L[j]]
        BY <2>2, <3>2
      <4>2. x < p \/ p + n <= x
        BY <1>2, <2>3, <3>2, <4>1
      <4>3. L2[j] <= x /\ x < L2[j] + pr2[L2[j]]
        BY <2>5, <4>1, <4>2
      <4> QED BY <2>1, <4>1, <4>3
    <3> QED BY <3>1, <3>2
  <2> QED BY <2>6
<1>13. Run(p, n) \subseteq Run(p, pr[p]) /\ Run(p, pr[p]) \subseteq Cover(L, pr)
  <2>1. Run(p, n) \subseteq Run(p, pr[p])
    BY <1>2, InRun
  <2> QED BY <1>0, <1>1, <2>1, SMTT(20) DEF Cover, Range
<1>14. Run(p, n) \cap mk2 = {}
  <2>1. p + n \notin Run(p, n)
    BY <1>2, InRun
  <2> QED BY <1>0, <1>3, <1>13, <2>1 DEF BlockOK
<1>15. \A x \in Pages \ Cover(L, pr) : pr2[x] = pr[x] /\ (x \in mk2 <=> x \in mk)
  <2>1. p + n \in Cover(L, pr) /\ p \in Cover(L, pr)
    BY <1>2, <1>4, <1>13, InRun
  <2> QED BY <1>0, <1>5, <2>1
<1> QED BY <1>0, <1>5, <1>6, <1>10, <1>11, <1>12, <1>13, <1>14, <1>15 DEF ListOK, Tables, Shrunk

\* Block i leaves the list.
LEMMA ListRemove ==
    ASSUME NEW L, NEW pr \in [Pages -> Nat], NEW mk, ListOK(L, pr, mk),
           NEW i \in 1..Len(L), NEW L2, L2 = RemoveAt(L, i)
    PROVE  /\ ListOK(L2, pr, mk)
           /\ Cover(L2, pr) = Cover(L, pr) \ Run(L[i], pr[L[i]])
           /\ Run(L[i], pr[L[i]]) \subseteq Cover(L, pr)
<1>1. /\ L \in Seq(Pages) /\ Len(L) \in Nat
      /\ \A j \in 1..Len(L) : L[j] \in Pages /\ L[j] \in Nat /\ pr[L[j]] \in Nat \ {0}
      /\ \A k, j \in 1..Len(L) : k < j => L[k] + pr[L[k]] < L[j]
      /\ \A k, j \in 1..Len(L) : k = j \/ L[k] + pr[L[k]] < L[j] \/ L[j] + pr[L[j]] < L[k]
  BY ListFacts
<1>2. /\ L2 \in Seq(Pages) /\ Len(L2) = Len(L) - 1
      /\ \A j \in 1..(Len(L) - 1) : L2[j] = IF j < i THEN L[j] ELSE L[j + 1]
  <2>1. L \in Seq(Pages)
    BY <1>1
  <2> QED BY <2>1, RemoveAtFacts, Zenon
<1>3. \A j \in 1..Len(L2) : \E k \in 1..Len(L) : k # i /\ L2[j] = L[k] /\ k = IF j < i THEN j ELSE j + 1
  <2> SUFFICES ASSUME NEW j \in 1..(Len(L) - 1)
               PROVE  \E k \in 1..Len(L) : k # i /\ L2[j] = L[k] /\ k = IF j < i THEN j ELSE j + 1
    BY <1>2
  <2>1. CASE j < i
    <3>0. Len(L) \in Nat
      BY <1>1
    <3>1. j \in 1..Len(L) /\ j # i
      BY <2>1, <3>0
    <3>2. L2[j] = L[j]
      BY <1>2, <2>1
    <3> QED BY <2>1, <3>1, <3>2
  <2>2. CASE ~(j < i)
    <3>1. j + 1 \in 1..Len(L) /\ j + 1 # i /\ L2[j] = L[j + 1]
      BY <1>1, <1>2, <2>2
    <3> QED BY <2>2, <3>1
  <2> QED BY <2>1, <2>2
<1>4. \A k \in 1..Len(L) : k # i => \E j \in 1..Len(L2) : L2[j] = L[k]
  <2> SUFFICES ASSUME NEW k \in 1..Len(L), k # i PROVE \E j \in 1..Len(L2) : L2[j] = L[k]
    OBVIOUS
  <2>1. CASE k < i
    <3>1. k \in 1..(Len(L) - 1)
      BY <1>1, <2>1
    <3>2. L2[k] = L[k]
      BY <1>2, <2>1, <3>1
    <3> QED BY <1>2, <3>1, <3>2
  <2>2. CASE k > i
    <3>1. k - 1 \in 1..Len(L2) /\ ~(k - 1 < i) /\ (k - 1) + 1 = k
      BY <1>1, <1>2, <2>2
    <3>2. L2[k - 1] = L[(k - 1) + 1]
      BY <1>2, <3>1
    <3> QED BY <3>1, <3>2
  <2>3. k < i \/ k > i
    BY <1>1
  <2> QED BY <2>1, <2>2, <2>3
<1>5. \A j \in 1..Len(L2) : BlockOK(pr, mk, L2[j])
  BY <1>3 DEF ListOK
<1>6. \A k, j \in 1..Len(L2) : k < j => Ends(pr, L2[k]) < L2[j]
  <2> SUFFICES ASSUME NEW k \in 1..Len(L2), NEW j \in 1..Len(L2), k < j
               PROVE  L2[k] + pr[L2[k]] < L2[j]
    BY DEF Ends
  <2>1. PICK a \in 1..Len(L) : L2[k] = L[a] /\ a = IF k < i THEN k ELSE k + 1
    BY <1>3
  <2>2. PICK b \in 1..Len(L) : L2[j] = L[b] /\ b = IF j < i THEN j ELSE j + 1
    BY <1>3
  <2>3. a < b
    BY <1>1, <2>1, <2>2
  <2> QED BY <1>1, <2>1, <2>2, <2>3
<1>7. Cover(L2, pr) = Cover(L, pr) \ Run(L[i], pr[L[i]])
  <2>1. \A x : x \in Cover(L2, pr) <=>
           \E j \in 1..Len(L2) : x \in Int /\ L2[j] <= x /\ x < L2[j] + pr[L2[j]]
    BY <1>2, InCover
  <2>2. \A x : x \in Cover(L, pr) <=>
           \E j \in 1..Len(L) : x \in Int /\ L[j] <= x /\ x < L[j] + pr[L[j]]
    BY <1>1, InCover
  <2>3. L[i] \in Nat /\ pr[L[i]] \in Nat
    BY <1>1
  <2>4. \A x : x \in Run(L[i], pr[L[i]]) <=> x \in Int /\ L[i] <= x /\ x < L[i] + pr[L[i]]
    BY <2>3, InRun
  <2>5. ASSUME NEW x \in Cover(L2, pr) PROVE x \in Cover(L, pr) /\ x \notin Run(L[i], pr[L[i]])
    <3>1. PICK j \in 1..Len(L2) : x \in Int /\ L2[j] <= x /\ x < L2[j] + pr[L2[j]]
      BY <2>1
    <3>2. PICK k \in 1..Len(L) : k # i /\ L2[j] = L[k]
      BY <1>3
    <3>3. L[k] + pr[L[k]] < L[i] \/ L[i] + pr[L[i]] < L[k]
      BY <1>1, <3>2
    <3>4. L[k] <= x /\ x < L[k] + pr[L[k]] /\ L[k] \in Nat /\ pr[L[k]] \in Nat
      BY <1>1, <3>1, <3>2
    <3>5. x \notin Run(L[i], pr[L[i]])
      BY <2>3, <2>4, <3>1, <3>3, <3>4
    <3> QED BY <2>2, <3>1, <3>4, <3>5
  <2>6. ASSUME NEW x \in Cover(L, pr), x \notin Run(L[i], pr[L[i]]) PROVE x \in Cover(L2, pr)
    <3>1. PICK k \in 1..Len(L) : x \in Int /\ L[k] <= x /\ x < L[k] + pr[L[k]]
      BY <2>2
    <3>2. k # i
      BY <2>4, <2>6, <3>1
    <3>3. PICK j \in 1..Len(L2) : L2[j] = L[k]
      BY <1>4, <3>2
    <3> QED BY <2>1, <3>1, <3>3
  <2> QED BY <2>5, <2>6
<1>8. Run(L[i], pr[L[i]]) \subseteq Cover(L, pr)
  <2>1. L[i] \in Range(L)
    BY <1>1, RangeIs
  <2> QED BY <2>1 DEF Cover
<1> QED BY <1>2, <1>5, <1>6, <1>7, <1>8 DEF ListOK

\* Block b comes before the i-th.
Inserts(L, pr, i, b, L2) ==
    /\ \A j \in 1..Len(L) : IF j < i THEN Ends(pr, L[j]) < b ELSE Ends(pr, b) < L[j]
    /\ L2 \in Seq(Pages) /\ Len(L2) = Len(L) + 1
    /\ \A j \in 1..(Len(L) + 1) :
         L2[j] = IF j < i THEN L[j] ELSE IF j = i THEN b ELSE L[j - 1]

Inserted(L, pr, mk, i, b, L2) ==
    ListOK(L2, pr, mk) /\ Cover(L2, pr) = Cover(L, pr) \cup Run(b, pr[b])

LEMMA ListInsert ==
    ASSUME NEW L, NEW pr \in [Pages -> Nat], NEW mk, ListOK(L, pr, mk),
           NEW i \in 1..(Len(L) + 1), NEW b, BlockOK(pr, mk, b),
           NEW L2, Inserts(L, pr, i, b, L2)
    PROVE  Inserted(L, pr, mk, i, b, L2)
<1> USE DEF Inserts
<1>1. /\ L \in Seq(Pages) /\ Len(L) \in Nat
      /\ \A j \in 1..Len(L) : L[j] \in Pages /\ L[j] \in Nat /\ pr[L[j]] \in Nat \ {0}
      /\ \A k, j \in 1..Len(L) : k < j => L[k] + pr[L[k]] < L[j]
  BY ListFacts
<1>2. b \in Pages /\ b \in Nat /\ pr[b] \in Nat
  BY PagesFacts DEF BlockOK
<1>3. \A j \in 1..Len(L2) :
         \/ j = i /\ L2[j] = b
         \/ \E k \in 1..Len(L) : L2[j] = L[k] /\ k = IF j < i THEN j ELSE j - 1
  <2> SUFFICES ASSUME NEW j \in 1..(Len(L) + 1), j # i
               PROVE  \E k \in 1..Len(L) : L2[j] = L[k] /\ k = IF j < i THEN j ELSE j - 1
    BY <1>1
  <2>1. PICK k : k = IF j < i THEN j ELSE j - 1
    OBVIOUS
  <2>2. k \in 1..Len(L) /\ L2[j] = L[k]
    BY <1>1, <2>1, SMTT(20)
  <2> QED BY <2>1, <2>2
<1>4. \A k \in 1..Len(L) : \E j \in 1..Len(L2) : L2[j] = L[k]
  <2> SUFFICES ASSUME NEW k \in 1..Len(L) PROVE \E j \in 1..Len(L2) : L2[j] = L[k]
    OBVIOUS
  <2>1. PICK j : j = IF k < i THEN k ELSE k + 1
    OBVIOUS
  <2>2. CASE k < i
    <3>1. k \in 1..(Len(L) + 1) /\ L2[k] = L[k]
      BY <1>1, <2>2
    <3> QED BY <3>1
  <2>3. CASE ~(k < i)
    <3>1. j \in 1..(Len(L) + 1) /\ ~(j < i) /\ j # i /\ j - 1 = k
      BY <1>1, <2>1, <2>3
    <3> QED BY <3>1
  <2> QED BY <2>2, <2>3
<1>5. i \in 1..Len(L2) /\ L2[i] = b
  BY <1>1
<1>6. \A j \in 1..Len(L2) : BlockOK(pr, mk, L2[j])
  BY <1>3 DEF ListOK
<1>7. \A k, j \in 1..Len(L2) : k < j => Ends(pr, L2[k]) < L2[j]
  <2> SUFFICES ASSUME NEW k \in 1..Len(L2), NEW j \in 1..Len(L2), k < j
               PROVE  Ends(pr, L2[k]) < L2[j]
    OBVIOUS
  <2>1. CASE k = i
    <3>1. PICK c \in 1..Len(L) : L2[j] = L[c] /\ c = IF j < i THEN j ELSE j - 1
      BY <1>1, <1>3, <2>1
    <3>2. ~(c < i)
      BY <1>1, <2>1, <3>1
    <3> QED BY <1>5, <2>1, <3>1, <3>2
  <2>2. CASE j = i
    <3>1. PICK c \in 1..Len(L) : L2[k] = L[c] /\ c = IF k < i THEN k ELSE k - 1
      BY <1>1, <1>3, <2>2
    <3>2. c < i
      BY <1>1, <2>2, <3>1
    <3> QED BY <1>5, <2>2, <3>1, <3>2
  <2>3. CASE k # i /\ j # i
    <3>1. PICK c \in 1..Len(L) : L2[k] = L[c] /\ c = IF k < i THEN k ELSE k - 1
      BY <1>3, <2>3
    <3>2. PICK d \in 1..Len(L) : L2[j] = L[d] /\ d = IF j < i THEN j ELSE j - 1
      BY <1>3, <2>3
    <3>3. c < d
      BY <1>1, <2>3, <3>1, <3>2, SMTT(20)
    <3> QED BY <1>1, <3>1, <3>2, <3>3 DEF Ends
  <2> QED BY <2>1, <2>2, <2>3
<1>8. Cover(L2, pr) = Cover(L, pr) \cup Run(b, pr[b])
  <2>1. \A x : x \in Cover(L2, pr) <=>
           \E j \in 1..Len(L2) : x \in Int /\ L2[j] <= x /\ x < L2[j] + pr[L2[j]]
    BY InCover
  <2>2. \A x : x \in Cover(L, pr) <=>
           \E j \in 1..Len(L) : x \in Int /\ L[j] <= x /\ x < L[j] + pr[L[j]]
    BY <1>1, InCover
  <2>3. \A x : x \in Run(b, pr[b]) <=> x \in Int /\ b <= x /\ x < b + pr[b]
    BY <1>2, InRun
  <2>4. ASSUME NEW x \in Cover(L2, pr) PROVE x \in Cover(L, pr) \cup Run(b, pr[b])
    <3>1. PICK j \in 1..Len(L2) : x \in Int /\ L2[j] <= x /\ x < L2[j] + pr[L2[j]]
      BY <2>1
    <3>2. L2[j] = b \/ \E k \in 1..Len(L) : L2[j] = L[k]
      BY <1>3
    <3> QED BY <2>2, <2>3, <3>1, <3>2
  <2>5. ASSUME NEW x \in Cover(L, pr) PROVE x \in Cover(L2, pr)
    <3>1. PICK k \in 1..Len(L) : x \in Int /\ L[k] <= x /\ x < L[k] + pr[L[k]]
      BY <2>2
    <3>2. PICK j \in 1..Len(L2) : L2[j] = L[k]
      BY <1>4
    <3> QED BY <2>1, <3>1, <3>2
  <2>6. ASSUME NEW x \in Run(b, pr[b]) PROVE x \in Cover(L2, pr)
    BY <1>5, <2>1, <2>3
  <2> QED BY <2>4, <2>5, <2>6
<1> QED BY <1>6, <1>7, <1>8 DEF ListOK, Inserted

-----------------------------------------------------------------------------
(* The partition of the pages into free blocks and blocks of callers.       *)

HeldOf(H) == UNION {Run(x[1], x[2]) : x \in H}
Separate(H) == \A x, y \in H : x # y => x[1] + x[2] <= y[1] \/ y[1] + y[2] <= x[1]
Split(P, F, H) ==
    /\ H \subseteq Pages \X (Nat \ {0}) /\ IsFiniteSet(F) /\ P \subseteq Pages
    /\ F \cap HeldOf(H) = {} /\ F \cup HeldOf(H) = P /\ Separate(H)

LEMMA InHeld ==
    ASSUME NEW H, H \subseteq Pages \X (Nat \ {0}), NEW x \in H
    PROVE  /\ x = <<x[1], x[2]>> /\ x[1] \in Pages /\ x[1] \in Nat /\ x[2] \in Nat \ {0}
           /\ Run(x[1], x[2]) \subseteq HeldOf(H)
           /\ x[1] \in Run(x[1], x[2])
<1>1. x = <<x[1], x[2]>> /\ x[1] \in Pages /\ x[2] \in Nat \ {0}
  OBVIOUS
<1>2. x[1] \in Nat
  BY <1>1, PagesFacts
<1>3. x[1] \in Run(x[1], x[2])
  BY <1>1, <1>2, InRun
<1> QED BY <1>1, <1>2, <1>3 DEF HeldOf

\* Runs without a common page follow each other.
LEMMA RunsApart ==
    ASSUME NEW p \in Nat, NEW n \in Nat \ {0}, NEW q \in Nat, NEW m \in Nat \ {0}
    PROVE  Run(p, n) \cap Run(q, m) = {} <=> p + n <= q \/ q + m <= p
<1>1. \A x : x \in Run(p, n) <=> x \in Int /\ p <= x /\ x < p + n
  BY InRun
<1>2. \A x : x \in Run(q, m) <=> x \in Int /\ q <= x /\ x < q + m
  BY InRun
<1>3. ASSUME p + n <= q \/ q + m <= p PROVE Run(p, n) \cap Run(q, m) = {}
  <2> SUFFICES ASSUME NEW x, x \in Run(p, n), x \in Run(q, m) PROVE FALSE
    OBVIOUS
  <2>1. x \in Int /\ p <= x /\ x < p + n /\ q <= x /\ x < q + m
    BY <1>1, <1>2
  <2> QED BY <1>3, <2>1
<1>4. ASSUME ~(p + n <= q \/ q + m <= p) PROVE Run(p, n) \cap Run(q, m) # {}
  <2>1. CASE p <= q
    <3>1. q \in Run(p, n) /\ q \in Run(q, m)
      BY <1>1, <1>2, <1>4, <2>1
    <3> QED BY <3>1
  <2>2. CASE q <= p
    <3>1. p \in Run(p, n) /\ p \in Run(q, m)
      BY <1>1, <1>2, <1>4, <2>2
    <3> QED BY <3>1
  <2> QED BY <2>1, <2>2
<1> QED BY <1>3, <1>4

\* Free pages become a block of a caller, or the other way round.
Takes(F, H, p, n, F2, H2) == F2 = F \ Run(p, n) /\ H2 = H \cup {<<p, n>>}
Gives(F, H, p, n, F2, H2) == F2 = F \cup Run(p, n) /\ H2 = H \ {<<p, n>>}

LEMMA SplitTake ==
    ASSUME NEW P, NEW F, NEW H, Split(P, F, H),
           NEW p \in Pages, NEW n \in Nat \ {0}, Run(p, n) \subseteq F,
           NEW F2, NEW H2, Takes(F, H, p, n, F2, H2)
    PROVE  /\ Split(P, F2, H2) /\ HeldOf(H2) = HeldOf(H) \cup Run(p, n)
           /\ Cardinality(F2) = Cardinality(F) - n /\ Cardinality(F) \in Nat
<1> USE DEF Takes
<1>1. p \in Nat
  BY PagesFacts
<1>2. IsFiniteSet(Run(p, n)) /\ Cardinality(Run(p, n)) = n
  BY <1>1, CardRun
<1>3. IsFiniteSet(F2) /\ Cardinality(F2) = Cardinality(F) - n /\ Cardinality(F) \in Nat
  BY <1>2, CardMinus DEF Split
<1>4. HeldOf(H2) = HeldOf(H) \cup Run(p, n)
  <2>1. <<p, n>>[1] = p /\ <<p, n>>[2] = n
    OBVIOUS
  <2>2. ASSUME NEW x PROVE x \in HeldOf(H2) <=> x \in HeldOf(H) \/ x \in Run(p, n)
    <3>1. x \in HeldOf(H2) <=> \E y \in H2 : x \in Run(y[1], y[2])
      BY DEF HeldOf
    <3>2. x \in HeldOf(H) <=> \E y \in H : x \in Run(y[1], y[2])
      BY DEF HeldOf
    <3> QED BY <2>1, <3>1, <3>2
  <2> QED BY <2>2
<1>5. H2 \subseteq Pages \X (Nat \ {0})
  BY DEF Split
<1>6. Separate(H2)
  <2>1. ASSUME NEW x \in H PROVE x[1] + x[2] <= p \/ p + n <= x[1]
    <3>1. x[1] \in Nat /\ x[2] \in Nat \ {0} /\ Run(x[1], x[2]) \subseteq HeldOf(H)
      BY InHeld DEF Split
    <3>2. Run(x[1], x[2]) \cap Run(p, n) = {}
      BY <3>1 DEF Split
    <3> QED BY <1>1, <3>1, <3>2, RunsApart
  <2>2. \A x, y \in H : x # y => x[1] + x[2] <= y[1] \/ y[1] + y[2] <= x[1]
    BY DEF Split, Separate
  <2>3. <<p, n>>[1] = p /\ <<p, n>>[2] = n
    OBVIOUS
  <2>4. PICK z : z = <<p, n>>
    OBVIOUS
  <2>5. ASSUME NEW x \in H2, NEW y \in H2, x # y PROVE x[1] + x[2] <= y[1] \/ y[1] + y[2] <= x[1]
    <3>1. CASE x \in H /\ y \in H
      BY <2>2, <2>5, <3>1
    <3>2. CASE x = z /\ y \in H
      BY <2>1, <2>3, <2>4, <3>2
    <3>3. CASE y = z /\ x \in H
      BY <2>1, <2>3, <2>4, <3>3
    <3> QED BY <2>4, <2>5, <3>1, <3>2, <3>3
  <2> QED BY <2>5 DEF Separate
<1>7. F2 \cap HeldOf(H2) = {} /\ F2 \cup HeldOf(H2) = P
  BY <1>4 DEF Split
<1> QED BY <1>3, <1>4, <1>5, <1>6, <1>7 DEF Split

LEMMA SplitGive ==
    ASSUME NEW P, NEW F, NEW H, Split(P, F, H), NEW p, NEW n, <<p, n>> \in H,
           NEW F2, NEW H2, Gives(F, H, p, n, F2, H2)
    PROVE  /\ Split(P, F2, H2) /\ HeldOf(H2) = HeldOf(H) \ Run(p, n)
           /\ Run(p, n) \subseteq P /\ Run(p, n) \subseteq HeldOf(H)
           /\ F \cap Run(p, n) = {}
           /\ Cardinality(F2) = Cardinality(F) + n /\ Cardinality(F) \in Nat
<1> USE DEF Gives
<1>0. PICK z : z = <<p, n>>
  OBVIOUS
<1>1. p \in Nat /\ p \in Pages /\ n \in Nat \ {0} /\ z[1] = p /\ z[2] = n /\ z \in H
  BY <1>0, PagesFacts DEF Split
<1>2. Run(p, n) \subseteq HeldOf(H)
  BY <1>1 DEF HeldOf
<1>3. F \cap Run(p, n) = {} /\ Run(p, n) \subseteq P
  BY <1>2 DEF Split
<1>4. IsFiniteSet(Run(p, n)) /\ Cardinality(Run(p, n)) = n
  BY <1>1, CardRun
<1>5. IsFiniteSet(F2) /\ Cardinality(F2) = Cardinality(F) + n /\ Cardinality(F) \in Nat
  BY <1>3, <1>4, CardPlus DEF Split
<1>6. ASSUME NEW x \in H, x # z PROVE Run(x[1], x[2]) \cap Run(p, n) = {}
  <2>1. x[1] \in Nat /\ x[2] \in Nat \ {0}
    BY InHeld DEF Split
  <2>2. x[1] + x[2] <= p \/ p + n <= x[1]
    BY <1>1, <1>6 DEF Split, Separate
  <2> QED BY <1>1, <2>1, <2>2, RunsApart
<1>7. HeldOf(H2) = HeldOf(H) \ Run(p, n)
  <2>1. ASSUME NEW x PROVE x \in HeldOf(H2) <=> x \in HeldOf(H) /\ x \notin Run(p, n)
    <3>1. x \in HeldOf(H2) <=> \E y \in H : y # z /\ x \in Run(y[1], y[2])
      BY <1>0 DEF HeldOf
    <3>2. x \in HeldOf(H) <=> \E y \in H : x \in Run(y[1], y[2])
      BY DEF HeldOf
    <3> QED BY <1>1, <1>6, <3>1, <3>2
  <2> QED BY <2>1
<1>8. F2 \cap HeldOf(H2) = {} /\ F2 \cup HeldOf(H2) = P
  BY <1>2, <1>3, <1>7 DEF Split
<1>9. H2 \subseteq Pages \X (Nat \ {0}) /\ Separate(H2)
  BY DEF Split, Separate
<1> QED BY <1>2, <1>3, <1>5, <1>7, <1>8, <1>9 DEF Split

-----------------------------------------------------------------------------
(* The operations of the page allocator keep its invariant.                 *)

LEMMA LinkedIs ==
    /\ Linked = Cover(free_list, property) /\ HeldPages = HeldOf(held)
    /\ FreePages = IF Freeing THEN Cover(free_list, property) \cup Run(op.base, property[op.base])
                              ELSE Cover(free_list, property)
BY DEF Linked, Cover, Block, Run, HeldPages, HeldOf, FreePages, Freeing

LEMMA LinkedIsNext ==
    /\ Linked' = Cover(free_list', property') /\ HeldPages' = HeldOf(held')
    /\ FreePages' = IF op'.at \in {"merge", "insert"}
                    THEN Cover(free_list', property') \cup Run(op'.base, property'[op'.base])
                    ELSE Cover(free_list', property')
BY DEF Linked, Cover, Block, Run, HeldPages, HeldOf, FreePages

LEMMA PmmFacts ==
    ASSUME NEW P, PmmInv(P)
    PROVE  /\ property \in [Pages -> Nat] /\ pg_property \subseteq Pages
           /\ ListOK(free_list, property, pg_property)
           /\ free_list \in Seq(Pages) /\ Len(free_list) \in Nat
           /\ Split(P, FreePages, held)
           /\ pg_property \cap HeldOf(held) = {}
           /\ op.at # "merge" => nr_free = Cardinality(FreePages)
           /\ op.at = "merge" => nr_free + op.n = Cardinality(FreePages)
           /\ Cover(free_list, property) \subseteq FreePages
           /\ OpInv
<1>1. property \in [Pages -> Nat] /\ ListOK(free_list, property, pg_property)
  BY DEF PmmInv, PmmTypeOK
<1>2. Cover(free_list, property) \subseteq Pages
  BY <1>1, CoverInPages
<1>3. FreePages \subseteq Pages /\ Cover(free_list, property) \subseteq FreePages
  BY <1>2, LinkedIs DEF PmmInv, OpInv, FreeingOK, BlockOK
<1>4. IsFiniteSet(FreePages)
  BY <1>3, PagesFacts, FS_Subset
<1>5. held \subseteq Pages \X (Nat \ {0})
  BY DEF PmmInv, PmmTypeOK
<1>6. FreePages \cap HeldOf(held) = {} /\ FreePages \cup HeldOf(held) = P /\ Separate(held)
  BY LinkedIs DEF PmmInv, PartitionOf, Separate
<1>7. /\ P \subseteq Pages /\ pg_property \subseteq Pages /\ OpInv
      /\ pg_property \cap HeldOf(held) = {}
      /\ op.at # "merge" => nr_free = Cardinality(FreePages)
      /\ op.at = "merge" => nr_free + op.n = Cardinality(FreePages)
  BY LinkedIs DEF PmmInv, PmmTypeOK, PartitionOf
<1>8. free_list \in Seq(Pages) /\ Len(free_list) \in Nat
  BY <1>1 DEF ListOK
<1> QED BY <1>1, <1>3, <1>4, <1>5, <1>6, <1>7, <1>8 DEF Split

\* The first fit is one block.
LEMMA FirstFitFacts ==
    ASSUME NEW P, PmmInv(P), NEW n \in Nat, NEW i \in FirstFit(n)
    PROVE  /\ i \in 1..Len(free_list) /\ property[free_list[i]] >= n
           /\ FirstFitPage(n) = free_list[i]
<1>1. /\ property \in [Pages -> Nat] /\ free_list \in Seq(Pages) /\ Len(free_list) \in Nat
      /\ \A k \in 1..Len(free_list) : property[free_list[k]] \in Nat
  <2>1. property \in [Pages -> Nat] /\ ListOK(free_list, property, pg_property)
    BY PmmFacts
  <2> QED BY <2>1, ListFacts
<1>2. ASSUME NEW k \in FirstFit(n) PROVE k = i
  <2>1. k \in 1..Len(free_list) /\ i \in 1..Len(free_list) /\ k \in Nat /\ i \in Nat
    BY DEF FirstFit
  <2>2. ~(k < i)
    <3>1. k < i => k \in 1..(i - 1)
      BY <2>1
    <3> QED BY <1>1, <2>1, <3>1 DEF FirstFit
  <2>3. ~(i < k)
    <3>1. i < k => i \in 1..(k - 1)
      BY <2>1
    <3> QED BY <1>1, <2>1, <3>1 DEF FirstFit
  <2> QED BY <2>1, <2>2, <2>3
<1>3. FirstFit(n) = {i}
  BY <1>2
<1>4. i \in 1..Len(free_list) /\ property[free_list[i]] >= n /\ i \in Nat
  BY DEF FirstFit
<1>5. Min({i}) = i
  BY <1>4 DEF Min
<1> QED BY <1>3, <1>4, <1>5 DEF FirstFitPage

\* default_alloc_pages: the caller gets n pages of the free ones.
Allocated(P, n) ==
    /\ PmmInv(P)'
    /\ op = Idle /\ op' = Idle /\ failed' = FALSE /\ panic' = panic
    /\ FirstFitPage(n) \in Pages /\ Run(FirstFitPage(n), n) \subseteq FreePages
    /\ FreePages' = FreePages \ Run(FirstFitPage(n), n)
    /\ held' = held \cup {<<FirstFitPage(n), n>>}
    /\ \A x \in Pages \ P :
         property'[x] = property[x] /\ (x \in pg_property' <=> x \in pg_property)

LEMMA AllocKeeps ==
    ASSUME NEW P, PmmInv(P), NEW n \in Nat \ {0}, Alloc(n) PROVE Allocated(P, n)
<1>1. /\ property \in [Pages -> Nat] /\ pg_property \subseteq Pages
      /\ ListOK(free_list, property, pg_property)
      /\ free_list \in Seq(Pages) /\ Len(free_list) \in Nat
      /\ Split(P, FreePages, held) /\ pg_property \cap HeldOf(held) = {}
      /\ op.at # "merge" => nr_free = Cardinality(FreePages)
      /\ OpInv
  BY PmmFacts
<1>2. PICK i \in FirstFit(n) :
        /\ op = Idle /\ op' = op /\ panic' = panic /\ failed' = FALSE /\ nr_free' = nr_free - n
        /\ held' = held \cup {<<free_list[i], n>>}
        /\ IF property[free_list[i]] > n
           THEN /\ property' = [property EXCEPT ![free_list[i] + n] = property[free_list[i]] - n]
                /\ pg_property' = (pg_property \cup {free_list[i] + n}) \ {free_list[i]}
                /\ free_list' = [free_list EXCEPT ![i] = free_list[i] + n]
           ELSE /\ pg_property' = pg_property \ {free_list[i]}
                /\ free_list' = RemoveAt(free_list, i)
                /\ property' = property
  BY DEF Alloc
<1>3. /\ i \in 1..Len(free_list) /\ property[free_list[i]] >= n
      /\ FirstFitPage(n) = free_list[i]
  BY FirstFitFacts
<1>4. PICK p : p = free_list[i]
  OBVIOUS
<1>5. p \in Pages /\ p \in Nat /\ property[p] \in Nat /\ property[p] >= n
  BY <1>1, <1>3, <1>4, ListFacts
<1>6. /\ FreePages = Cover(free_list, property)
      /\ FreePages' = Cover(free_list', property') /\ HeldPages' = HeldOf(held')
  BY <1>2, LinkedIs, LinkedIsNext DEF Idle, Freeing
<1>7. /\ property' \in [Pages -> Nat] /\ pg_property' \subseteq Pages
      /\ ListOK(free_list', property', pg_property')
      /\ FreePages' = FreePages \ Run(p, n) /\ Run(p, n) \subseteq FreePages
      /\ Run(p, n) \cap pg_property' = {}
      /\ \A x \in Pages \ FreePages :
            property'[x] = property[x] /\ (x \in pg_property' <=> x \in pg_property)
  <2>1. CASE property[p] > n
    <3>1. /\ property' = [property EXCEPT ![free_list[i] + n] = property[free_list[i]] - n]
          /\ pg_property' = (pg_property \cup {free_list[i] + n}) \ {free_list[i]}
          /\ free_list' = [free_list EXCEPT ![i] = free_list[i] + n]
          /\ n < property[free_list[i]]
      BY <1>2, <1>4, <1>5, <2>1
    <3>2. /\ property' \in [Pages -> Nat] /\ pg_property' \subseteq Pages
          /\ ListOK(free_list', property', pg_property')
          /\ Cover(free_list', property') = Cover(free_list, property) \ Run(free_list[i], n)
          /\ Run(free_list[i], n) \subseteq Cover(free_list, property)
          /\ Run(free_list[i], n) \cap pg_property' = {}
          /\ \A x \in Pages \ Cover(free_list, property) :
               property'[x] = property[x] /\ (x \in pg_property' <=> x \in pg_property)
      <4>1. /\ property \in [Pages -> Nat] /\ pg_property \subseteq Pages
            /\ ListOK(free_list, property, pg_property) /\ i \in 1..Len(free_list)
            /\ n < property[free_list[i]]
        BY <1>1, <1>3, <3>1
      <4>2. Shrinks(free_list, property, pg_property, i, n, free_list', property', pg_property')
        BY <3>1 DEF Shrinks
      <4>3. Shrunk(free_list, property, pg_property, i, n, free_list', property', pg_property')
        BY <4>1, <4>2, ListShrink
      <4> QED BY <4>3 DEF Shrunk, Tables
    <3> QED BY <1>4, <1>6, <3>2
  <2>2. CASE property[p] = n
    <3>1. /\ pg_property' = pg_property \ {p} /\ property' = property
          /\ free_list' = RemoveAt(free_list, i)
      BY <1>2, <1>4, <1>5, <2>2
    <3>2. /\ ListOK(free_list', property, pg_property)
          /\ Cover(free_list', property) = Cover(free_list, property) \ Run(p, n)
          /\ Run(p, n) \subseteq Cover(free_list, property)
      BY <1>1, <1>3, <1>4, <2>2, <3>1, ListRemove
    <3>3. ListOK(free_list', property, pg_property')
      <4>1. Untouched(Cover(free_list', property), property, pg_property, property, pg_property')
        BY <3>1 DEF Untouched
      <4> QED BY <1>1, <3>2, <4>1, ListFrame
    <3>4. Run(p, n) \cap pg_property' = {}
      BY <1>1, <1>3, <1>4, <2>2, <3>1 DEF ListOK, BlockOK
    <3>5. p \in Run(p, n)
      BY <1>5, InRun
    <3> QED BY <1>1, <1>6, <3>1, <3>2, <3>3, <3>4, <3>5
  <2> QED BY <1>5, <2>1, <2>2
<1>8. /\ Split(P, FreePages', held') /\ HeldOf(held') = HeldOf(held) \cup Run(p, n)
      /\ Cardinality(FreePages') = Cardinality(FreePages) - n /\ Cardinality(FreePages) \in Nat
  <2>1. held' = held \cup {<<p, n>>}
    BY <1>2, <1>4
  <2>2. /\ Split(P, FreePages, held) /\ p \in Pages /\ Run(p, n) \subseteq FreePages
        /\ FreePages' = FreePages \ Run(p, n)
    BY <1>1, <1>5, <1>7
  <2>3. Takes(FreePages, held, p, n, FreePages', held')
    BY <2>1, <2>2 DEF Takes
  <2> QED BY <2>2, <2>3, SplitTake
<1>9. pg_property' \cap HeldOf(held') = {}
  BY <1>1, <1>7, <1>8 DEF Split
<1>10. nr_free = Cardinality(FreePages)
  BY <1>1, <1>2 DEF Idle
<1>11. PmmTypeOK'
  <2>1. nr_free' \in Int
    BY <1>2, <1>8, <1>10
  <2>2. held' \subseteq Pages \X (Nat \ {0}) /\ failed' \in BOOLEAN
    BY <1>2, <1>8 DEF Split
  <2> QED BY <1>7, <2>1, <2>2 DEF PmmTypeOK
<1>12. OpInv'
  BY <1>1, <1>2 DEF OpInv, Freeing, Idle
<1>13. PartitionOf(P)'
  BY <1>2, <1>6, <1>8, <1>10 DEF PartitionOf, Split, Separate
<1>14. PmmInv(P)'
  BY <1>1, <1>2, <1>6, <1>7, <1>9, <1>11, <1>12, <1>13 DEF PmmInv, Split, Idle
<1>15. FreePages \subseteq P
  BY <1>1 DEF Split
<1> QED BY <1>2, <1>3, <1>4, <1>5, <1>7, <1>14, <1>15 DEF Allocated

\* default_free_pages begins: the block of the caller counts as free.
Freed(P, b, n) ==
    /\ PmmInv(P)'
    /\ op = Idle /\ op'.at = "merge" /\ failed' = FALSE /\ panic' = panic
    /\ b \in Pages /\ n \in Nat \ {0} /\ Run(b, n) \cap FreePages = {}
    /\ FreePages' = FreePages \cup Run(b, n)
    /\ held' = held \ {<<b, n>>}
    /\ \A x \in Pages \ P :
         property'[x] = property[x] /\ (x \in pg_property' <=> x \in pg_property)

LEMMA FreeBeginKeeps ==
    ASSUME NEW P, PmmInv(P), NEW b, NEW n, <<b, n>> \in held, FreeBegin(b, n)
    PROVE  Freed(P, b, n)
<1>1. /\ property \in [Pages -> Nat] /\ pg_property \subseteq Pages
      /\ ListOK(free_list, property, pg_property)
      /\ free_list \in Seq(Pages) /\ Len(free_list) \in Nat
      /\ Split(P, FreePages, held) /\ pg_property \cap HeldOf(held) = {}
      /\ op.at # "merge" => nr_free = Cardinality(FreePages)
      /\ OpInv
  BY PmmFacts
<1>2. /\ op = Idle /\ failed' = FALSE /\ free_list' = free_list /\ nr_free' = nr_free
      /\ panic' = IF (b..(b + n - 1)) \cap pg_property = {} THEN panic ELSE "assert"
      /\ property' = [property EXCEPT ![b] = n]
      /\ pg_property' = pg_property \cup {b} /\ held' = held \ {<<b, n>>}
      /\ op' = [at |-> "merge", base |-> b, le |-> 1, n |-> n]
  BY DEF FreeBegin, Assert_
<1>3. /\ op.at = "none" /\ op'.at = "merge" /\ op'.base = b /\ op'.le = 1 /\ op'.n = n
  BY <1>2 DEF Idle
<1>4. b \in Pages /\ b \in Nat /\ n \in Nat \ {0} /\ b \in Run(b, n)
  <2>1. b \in Pages /\ n \in Nat \ {0}
    BY <1>1 DEF Split
  <2>2. b \in Nat
    BY <2>1, PagesFacts
  <2> QED BY <2>1, <2>2, InRun
<1>5. PICK F2 : F2 = FreePages \cup Run(b, n)
  OBVIOUS
<1>6. /\ Split(P, F2, held') /\ HeldOf(held') = HeldOf(held) \ Run(b, n)
      /\ Run(b, n) \subseteq P /\ Run(b, n) \subseteq HeldOf(held)
      /\ FreePages \cap Run(b, n) = {}
      /\ Cardinality(F2) = Cardinality(FreePages) + n /\ Cardinality(FreePages) \in Nat
  <2>1. Gives(FreePages, held, b, n, F2, held')
    BY <1>2, <1>5 DEF Gives
  <2> QED BY <1>1, <2>1, SplitGive
<1>7. FreePages = Cover(free_list, property)
  BY <1>3, LinkedIs DEF Freeing
<1>8. property' \in [Pages -> Nat] /\ property'[b] = n /\ \A x \in Pages : x # b => property'[x] = property[x]
  BY <1>1, <1>2, <1>4
<1>9. /\ ListOK(free_list', property', pg_property')
      /\ Cover(free_list', property') = Cover(free_list, property)
  <2>1. b \notin Cover(free_list, property) /\ Cover(free_list, property) \subseteq Pages
    BY <1>1, <1>4, <1>6, <1>7, CoverInPages
  <2>2. Untouched(Cover(free_list, property), property, pg_property, property', pg_property')
    BY <1>2, <1>8, <2>1 DEF Untouched
  <2> QED BY <1>1, <1>2, <1>8, <2>2, ListFrame
<1>10. FreePages' = F2 /\ HeldPages' = HeldOf(held')
  BY <1>3, <1>5, <1>7, <1>8, <1>9, LinkedIsNext
<1>11. panic' = panic
  BY <1>1, <1>2, <1>6 DEF Run
<1>12. pg_property' \cap HeldOf(held') = {}
  BY <1>1, <1>2, <1>4, <1>6
<1>13. PmmTypeOK'
  <2>1. nr_free' \in Int /\ failed' \in BOOLEAN
    BY <1>2 DEF PmmInv, PmmTypeOK
  <2>2. held' \subseteq Pages \X (Nat \ {0})
    BY <1>6 DEF Split
  <2>3. pg_property' \subseteq Pages
    BY <1>1, <1>2, <1>4
  <2> QED BY <1>8, <2>1, <2>2, <2>3 DEF PmmTypeOK
<1>14. OpInv'
  <2>1. op' \in OpType
    BY <1>2, <1>4 DEF OpType
  <2>2. BlockOK(property', pg_property', b)
    <3>1. Run(b, n) \subseteq Pages
      BY <1>1, <1>6 DEF Split
    <3>2. \A q \in Run(b, n) : q \in pg_property' => q = b
      BY <1>1, <1>2, <1>6
    <3> QED BY <1>4, <1>8, <3>1, <3>2 DEF BlockOK
  <2>3. ASSUME NEW i \in 1..Len(free_list)
        PROVE  Ends(property', free_list[i]) <= b \/ Ends(property', b) <= free_list[i]
    <3>1. free_list[i] \in Pages /\ free_list[i] \in Nat /\ property[free_list[i]] \in Nat \ {0}
      BY <1>1, ListFacts
    <3>2. Run(free_list[i], property[free_list[i]]) \subseteq Cover(free_list, property)
      BY <1>1, RangeIs DEF Cover
    <3>3. Run(free_list[i], property[free_list[i]]) \cap Run(b, n) = {}
      BY <1>6, <1>7, <3>2
    <3>4. free_list[i] + property[free_list[i]] <= b \/ b + n <= free_list[i]
      BY <1>4, <3>1, <3>3, RunsApart
    <3>5. free_list[i] # b
      BY <1>4, <3>1, <3>4
    <3> QED BY <1>8, <3>1, <3>4, <3>5 DEF Ends
  <2>4. \A i \in 1..Len(free_list) : ~(i < 1)
    OBVIOUS
  <2>5. 1 \in 1..(Len(free_list) + 1)
    BY <1>1
  <2>6. FreeingOK(op', free_list', property', pg_property')
    BY <1>2, <1>3, <2>2, <2>3, <2>4, <2>5 DEF FreeingOK
  <2> QED BY <1>3, <2>1, <2>6 DEF OpInv, Freeing
<1>15. nr_free' + op'.n = Cardinality(FreePages')
  BY <1>1, <1>2, <1>3, <1>6, <1>10
<1>16. PartitionOf(P)'
  BY <1>3, <1>6, <1>10 DEF PartitionOf, Split, Separate
<1>17. PmmInv(P)'
  BY <1>1, <1>9, <1>10, <1>12, <1>13, <1>14, <1>15, <1>16 DEF PmmInv, Split
<1>18. \A x \in Pages \ P : property'[x] = property[x] /\ (x \in pg_property' <=> x \in pg_property)
  BY <1>2, <1>4, <1>6, <1>8
<1> QED BY <1>2, <1>3, <1>4, <1>5, <1>6, <1>10, <1>11, <1>17, <1>18 DEF Freed

\* The block that is freed and those of the list have no page in common.
LEMMA FreeingFacts ==
    ASSUME NEW L, NEW pr \in [Pages -> Nat], NEW mk, ListOK(L, pr, mk),
           NEW o \in OpType, FreeingOK(o, L, pr, mk)
    PROVE  /\ o.base \in Pages /\ o.base \in Nat /\ pr[o.base] \in Nat \ {0} /\ o.le \in Nat
           /\ \A i \in 1..Len(L) : L[i] + pr[L[i]] <= o.base \/ o.base + pr[o.base] <= L[i]
           /\ Run(o.base, pr[o.base]) \cap Cover(L, pr) = {}
<1>1. o.base \in Pages /\ o.base \in Nat /\ pr[o.base] \in Nat \ {0} /\ o.le \in Nat
  BY PagesFacts DEF FreeingOK, BlockOK, OpType
<1>2. \A i \in 1..Len(L) : L[i] + pr[L[i]] <= o.base \/ o.base + pr[o.base] <= L[i]
  BY DEF FreeingOK, Ends
<1>3. /\ L \in Seq(Pages)
      /\ \A i \in 1..Len(L) : L[i] \in Nat /\ pr[L[i]] \in Nat \ {0}
  BY ListFacts
<1>4. Run(o.base, pr[o.base]) \cap Cover(L, pr) = {}
  <2> SUFFICES ASSUME NEW x, x \in Run(o.base, pr[o.base]), x \in Cover(L, pr) PROVE FALSE
    OBVIOUS
  <2>1. x \in Int /\ o.base <= x /\ x < o.base + pr[o.base]
    BY <1>1, InRun
  <2>2. PICK i \in 1..Len(L) : L[i] <= x /\ x < L[i] + pr[L[i]]
    BY <1>3, InCover
  <2>3. /\ L[i] \in Nat /\ pr[L[i]] \in Nat
        /\ L[i] + pr[L[i]] <= o.base \/ o.base + pr[o.base] <= L[i]
    BY <1>2, <1>3
  <2>4. PICK a, c, d, e : a = L[i] /\ c = pr[L[i]] /\ d = o.base /\ e = pr[o.base]
    OBVIOUS
  <2>5. /\ x \in Int /\ a \in Nat /\ c \in Nat /\ d \in Nat /\ e \in Nat
        /\ d <= x /\ x < d + e /\ a <= x /\ x < a + c /\ (a + c <= d \/ d + e <= a)
    BY <1>1, <2>1, <2>2, <2>3, <2>4
  <2> QED BY <2>5
<1> QED BY <1>1, <1>2, <1>4

\* Block i of the list and the one that is freed touch: lo is the lower one of
\* them, hi the other; they become one.
Joins(L, pr, mk, o, i, lo, hi, L2, pr2, mk2, o2) ==
    /\ o.le = i /\ o.at = "merge" /\ o2 = [o EXCEPT !.base = lo]
    /\ \/ lo = o.base /\ hi = L[i]
       \/ lo = L[i] /\ hi = o.base
    /\ lo + pr[lo] = hi
    /\ L2 = RemoveAt(L, i)
    /\ pr2 = [pr EXCEPT ![lo] = pr[lo] + pr[hi]]
    /\ mk2 = mk \ {hi}

Joined(L, pr, mk, o, lo, L2, pr2, mk2, o2) ==
    /\ Tables(pr2, mk2) /\ ListOK(L2, pr2, mk2)
    /\ o2 \in OpType /\ FreeingOK(o2, L2, pr2, mk2)
    /\ Cover(L2, pr2) \cup Run(lo, pr2[lo]) = Cover(L, pr) \cup Run(o.base, pr[o.base])
    /\ \A x \in Pages \ (Cover(L, pr) \cup Run(o.base, pr[o.base])) :
         pr2[x] = pr[x] /\ (x \in mk2 <=> x \in mk)

LEMMA ListJoin ==
    ASSUME NEW L, NEW pr \in [Pages -> Nat], NEW mk, ListOK(L, pr, mk), mk \subseteq Pages,
           NEW o \in OpType, FreeingOK(o, L, pr, mk), NEW i \in 1..Len(L), NEW lo, NEW hi,
           NEW L2, NEW pr2, NEW mk2, NEW o2,
           Joins(L, pr, mk, o, i, lo, hi, L2, pr2, mk2, o2)
    PROVE  Joined(L, pr, mk, o, lo, L2, pr2, mk2, o2)
<1>0. PICK b, p : b = o.base /\ p = L[i]
  OBVIOUS
<1>1. /\ L \in Seq(Pages) /\ Len(L) \in Nat
      /\ \A j \in 1..Len(L) : L[j] \in Pages /\ L[j] \in Nat /\ pr[L[j]] \in Nat \ {0}
      /\ \A k, j \in 1..Len(L) : k < j => L[k] + pr[L[k]] < L[j]
      /\ \A k, j \in 1..Len(L) : k = j \/ L[k] + pr[L[k]] < L[j] \/ L[j] + pr[L[j]] < L[k]
  BY ListFacts
<1>2. /\ b \in Pages /\ b \in Nat /\ pr[b] \in Nat \ {0}
      /\ \A j \in 1..Len(L) : L[j] + pr[L[j]] <= b \/ b + pr[b] <= L[j]
      /\ Run(b, pr[b]) \cap Cover(L, pr) = {}
  BY <1>0, FreeingFacts
<1>3. p \in Pages /\ p \in Nat /\ pr[p] \in Nat \ {0} /\ BlockOK(pr, mk, p) /\ BlockOK(pr, mk, b)
  BY <1>0, <1>1 DEF ListOK, FreeingOK
<1>4. (lo = b /\ hi = p) \/ (lo = p /\ hi = b)
  BY <1>0 DEF Joins
<1>5. /\ lo \in Pages /\ lo \in Nat /\ pr[lo] \in Nat \ {0} /\ hi \in Nat /\ pr[hi] \in Nat \ {0}
      /\ BlockOK(pr, mk, lo) /\ BlockOK(pr, mk, hi) /\ lo + pr[lo] = hi
      /\ Run(lo, pr[lo]) \cup Run(hi, pr[hi]) = Run(b, pr[b]) \cup Run(p, pr[p])
  BY <1>2, <1>3, <1>4 DEF Joins
<1>6. PICK m : m = pr[lo] + pr[hi]
  OBVIOUS
<1>7. m \in Nat \ {0} /\ m > pr[lo]
  BY <1>5, <1>6
<1>8. /\ pr2 \in [Pages -> Nat] /\ pr2[lo] = m /\ \A x \in Pages : x # lo => pr2[x] = pr[x]
  <2>1. pr2 = [pr EXCEPT ![lo] = m]
    BY <1>6 DEF Joins
  <2> QED BY <1>5, <1>7, <2>1
<1>9. mk2 = mk \ {hi} /\ mk2 \subseteq Pages /\ L2 = RemoveAt(L, i)
  BY DEF Joins
<1>10. Run(lo, m) = Run(b, pr[b]) \cup Run(p, pr[p])
  <2>1. \A x : x \in Run(lo, m) <=> x \in Int /\ lo <= x /\ x < lo + m
    BY <1>5, <1>7, InRun
  <2>2. \A x : x \in Run(lo, pr[lo]) <=> x \in Int /\ lo <= x /\ x < lo + pr[lo]
    BY <1>5, InRun
  <2>3. \A x : x \in Run(hi, pr[hi]) <=> x \in Int /\ hi <= x /\ x < hi + pr[hi]
    BY <1>5, InRun
  <2>4. ASSUME NEW x PROVE x \in Run(lo, m) <=> x \in Run(lo, pr[lo]) \cup Run(hi, pr[hi])
    <3>1. CASE x \in Int
      BY <1>5, <1>6, <2>1, <2>2, <2>3, <3>1, SMTT(20)
    <3>2. CASE x \notin Int
      BY <2>1, <2>2, <2>3, <3>2
    <3> QED BY <3>1, <3>2
  <2> QED BY <1>5, <2>4
<1>11. /\ ListOK(L2, pr, mk) /\ Cover(L2, pr) = Cover(L, pr) \ Run(p, pr[p])
       /\ Run(p, pr[p]) \subseteq Cover(L, pr)
  BY <1>0, <1>9, ListRemove
<1>12. lo \notin Cover(L2, pr)
  <2>1. b \in Run(b, pr[b]) /\ p \in Run(p, pr[p])
    BY <1>2, <1>3, InRun
  <2> QED BY <1>2, <1>4, <1>11, <2>1
<1>13. ListOK(L2, pr2, mk2) /\ Cover(L2, pr2) = Cover(L2, pr)
  <2>1. Cover(L2, pr) \subseteq Pages
    BY <1>11, CoverInPages
  <2>2. Untouched(Cover(L2, pr), pr, mk, pr2, mk2)
    BY <1>8, <1>9, <1>12, <2>1 DEF Untouched
  <2>3. pr2 \in [Pages -> Nat] /\ ListOK(L2, pr, mk)
    BY <1>8, <1>11
  <2> QED BY <2>2, <2>3, ListFrame
<1>14. Cover(L2, pr2) \cup Run(lo, pr2[lo]) = Cover(L, pr) \cup Run(b, pr[b])
  BY <1>8, <1>10, <1>11, <1>13
<1>15. BlockOK(pr2, mk2, lo)
  <2>1. Run(lo, m) \subseteq Pages
    BY <1>3, <1>10 DEF BlockOK
  <2>2. \A q \in Run(lo, m) : q \in mk2 => q = lo
    BY <1>3, <1>4, <1>9, <1>10 DEF BlockOK
  <2> QED BY <1>5, <1>7, <1>8, <2>1, <2>2 DEF BlockOK
<1>16. /\ Len(L2) = Len(L) - 1
       /\ \A j \in 1..(Len(L) - 1) : L2[j] = IF j < i THEN L[j] ELSE L[j + 1]
  <2>1. L \in Seq(Pages)
    BY <1>1
  <2> QED BY <1>9, <2>1, RemoveAtFacts, Zenon
<1>17. ASSUME NEW k \in 1..Len(L), k # i
       PROVE  /\ L[k] + pr2[L[k]] <= lo \/ lo + m <= L[k]
              /\ k < i => L[k] + pr2[L[k]] < lo
              /\ L[k] # lo
  <2>1. /\ L[k] \in Pages /\ L[k] \in Nat /\ pr[L[k]] \in Nat \ {0}
        /\ L[k] + pr[L[k]] < p \/ p + pr[p] < L[k]
        /\ L[k] + pr[L[k]] <= b \/ b + pr[b] <= L[k]
        /\ k < i => L[k] + pr[L[k]] < p
    BY <1>0, <1>1, <1>2, <1>17
  <2>2. L[k] + pr[L[k]] <= lo \/ lo + m <= L[k]
    <3>1. CASE lo = b /\ hi = p
      BY <1>2, <1>3, <1>5, <1>6, <2>1, <3>1, SMTT(20)
    <3>2. CASE lo = p /\ hi = b
      BY <1>2, <1>3, <1>5, <1>6, <2>1, <3>2, SMTT(20)
    <3> QED BY <1>4, <3>1, <3>2
  <2>3. L[k] # lo
    BY <1>5, <1>7, <2>1, <2>2
  <2>4. k < i => L[k] + pr[L[k]] < lo
    <3>1. k < i => L[k] + pr[L[k]] < b \/ b + pr[b] < L[k]
      BY <1>0 DEF FreeingOK, Joins, Apart, Ends
    <3> QED BY <1>2, <1>3, <1>4, <1>5, <2>1, <3>1, SMTT(20)
  <2> QED BY <1>8, <2>1, <2>2, <2>3, <2>4
<1>18. o2 \in OpType /\ o2.base = lo /\ o2.le = i /\ o2.at = "merge"
  BY <1>5 DEF Joins, OpType
<1>19. FreeingOK(o2, L2, pr2, mk2)
  <2>1. i \in 1..(Len(L2) + 1)
    BY <1>1, <1>16
  <2>2. ASSUME NEW j \in 1..Len(L2)
        PROVE  /\ Ends(pr2, L2[j]) <= lo \/ Ends(pr2, lo) <= L2[j]
               /\ j < i => Apart(pr2, L2[j], lo)
    <3>1. CASE j < i
      <4>1. j \in 1..Len(L) /\ j # i /\ L2[j] = L[j]
        BY <1>1, <1>16, <3>1
      <4>2. L[j] + pr2[L[j]] < lo /\ (L[j] + pr2[L[j]] <= lo \/ lo + m <= L[j])
        BY <1>17, <3>1, <4>1
      <4> QED BY <1>8, <4>1, <4>2 DEF Ends, Apart
    <3>2. CASE ~(j < i)
      <4>1. j + 1 \in 1..Len(L) /\ j + 1 # i /\ L2[j] = L[j + 1]
        BY <1>1, <1>16, <3>2
      <4>2. L[j + 1] + pr2[L[j + 1]] <= lo \/ lo + m <= L[j + 1]
        BY <1>17, <4>1
      <4> QED BY <1>8, <3>2, <4>1, <4>2 DEF Ends
    <3> QED BY <3>1, <3>2
  <2>3. \A j \in 1..Len(L2) : Ends(pr2, L2[j]) <= lo \/ Ends(pr2, lo) <= L2[j]
    BY <2>2
  <2>4. \A j \in 1..Len(L2) : j < i => Apart(pr2, L2[j], lo)
    BY <2>2
  <2> QED BY <1>15, <1>18, <2>1, <2>3, <2>4 DEF FreeingOK
<1>20. \A x \in Pages \ (Cover(L, pr) \cup Run(b, pr[b])) : pr2[x] = pr[x] /\ (x \in mk2 <=> x \in mk)
  <2>1. lo \in Cover(L, pr) \cup Run(b, pr[b]) /\ hi \in Cover(L, pr) \cup Run(b, pr[b])
    <3>1. lo \in Run(lo, pr[lo]) /\ hi \in Run(hi, pr[hi])
      BY <1>5, InRun
    <3> QED BY <1>5, <1>11, <3>1
  <2> QED BY <1>8, <1>9, <2>1
<1>21. Tables(pr2, mk2)
  BY <1>8, <1>9 DEF Tables
<1> QED BY <1>0, <1>13, <1>14, <1>18, <1>19, <1>20, <1>21 DEF Joined

\* Steps of default_free_pages that leave the set of free pages.
LEMMA PmmSame ==
    ASSUME NEW P, PmmInv(P), Tables(property', pg_property'), pg_property' \subseteq pg_property,
           ListOK(free_list', property', pg_property'), OpInv', nr_free' \in Int,
           held' = held, failed' = failed, FreePages' = FreePages,
           op'.at # "merge" => nr_free' = Cardinality(FreePages),
           op'.at = "merge" => nr_free' + op'.n = Cardinality(FreePages)
    PROVE  PmmInv(P)'
<1>1. HeldPages' = HeldPages
  BY DEF HeldPages
<1>2. PartitionOf(P)'
  BY <1>1 DEF PmmInv, PartitionOf
<1>3. PmmTypeOK'
  BY DEF PmmInv, PmmTypeOK, Tables
<1> QED BY <1>1, <1>2, <1>3 DEF PmmInv

\* What every step of default_free_pages leaves alone.
Quiet(P) ==
    /\ FreePages' = FreePages /\ held' = held /\ failed' = failed /\ panic' = panic
    /\ \A x \in Pages \ P :
         property'[x] = property[x] /\ (x \in pg_property' <=> x \in pg_property)

LEMMA JoinKeeps ==
    ASSUME NEW P, PmmInv(P), NEW i \in 1..Len(free_list), NEW lo, NEW hi, Freeing,
           Joins(free_list, property, pg_property, op, i, lo, hi,
                 free_list', property', pg_property', op'),
           UNCHANGED <<nr_free, held, failed, panic>>
    PROVE  PmmInv(P)' /\ Quiet(P)
<1>1. /\ property \in [Pages -> Nat] /\ pg_property \subseteq Pages
      /\ ListOK(free_list, property, pg_property)
      /\ Split(P, FreePages, held) /\ op \in OpType
      /\ op.at = "merge" => nr_free + op.n = Cardinality(FreePages)
      /\ FreeingOK(op, free_list, property, pg_property)
  BY PmmFacts DEF OpInv
<1>0. Joined(free_list, property, pg_property, op, lo, free_list', property', pg_property', op')
  BY <1>1, ListJoin
<1>2. /\ Tables(property', pg_property') /\ ListOK(free_list', property', pg_property')
      /\ op' \in OpType /\ FreeingOK(op', free_list', property', pg_property')
  BY <1>0 DEF Joined
<1>3. /\ Cover(free_list', property') \cup Run(lo, property'[lo])
           = Cover(free_list, property) \cup Run(op.base, property[op.base])
      /\ \A x \in Pages \ (Cover(free_list, property) \cup Run(op.base, property[op.base])) :
           property'[x] = property[x] /\ (x \in pg_property' <=> x \in pg_property)
  BY <1>0 DEF Joined
<1>4. op.at = "merge" /\ op'.at = "merge" /\ op'.base = lo /\ op'.n = op.n /\ pg_property' \subseteq pg_property
  BY <1>1 DEF Joins, OpType
<1>5. FreePages' = FreePages /\ FreePages = Cover(free_list, property) \cup Run(op.base, property[op.base])
  BY <1>3, <1>4, LinkedIs, LinkedIsNext
<1>6. OpInv'
  BY <1>2, <1>4 DEF OpInv, Freeing
<1>7. nr_free' \in Int
  BY DEF PmmInv, PmmTypeOK
<1>8. PmmInv(P)'
  BY <1>1, <1>2, <1>4, <1>5, <1>6, <1>7, PmmSame
<1>9. FreePages \subseteq P
  BY <1>1 DEF Split
<1> QED BY <1>3, <1>5, <1>8, <1>9 DEF Quiet

LEMMA MergeNextKeeps ==
    ASSUME NEW P, PmmInv(P), MergeNext PROVE PmmInv(P)' /\ Quiet(P) /\ op'.at = "merge"
<1>1. Freeing /\ op \in OpType /\ FreeingOK(op, free_list, property, pg_property)
  BY DEF MergeNext, Freeing, PmmInv, OpInv
<1>2. op.le \in 1..Len(free_list) /\ Len(free_list) \in Nat
  BY <1>1, PmmFacts DEF MergeNext, FreeingOK, OpType
<1>3. op' = [op EXCEPT !.base = op.base]
  BY <1>1 DEF MergeNext, OpType
<1>4. Joins(free_list, property, pg_property, op, op.le, op.base, free_list[op.le],
            free_list', property', pg_property', op')
  BY <1>3 DEF MergeNext, Joins
<1>5. UNCHANGED <<nr_free, held, failed, panic>>
  BY DEF MergeNext
<1>6. op'.at = "merge"
  BY DEF MergeNext
<1> QED BY <1>1, <1>2, <1>4, <1>5, <1>6, JoinKeeps

LEMMA MergePrevKeeps ==
    ASSUME NEW P, PmmInv(P), MergePrev PROVE PmmInv(P)' /\ Quiet(P) /\ op'.at = "merge"
<1>1. Freeing /\ op \in OpType /\ FreeingOK(op, free_list, property, pg_property)
  BY DEF MergePrev, Freeing, PmmInv, OpInv
<1>2. op.le \in 1..Len(free_list) /\ Len(free_list) \in Nat
  BY <1>1, PmmFacts DEF MergePrev, FreeingOK, OpType
<1>4. Joins(free_list, property, pg_property, op, op.le, free_list[op.le], op.base,
            free_list', property', pg_property', op')
  BY DEF MergePrev, Joins
<1>5. UNCHANGED <<nr_free, held, failed, panic>>
  BY DEF MergePrev
<1>6. op'.at = "merge"
  BY <1>1 DEF MergePrev, OpType
<1> QED BY <1>1, <1>2, <1>4, <1>5, <1>6, JoinKeeps

\* A step that changes nothing but op, and perhaps nr_free.
LEMMA MoveKeeps ==
    ASSUME NEW P, PmmInv(P), Freeing, UNCHANGED <<free_list, property, pg_property, held, failed, panic>>,
           op' \in OpType, op'.at \in {"merge", "insert"}, op'.base = op.base,
           FreeingOK(op', free_list, property, pg_property), nr_free' \in Int,
           op'.at # "merge" => nr_free' = Cardinality(FreePages),
           op'.at = "merge" => nr_free' + op'.n = Cardinality(FreePages)
    PROVE  PmmInv(P)' /\ Quiet(P)
<1>1. /\ property \in [Pages -> Nat] /\ pg_property \subseteq Pages
      /\ ListOK(free_list, property, pg_property)
  BY PmmFacts
<1>2. FreePages' = FreePages
  BY LinkedIs, LinkedIsNext
<1>3. OpInv'
  BY DEF OpInv, Freeing
<1>4. Tables(property', pg_property') /\ ListOK(free_list', property', pg_property')
  BY <1>1 DEF Tables
<1>5. PmmInv(P)'
  BY <1>2, <1>3, <1>4, PmmSame
<1> QED BY <1>2, <1>5 DEF Quiet

LEMMA MergeNeitherKeeps ==
    ASSUME NEW P, PmmInv(P), MergeNeither PROVE PmmInv(P)' /\ Quiet(P) /\ op'.at = "merge"
<1>1. /\ op.at = "merge" /\ op.le <= Len(free_list)
      /\ op.base + property[op.base] # free_list[op.le]
      /\ free_list[op.le] + property[free_list[op.le]] # op.base
      /\ op' = [op EXCEPT !.le = @ + 1]
      /\ UNCHANGED <<free_list, property, pg_property, nr_free, held, failed, panic>>
  BY DEF MergeNeither, pageVars
<1>2. /\ Freeing /\ op \in OpType /\ FreeingOK(op, free_list, property, pg_property)
      /\ property \in [Pages -> Nat] /\ ListOK(free_list, property, pg_property)
      /\ Len(free_list) \in Nat /\ nr_free \in Int /\ nr_free + op.n = Cardinality(FreePages)
  BY <1>1, PmmFacts DEF Freeing, OpInv, PmmInv, PmmTypeOK
<1>3. /\ op' \in OpType /\ op'.at = "merge" /\ op'.base = op.base /\ op'.le = op.le + 1
      /\ op'.n = op.n
  <2>1. /\ op.at = "merge" /\ op.le + 1 \in Nat /\ op.base \in Nat /\ op.n \in Nat
        /\ op = [at |-> op.at, base |-> op.base, le |-> op.le, n |-> op.n]
    BY <1>1, <1>2 DEF OpType
  <2>2. op' = [at |-> "merge", base |-> op.base, le |-> op.le + 1, n |-> op.n]
    BY <1>1, <2>1
  <2> QED BY <2>1, <2>2 DEF OpType
<1>4. op.le \in 1..Len(free_list) /\ op.le \in Nat
  BY <1>1, <1>2 DEF FreeingOK, OpType
<1>5. /\ op.base \in Nat /\ property[op.base] \in Nat
      /\ \A i \in 1..Len(free_list) :
            \/ free_list[i] + property[free_list[i]] <= op.base
            \/ op.base + property[op.base] <= free_list[i]
  BY <1>2, FreeingFacts
<1>6. \A i \in 1..Len(free_list) : free_list[i] \in Nat /\ property[free_list[i]] \in Nat
  BY <1>2, ListFacts
<1>7. Apart(property, free_list[op.le], op.base)
  <2>1. PICK p, m, b, n : /\ p = free_list[op.le] /\ m = property[free_list[op.le]]
                          /\ b = op.base /\ n = property[op.base]
    OBVIOUS
  <2>2. /\ p \in Nat /\ m \in Nat /\ b \in Nat /\ n \in Nat
        /\ p + m <= b \/ b + n <= p
        /\ b + n # p /\ p + m # b
    BY <1>1, <1>4, <1>5, <1>6, <2>1
  <2>3. p + m < b \/ b + n < p
    BY <2>2
  <2> QED BY <2>1, <2>3 DEF Apart, Ends
<1>8. FreeingOK(op', free_list, property, pg_property)
  <2>1. op.le + 1 \in 1..(Len(free_list) + 1)
    BY <1>2, <1>4
  <2>2. ASSUME NEW i \in 1..Len(free_list), i < op.le + 1
        PROVE  Apart(property, free_list[i], op.base)
    <3>1. i < op.le \/ i = op.le
      BY <1>4, <2>2
    <3> QED BY <1>2, <1>7, <3>1 DEF FreeingOK
  <2> QED BY <1>2, <1>3, <2>1, <2>2 DEF FreeingOK
<1> QED BY <1>1, <1>2, <1>3, <1>8, MoveKeeps

LEMMA MergeDoneKeeps ==
    ASSUME NEW P, PmmInv(P), MergeDone PROVE PmmInv(P)' /\ Quiet(P) /\ op'.at = "insert"
<1>1. /\ op.at = "merge" /\ op.le = Len(free_list) + 1 /\ nr_free' = nr_free + op.n
      /\ op' = [op EXCEPT !.at = "insert", !.le = 1]
      /\ UNCHANGED <<free_list, property, pg_property, held, failed, panic>>
  BY DEF MergeDone
<1>2. /\ Freeing /\ op \in OpType /\ FreeingOK(op, free_list, property, pg_property)
      /\ Len(free_list) \in Nat /\ nr_free \in Int /\ nr_free + op.n = Cardinality(FreePages)
  BY <1>1, PmmFacts DEF Freeing, OpInv, PmmInv, PmmTypeOK
<1>3. op' \in OpType /\ op'.at = "insert" /\ op'.base = op.base /\ op'.le = 1 /\ op.n \in Nat
  BY <1>1, <1>2 DEF OpType
<1>4. FreeingOK(op', free_list, property, pg_property)
  <2>1. \A i \in 1..Len(free_list) : i < op.le
    BY <1>1, <1>2
  <2>2. \A i \in 1..Len(free_list) : Apart(property, free_list[i], op.base)
    BY <1>2, <2>1 DEF FreeingOK
  <2>3. 1 \in 1..(Len(free_list) + 1) /\ 1..(1 - 1) = {}
    BY <1>2
  <2> QED BY <1>2, <1>3, <2>2, <2>3 DEF FreeingOK
<1>5. nr_free' \in Int /\ nr_free' = Cardinality(FreePages)
  BY <1>1, <1>2, <1>3
<1> QED BY <1>1, <1>2, <1>3, <1>4, <1>5, MoveKeeps

LEMMA InsertPassKeeps ==
    ASSUME NEW P, PmmInv(P), InsertPass PROVE PmmInv(P)' /\ Quiet(P) /\ op'.at = "insert"
<1>1. /\ op.at = "insert" /\ op.le <= Len(free_list)
      /\ ~(op.base + property[op.base] <= free_list[op.le])
      /\ op' = [op EXCEPT !.le = @ + 1]
      /\ UNCHANGED <<free_list, property, pg_property, nr_free, held, failed, panic>>
  BY DEF InsertPass, Behind, pageVars
<1>2. /\ Freeing /\ op \in OpType /\ FreeingOK(op, free_list, property, pg_property)
      /\ property \in [Pages -> Nat] /\ ListOK(free_list, property, pg_property)
      /\ Len(free_list) \in Nat /\ nr_free \in Int /\ nr_free = Cardinality(FreePages)
  BY <1>1, PmmFacts DEF Freeing, OpInv, PmmInv, PmmTypeOK
<1>3. op' \in OpType /\ op'.at = "insert" /\ op'.base = op.base /\ op'.le = op.le + 1
  BY <1>1, <1>2 DEF OpType
<1>4. op.le \in 1..Len(free_list) /\ op.le \in Nat
  BY <1>1, <1>2 DEF FreeingOK, OpType
<1>5. /\ op.base \in Nat /\ property[op.base] \in Nat
      /\ \A i \in 1..Len(free_list) :
            \/ free_list[i] + property[free_list[i]] <= op.base
            \/ op.base + property[op.base] <= free_list[i]
  BY <1>2, FreeingFacts
<1>6. \A i \in 1..Len(free_list) : free_list[i] \in Nat /\ property[free_list[i]] \in Nat \ {0}
  BY <1>2, ListFacts
<1>7. free_list[op.le] < op.base
  BY <1>1, <1>4, <1>5, <1>6
<1>8. FreeingOK(op', free_list, property, pg_property)
  <2>1. op.le + 1 \in 1..(Len(free_list) + 1)
    BY <1>2, <1>4
  <2>2. ASSUME NEW i \in 1..((op.le + 1) - 1) PROVE free_list[i] < op.base
    <3>1. i \in 1..(op.le - 1) \/ i = op.le
      BY <1>4
    <3> QED BY <1>1, <1>2, <1>7, <3>1 DEF FreeingOK
  <2> QED BY <1>1, <1>2, <1>3, <2>1, <2>2 DEF FreeingOK
<1> QED BY <1>1, <1>2, <1>3, <1>8, MoveKeeps

InsertIs(S, s, i, e, t) ==
    /\ t \in Seq(S) /\ Len(t) = Len(s) + 1
    /\ \A j \in 1..(Len(s) + 1) : t[j] = IF j < i THEN s[j] ELSE IF j = i THEN e ELSE s[j - 1]

LEMMA InsertAtIs ==
    ASSUME NEW S, NEW s \in Seq(S), NEW i \in 1..(Len(s) + 1), NEW e \in S
    PROVE  InsertIs(S, s, i, e, InsertAt(s, i, e))
BY InsertAtFacts DEF InsertIs

LEMMA InsertKeeps ==
    ASSUME NEW P, PmmInv(P), Insert PROVE PmmInv(P)' /\ Quiet(P) /\ op' = Idle
<1>1. /\ op.at = "insert"
      /\ op.le <= Len(free_list) => op.base + property[op.base] <= free_list[op.le]
      /\ panic' = IF op.le <= Len(free_list) => op.base + property[op.base] # free_list[op.le]
                  THEN panic ELSE "assert"
      /\ free_list' = InsertAt(free_list, op.le, op.base) /\ op' = Idle
      /\ UNCHANGED <<property, pg_property, nr_free, held, failed>>
  BY DEF Insert, Behind, Assert_
<1>2. /\ Freeing /\ op \in OpType /\ FreeingOK(op, free_list, property, pg_property)
      /\ property \in [Pages -> Nat] /\ ListOK(free_list, property, pg_property)
      /\ free_list \in Seq(Pages) /\ pg_property \subseteq Pages
      /\ Len(free_list) \in Nat /\ nr_free \in Int /\ nr_free = Cardinality(FreePages)
  BY <1>1, PmmFacts DEF Freeing, OpInv, PmmInv, PmmTypeOK
<1>3. op.le \in 1..(Len(free_list) + 1) /\ op.le \in Nat /\ BlockOK(property, pg_property, op.base)
  BY <1>2 DEF FreeingOK, OpType
<1>4. op.base \in Pages /\ op.base \in Nat /\ property[op.base] \in Nat \ {0}
  BY <1>2, FreeingFacts
<1>5. /\ \A i \in 1..Len(free_list) : free_list[i] \in Nat /\ property[free_list[i]] \in Nat \ {0}
      /\ \A i, j \in 1..Len(free_list) : i < j => free_list[i] + property[free_list[i]] < free_list[j]
  BY <1>2, ListFacts
<1>6. \A i \in 1..Len(free_list) :
         \/ free_list[i] + property[free_list[i]] < op.base
         \/ op.base + property[op.base] < free_list[i]
  BY <1>1, <1>2 DEF FreeingOK, Apart, Ends
<1>7. ASSUME NEW j \in 1..Len(free_list)
      PROVE  IF j < op.le THEN Ends(property, free_list[j]) < op.base
                          ELSE Ends(property, op.base) < free_list[j]
  <2>1. CASE j < op.le
    <3>1. j \in 1..(op.le - 1)
      BY <1>3, <2>1
    <3>2. free_list[j] < op.base
      BY <1>1, <1>2, <3>1 DEF FreeingOK
    <3> QED BY <1>4, <1>5, <1>6, <2>1, <3>2 DEF Ends
  <2>2. CASE ~(j < op.le)
    <3>1. op.le \in 1..Len(free_list) /\ (op.le = j \/ op.le < j)
      BY <1>2, <1>3, <2>2
    <3>2. op.base + property[op.base] <= free_list[op.le]
      BY <1>1, <3>1
    <3>3. op.base + property[op.base] < free_list[op.le]
      <4>1. PICK p, m, b, n : /\ p = free_list[op.le] /\ m = property[free_list[op.le]]
                              /\ b = op.base /\ n = property[op.base]
        OBVIOUS
      <4>2. /\ p \in Nat /\ m \in Nat \ {0} /\ b \in Nat /\ n \in Nat
            /\ p + m < b \/ b + n < p
            /\ b + n <= p
        BY <1>4, <1>5, <1>6, <3>1, <3>2, <4>1
      <4>3. b + n < p
        BY <4>2
      <4> QED BY <4>1, <4>3
    <3>4. free_list[op.le] <= free_list[j]
      BY <1>5, <3>1
    <3> QED BY <1>4, <1>5, <2>2, <3>1, <3>3, <3>4 DEF Ends
  <2> QED BY <2>1, <2>2
<1>8. panic' = panic
  <2>1. op.le <= Len(free_list) => op.base + property[op.base] < free_list[op.le]
    <3> SUFFICES ASSUME op.le <= Len(free_list) PROVE op.base + property[op.base] < free_list[op.le]
      OBVIOUS
    <3>1. op.le \in 1..Len(free_list) /\ ~(op.le < op.le)
      BY <1>2, <1>3
    <3> QED BY <1>7, <3>1 DEF Ends
  <2> QED BY <1>1, <1>4, <2>1
<1>9. /\ free_list' \in Seq(Pages) /\ Len(free_list') = Len(free_list) + 1
      /\ \A j \in 1..(Len(free_list) + 1) :
            free_list'[j] = IF j < op.le THEN free_list[j]
                            ELSE IF j = op.le THEN op.base ELSE free_list[j - 1]
  <2>1. PICK L, le, b : L = free_list /\ le = op.le /\ b = op.base
    OBVIOUS
  <2>2. L \in Seq(Pages) /\ b \in Pages /\ le \in 1..(Len(L) + 1) /\ free_list' = InsertAt(L, le, b)
    BY <1>1, <1>2, <1>3, <1>4, <2>1
  <2>3. /\ InsertAt(L, le, b) \in Seq(Pages) /\ Len(InsertAt(L, le, b)) = Len(L) + 1
        /\ \A j \in 1..(Len(L) + 1) :
             InsertAt(L, le, b)[j] = IF j < le THEN L[j] ELSE IF j = le THEN b ELSE L[j - 1]
    <3>1. L \in Seq(Pages) /\ b \in Pages /\ le \in 1..(Len(L) + 1)
      BY <2>2
    <3>2. InsertIs(Pages, L, le, b, InsertAt(L, le, b))
      BY <3>1, InsertAtIs
    <3> QED BY <3>2 DEF InsertIs
  <2> QED BY <2>1, <2>2, <2>3, Zenon
<1>10. /\ ListOK(free_list', property, pg_property)
       /\ Cover(free_list', property) = Cover(free_list, property) \cup Run(op.base, property[op.base])
  <2>1. Inserts(free_list, property, op.le, op.base, free_list')
    BY <1>7, <1>9 DEF Inserts
  <2>2. PICK L, L2, pr, mk, le, b :
           /\ L = free_list /\ L2 = free_list' /\ pr = property /\ mk = pg_property
           /\ le = op.le /\ b = op.base
    OBVIOUS
  <2>3. /\ pr \in [Pages -> Nat] /\ ListOK(L, pr, mk) /\ le \in 1..(Len(L) + 1)
        /\ BlockOK(pr, mk, b) /\ Inserts(L, pr, le, b, L2)
    BY <1>2, <1>3, <2>1, <2>2
  <2>4. Inserted(L, pr, mk, le, b, L2)
    BY <2>3, ListInsert
  <2> QED BY <2>2, <2>4 DEF Inserted
<1>11. FreePages' = FreePages
  BY <1>1, <1>2, <1>10, LinkedIs, LinkedIsNext DEF Idle
<1>12. OpInv'
  BY <1>1 DEF OpInv, Freeing, Idle, OpType
<1>13. op'.at # "merge"
  BY <1>1 DEF Idle
<1>14. Tables(property', pg_property') /\ ListOK(free_list', property', pg_property')
  BY <1>1, <1>2, <1>10 DEF Tables
<1>15. PmmInv(P)'
  BY <1>1, <1>2, <1>11, <1>12, <1>13, <1>14, PmmSame
<1> QED BY <1>1, <1>8, <1>11, <1>15 DEF Quiet

\* The entries of the memory map that page_init has seen.
Seen(k) == UNION {Given(MemMap[i]) : i \in 1..k}

LEMMA SeenMore ==
    ASSUME NEW k \in 1..Len(MemMap) PROVE Seen(k) = Seen(k - 1) \cup Given(MemMap[k])
<1>1. \A i : i \in 1..k <=> i \in 1..(k - 1) \/ i = k
  OBVIOUS
<1>2. \A x : x \in Seen(k) <=> \E i \in 1..k : x \in Given(MemMap[i])
  BY DEF Seen
<1>3. \A x : x \in Seen(k - 1) <=> \E i \in 1..(k - 1) : x \in Given(MemMap[i])
  BY DEF Seen
<1> QED BY <1>1, <1>2, <1>3

\* The next entry lies above those seen, and does not touch them.
LEMMA SeenBelow ==
    ASSUME NEW k \in 1..Len(MemMap), Usable(MemMap[k]), NEW x \in Seen(k - 1)
    PROVE  x \in Nat /\ x + 1 < FirstPage(MemMap[k])
<1>1. PICK i \in 1..(k - 1) : x \in Given(MemMap[i])
  BY DEF Seen
<1>2. i \in 1..Len(MemMap) /\ i < k
  OBVIOUS
<1>3. Usable(MemMap[i]) /\ x \in FirstPage(MemMap[i])..(EndPage(MemMap[i]) - 1)
  BY <1>1 DEF Given
<1>4. EndPage(MemMap[i]) < FirstPage(MemMap[k])
  BY <1>2, <1>3, PmmAssumption
<1>5. /\ FirstPage(MemMap[i]) \in Nat /\ EndPage(MemMap[i]) \in Nat
      /\ FirstPage(MemMap[k]) \in Nat
  BY <1>2, EntryFacts
<1> QED BY <1>3, <1>4, <1>5

LEMMA SeenIs ==
    /\ op.at = "memmap" => Initialised = Seen(op.le - 1)
    /\ op.at # "memmap" => Initialised = Pages
    /\ op'.at = "memmap" => Initialised' = Seen(op'.le - 1)
    /\ op'.at # "memmap" => Initialised' = Pages
BY DEF Initialised, Seen, Pages

\* page_init gives the allocator one entry after the other.
LEMMA InitMemmapKeeps ==
    ASSUME PmmInv(Initialised), InitMemmap
    PROVE  /\ PmmInv(Initialised)' /\ op.at = "memmap" /\ op'.at = "memmap"
           /\ held = {} /\ held' = {} /\ panic' = panic /\ failed' = failed
<1>1. PICK k : k = op.le
  OBVIOUS
<1>2. PICK S : S = Seen(k - 1)
  OBVIOUS
<1>3. PICK e : e = MemMap[k]
  OBVIOUS
<1>4. /\ op.at = "memmap" /\ k <= Len(MemMap) /\ op' = [op EXCEPT !.le = @ + 1]
      /\ panic' = IF Given(e) \cap Linked = {} THEN panic ELSE "assert"
      /\ held' = held /\ failed' = failed
      /\ Usable(e) => /\ property' = [property EXCEPT ![FirstPage(e)] = EndPage(e) - FirstPage(e)]
                      /\ pg_property' = pg_property \cup {FirstPage(e)}
                      /\ nr_free' = nr_free + (EndPage(e) - FirstPage(e))
                      /\ free_list' = Append(free_list, FirstPage(e))
      /\ ~Usable(e) => UNCHANGED <<free_list, property, pg_property, nr_free>>
  BY <1>1, <1>3 DEF InitMemmap, Assert_, pageVars
<1>5. Initialised = S
  BY <1>1, <1>2, <1>4, SeenIs
<1>6. PmmInv(S)
  BY <1>5
<1>7. /\ property \in [Pages -> Nat] /\ pg_property \subseteq Pages
      /\ ListOK(free_list, property, pg_property)
      /\ free_list \in Seq(Pages) /\ Len(free_list) \in Nat
      /\ Split(S, FreePages, held) /\ OpInv
      /\ nr_free = Cardinality(FreePages)
  BY <1>4, <1>6, PmmFacts
<1>8. op \in OpType /\ k \in 1..Len(MemMap) /\ pg_property \subseteq S /\ held = {} /\ k \in Nat
  <2>1. op \in OpType /\ MemmapOK
    BY <1>4, <1>7 DEF OpInv
  <2>2. k \in 1..(Len(MemMap) + 1) /\ pg_property \subseteq S /\ held = {}
    BY <1>1, <1>5, <2>1 DEF MemmapOK
  <2>3. Len(MemMap) \in Nat
    BY PmmAssumption
  <2> QED BY <1>4, <2>1, <2>2, <2>3
<1>9. FreePages = Cover(free_list, property) /\ Linked = Cover(free_list, property) /\ FreePages = S
  <2>1. FreePages = Cover(free_list, property) /\ Linked = Cover(free_list, property)
    BY <1>4, LinkedIs DEF Freeing
  <2>2. HeldOf(held) = {}
    BY <1>8 DEF HeldOf
  <2> QED BY <1>7, <2>1, <2>2 DEF Split
<1>10. op' \in OpType /\ op'.at = "memmap" /\ op'.le = k + 1
  BY <1>1, <1>4, <1>8 DEF OpType
<1>11. Initialised' = S \cup Given(e)
  <2>1. Initialised' = Seen(k)
    BY <1>8, <1>10, SeenIs
  <2> QED BY <1>2, <1>3, <1>8, <2>1, SeenMore
<1>12. FreePages' = Cover(free_list', property') /\ HeldPages' = {}
  BY <1>4, <1>8, <1>10, LinkedIsNext DEF HeldOf
<1>13. k + 1 \in 1..(Len(MemMap) + 1)
  <2>1. Len(MemMap) \in Nat
    BY PmmAssumption
  <2> QED BY <1>8, <2>1
<1>14. CASE ~Usable(e)
  <2>1. Given(e) = {} /\ Initialised' = S
    BY <1>11, <1>14 DEF Given
  <2>2. UNCHANGED <<free_list, property, pg_property, nr_free>>
    BY <1>4, <1>14
  <2>3. FreePages' = FreePages /\ panic' = panic
    BY <1>4, <1>9, <1>12, <2>1, <2>2
  <2>4. OpInv'
    BY <1>4, <1>8, <1>10, <1>13, <2>1, <2>2 DEF OpInv, Freeing, MemmapOK
  <2>5. Tables(property', pg_property') /\ ListOK(free_list', property', pg_property')
    BY <1>7, <2>2 DEF Tables
  <2>6. nr_free' \in Int
    BY <2>2 DEF PmmInv, PmmTypeOK
  <2>7. PmmInv(S)'
    BY <1>4, <1>6, <1>7, <1>10, <2>2, <2>3, <2>4, <2>5, <2>6, PmmSame
  <2>8. PmmInv(Initialised)'
    BY <2>1, <2>7 DEF PmmInv, PartitionOf
  <2> QED BY <1>4, <1>8, <1>10, <2>3, <2>8
<1>15. CASE Usable(e)
  <2>1. PICK f, n : f = FirstPage(e) /\ n = EndPage(e) - FirstPage(e)
    OBVIOUS
  <2>2. f \in Nat /\ n \in Nat \ {0} /\ Given(e) = Run(f, n)
    <3>1. FirstPage(e) \in Nat /\ EndPage(e) \in Nat
      BY <1>3, <1>8, EntryFacts
    <3>2. FirstPage(e) < EndPage(e)
      BY <1>15 DEF Usable
    <3>3. f + n - 1 = EndPage(e) - 1
      BY <2>1, <3>1
    <3> QED BY <1>15, <2>1, <3>1, <3>2, <3>3 DEF Given, Run
  <2>3. Given(e) \subseteq Pages
    BY <1>3, <1>8 DEF Pages
  <2>4. f \in Run(f, n) /\ f \in Pages
    BY <2>2, <2>3, InRun
  <2>5. \A x \in S : x \in Nat /\ x + 1 < f
    BY <1>2, <1>3, <1>8, <1>15, <2>1, SeenBelow
  <2>6. S \cap Given(e) = {}
    <3>1. \A x \in Run(f, n) : x \in Int /\ f <= x
      BY <2>2, InRun
    <3> QED BY <2>2, <2>5, <3>1
  <2>7. /\ property' = [property EXCEPT ![f] = n] /\ pg_property' = pg_property \cup {f}
        /\ nr_free' = nr_free + n /\ free_list' = Append(free_list, f)
    BY <1>4, <1>15, <2>1
  <2>8. /\ property' \in [Pages -> Nat] /\ property'[f] = n
        /\ \A x \in Pages : x # f => property'[x] = property[x]
    BY <1>7, <2>2, <2>4, <2>7
  <2>9. ListOK(free_list, property', pg_property') /\ Cover(free_list, property') = S
    <3>1. S \subseteq Pages
      BY <1>7 DEF Split
    <3>2. Untouched(Cover(free_list, property), property, pg_property, property', pg_property')
      BY <1>9, <2>2, <2>4, <2>6, <2>7, <2>8, <3>1 DEF Untouched
    <3> QED BY <1>7, <1>9, <2>8, <3>2, ListFrame
  <2>10. BlockOK(property', pg_property', f)
    <3>1. \A q \in Run(f, n) : q \in pg_property' => q = f
      BY <1>8, <2>2, <2>6, <2>7
    <3> QED BY <2>2, <2>3, <2>4, <2>8, <3>1 DEF BlockOK
  <2>11. Inserts(free_list, property', Len(free_list) + 1, f, free_list')
    <3>1. ASSUME NEW j \in 1..Len(free_list) PROVE j < Len(free_list) + 1 /\ Ends(property', free_list[j]) < f
      <4>1. free_list[j] \in Nat /\ property'[free_list[j]] \in Nat \ {0}
        BY <2>8, <2>9, ListFacts
      <4>2. PICK x : x = free_list[j] + property'[free_list[j]] - 1
        OBVIOUS
      <4>3. x \in Int /\ free_list[j] <= x /\ x < free_list[j] + property'[free_list[j]]
        BY <4>1, <4>2
      <4>4. x \in Cover(free_list, property')
        BY <1>7, <2>8, <4>3, InCover
      <4>5. x + 1 < f
        BY <2>5, <2>9, <4>4
      <4>6. x + 1 = free_list[j] + property'[free_list[j]]
        BY <4>1, <4>2
      <4> QED BY <1>7, <4>5, <4>6 DEF Ends
    <3>2. /\ free_list' \in Seq(Pages) /\ Len(free_list') = Len(free_list) + 1
          /\ free_list'[Len(free_list) + 1] = f
          /\ \A j \in 1..Len(free_list) : free_list'[j] = free_list[j]
      BY <1>7, <2>4, <2>7
    <3>3. ASSUME NEW j \in 1..(Len(free_list) + 1)
          PROVE  free_list'[j] = IF j < Len(free_list) + 1 THEN free_list[j]
                                 ELSE IF j = Len(free_list) + 1 THEN f ELSE free_list[j - 1]
      <4>1. CASE j = Len(free_list) + 1
        BY <1>7, <3>2, <4>1
      <4>2. CASE j \in 1..Len(free_list)
        BY <1>7, <3>2, <4>2
      <4>3. j = Len(free_list) + 1 \/ j \in 1..Len(free_list)
        BY <1>7
      <4> QED BY <4>1, <4>2, <4>3
    <3> QED BY <3>1, <3>2, <3>3 DEF Inserts
  <2>12. ListOK(free_list', property', pg_property') /\ Cover(free_list', property') = S \cup Given(e)
    <3>1. PICK i, L, L2, pr, mk : /\ i = Len(free_list) + 1 /\ L = free_list /\ L2 = free_list'
                                  /\ pr = property' /\ mk = pg_property'
      OBVIOUS
    <3>2. /\ pr \in [Pages -> Nat] /\ ListOK(L, pr, mk) /\ i \in 1..(Len(L) + 1)
          /\ BlockOK(pr, mk, f) /\ Inserts(L, pr, i, f, L2)
      BY <1>7, <2>8, <2>9, <2>10, <2>11, <3>1
    <3>3. Inserted(L, pr, mk, i, f, L2)
      BY <3>2, ListInsert
    <3> QED BY <2>2, <2>8, <2>9, <3>1, <3>3 DEF Inserted
  <2>13. nr_free' = Cardinality(FreePages') /\ nr_free' \in Int
    <3>1. IsFiniteSet(S) /\ nr_free = Cardinality(S)
      BY <1>7, <1>9 DEF Split
    <3>2. IsFiniteSet(Run(f, n)) /\ Cardinality(Run(f, n)) = n
      BY <2>2, CardRun
    <3>3. Cardinality(S \cup Run(f, n)) = Cardinality(S) + n /\ Cardinality(S) \in Nat
      BY <2>2, <2>6, <3>1, <3>2, CardPlus
    <3>4. FreePages' = S \cup Run(f, n)
      BY <1>12, <2>2, <2>12
    <3> QED BY <2>2, <2>7, <3>1, <3>3, <3>4
  <2>14. panic' = panic
    BY <1>4, <1>9, <2>6
  <2>15. pg_property' \subseteq Initialised'
    BY <1>8, <1>11, <2>2, <2>4, <2>7
  <2>16. OpInv'
    BY <1>4, <1>8, <1>10, <1>13, <2>15 DEF OpInv, Freeing, MemmapOK
  <2>17. Initialised' \subseteq Pages
    BY <1>7, <1>11, <2>3 DEF Split
  <2>18. PmmTypeOK'
    <3>1. failed' \in BOOLEAN
      BY <1>4, <1>6 DEF PmmInv, PmmTypeOK
    <3>2. pg_property' \subseteq Pages
      BY <2>15, <2>17
    <3> QED BY <1>4, <1>8, <2>8, <2>13, <3>1, <3>2 DEF PmmTypeOK
  <2>19. FreePages' = Initialised'
    BY <1>11, <1>12, <2>12
  <2>20. PartitionOf(Initialised)'
    BY <1>4, <1>8, <1>12, <2>13, <2>19 DEF PartitionOf
  <2>21. PmmInv(Initialised)'
    BY <1>10, <1>12, <2>12, <2>16, <2>17, <2>18, <2>20 DEF PmmInv
  <2> QED BY <1>4, <1>8, <1>10, <2>14, <2>21
<1> QED BY <1>14, <1>15

LEMMA MemmapDoneKeeps ==
    ASSUME PmmInv(Initialised), MemmapDone
    PROVE  /\ PmmInv(Initialised)' /\ op.at = "memmap" /\ op' = Idle /\ held = {} /\ held' = {}
           /\ panic' = panic /\ failed' = failed /\ Initialised' = Initialised
           /\ Initialised = Pages /\ FreePages' = FreePages
<1>1. /\ op.at = "memmap" /\ op.le = Len(MemMap) + 1 /\ op' = Idle
      /\ UNCHANGED <<free_list, property, pg_property, nr_free, held, failed, panic>>
  BY DEF MemmapDone, pageVars
<1>2. op'.at = "none"
  BY <1>1 DEF Idle
<1>3. Initialised = Pages /\ Initialised' = Pages
  <2>1. Len(MemMap) \in Nat
    BY PmmAssumption
  <2>2. op.le - 1 = Len(MemMap)
    BY <1>1, <2>1
  <2>3. Seen(Len(MemMap)) = Pages
    BY DEF Seen, Pages
  <2> QED BY <1>1, <1>2, <2>2, <2>3, SeenIs
<1>4. PmmInv(Pages)
  BY <1>3
<1>5. /\ property \in [Pages -> Nat] /\ pg_property \subseteq Pages
      /\ ListOK(free_list, property, pg_property) /\ OpInv
      /\ nr_free = Cardinality(FreePages) /\ nr_free \in Int
  BY <1>1, <1>4, PmmFacts DEF PmmInv, PmmTypeOK
<1>6. FreePages' = FreePages
  BY <1>1, <1>2, LinkedIs, LinkedIsNext DEF Freeing
<1>7. OpInv' /\ held = {}
  BY <1>1, <1>5 DEF OpInv, Freeing, Idle, OpType, MemmapOK
<1>8. Tables(property', pg_property') /\ ListOK(free_list', property', pg_property')
  BY <1>1, <1>5 DEF Tables
<1>9. PmmInv(Pages)'
  BY <1>1, <1>2, <1>4, <1>5, <1>6, <1>7, <1>8, PmmSame
<1>10. PmmInv(Initialised)'
  BY <1>3, <1>9 DEF PmmInv, PartitionOf
<1> QED BY <1>1, <1>3, <1>6, <1>7, <1>10

-----------------------------------------------------------------------------
(* Sequences without repetition.                                            *)

LEMMA ConsFacts ==
    ASSUME NEW S, NEW s \in Seq(S), NEW e \in S
    PROVE  /\ <<e>> \o s \in Seq(S) /\ Len(<<e>> \o s) = Len(s) + 1
           /\ \A i \in 1..(Len(s) + 1) : (<<e>> \o s)[i] = IF i = 1 THEN e ELSE s[i - 1]
           /\ Range(<<e>> \o s) = Range(s) \cup {e}
           /\ Distinct(s) /\ e \notin Range(s) => Distinct(<<e>> \o s)
<1>1. PICK t : t = <<e>> \o s
  OBVIOUS
<1>2. t \in Seq(S) /\ Len(t) = Len(s) + 1 /\ Len(s) \in Nat
  BY <1>1
<1>3. \A i \in 1..(Len(s) + 1) : t[i] = IF i = 1 THEN e ELSE s[i - 1]
  BY <1>1
<1>4. Range(t) = Range(s) \cup {e}
  <2>1. \A x \in Range(t) : x \in Range(s) \cup {e}
    <3> SUFFICES ASSUME NEW x \in Range(t), x # e PROVE x \in Range(s)
      OBVIOUS
    <3>1. PICK i \in 1..Len(t) : x = t[i]
      BY <1>2, RangeIs
    <3>2. i # 1 /\ i - 1 \in 1..Len(s) /\ x = s[i - 1]
      BY <1>2, <1>3, <3>1
    <3> QED BY <3>2, RangeIs
  <2>2. ASSUME NEW x \in Range(s) PROVE x \in Range(t)
    <3>1. PICK i \in 1..Len(s) : x = s[i]
      BY RangeIs
    <3>2. i + 1 \in 1..(Len(s) + 1) /\ i + 1 # 1 /\ (i + 1) - 1 = i
      BY <1>2
    <3>3. t[i + 1] = s[(i + 1) - 1]
      BY <1>3, <3>2
    <3>4. t[i + 1] = x /\ i + 1 \in 1..Len(t)
      BY <1>2, <3>1, <3>2, <3>3
    <3> QED BY <1>2, <3>4, RangeIs
  <2>3. e \in Range(t)
    <3>1. 1 \in 1..Len(t) /\ t[1] = e
      BY <1>2, <1>3
    <3> QED BY <1>2, <3>1, RangeIs
  <2> QED BY <2>1, <2>2, <2>3
<1>5. ASSUME Distinct(s), e \notin Range(s), NEW i \in 1..Len(t), NEW j \in 1..Len(t), t[i] = t[j]
      PROVE  i = j
  <2>1. \A k \in 1..Len(t) : k = 1 \/ (k - 1 \in 1..Len(s) /\ t[k] = s[k - 1])
    BY <1>2, <1>3
  <2>2. \A k \in 1..Len(s) : s[k] # e
    BY <1>5, RangeIs
  <2>3. t[1] = e
    BY <1>2, <1>3
  <2>4. CASE i = 1
    BY <1>5, <2>1, <2>2, <2>3, <2>4
  <2>5. CASE j = 1
    BY <1>5, <2>1, <2>2, <2>3, <2>5
  <2>6. CASE i # 1 /\ j # 1
    <3>1. i - 1 \in 1..Len(s) /\ j - 1 \in 1..Len(s) /\ s[i - 1] = s[j - 1]
      BY <1>5, <2>1, <2>6
    <3>2. i - 1 = j - 1
      BY <1>5, <3>1 DEF Distinct
    <3> QED BY <1>2, <3>2
  <2> QED BY <2>4, <2>5, <2>6
<1>6. Distinct(s) /\ e \notin Range(s) => Distinct(t)
  BY <1>5 DEF Distinct
<1> QED BY <1>1, <1>2, <1>3, <1>4, <1>6

LEMMA AppendFacts ==
    ASSUME NEW S, NEW s \in Seq(S), NEW e \in S
    PROVE  /\ Append(s, e) \in Seq(S) /\ Len(Append(s, e)) = Len(s) + 1
           /\ Range(Append(s, e)) = Range(s) \cup {e}
           /\ Distinct(s) /\ e \notin Range(s) => Distinct(Append(s, e))
<1>1. PICK t : t = Append(s, e)
  OBVIOUS
<1>2. t \in Seq(S) /\ Len(t) = Len(s) + 1 /\ Len(s) \in Nat
  BY <1>1
<1>3. (\A i \in 1..Len(s) : t[i] = s[i]) /\ t[Len(s) + 1] = e
  BY <1>1
<1>4. Range(t) = Range(s) \cup {e}
  <2>1. \A x \in Range(t) : x \in Range(s) \cup {e}
    <3> SUFFICES ASSUME NEW x \in Range(t), x # e PROVE x \in Range(s)
      OBVIOUS
    <3>1. PICK i \in 1..Len(t) : x = t[i]
      BY <1>2, RangeIs
    <3>2. i \in 1..Len(s) /\ x = s[i]
      BY <1>2, <1>3, <3>1
    <3> QED BY <3>2, RangeIs
  <2>2. ASSUME NEW x \in Range(s) PROVE x \in Range(t)
    <3>1. PICK i \in 1..Len(s) : x = s[i]
      BY RangeIs
    <3>2. i \in 1..Len(t) /\ x = t[i]
      BY <1>2, <1>3, <3>1
    <3> QED BY <1>2, <3>2, RangeIs
  <2>3. e \in Range(t)
    <3>1. Len(s) + 1 \in 1..Len(t)
      BY <1>2
    <3> QED BY <1>2, <1>3, <3>1, RangeIs
  <2> QED BY <2>1, <2>2, <2>3
<1>5. ASSUME Distinct(s), e \notin Range(s), NEW i \in 1..Len(t), NEW j \in 1..Len(t), t[i] = t[j]
      PROVE  i = j
  <2>1. \A k \in 1..Len(t) : k = Len(s) + 1 \/ (k \in 1..Len(s) /\ t[k] = s[k])
    BY <1>2, <1>3
  <2>2. \A k \in 1..Len(s) : s[k] # e
    BY <1>5, RangeIs
  <2>3. CASE i = Len(s) + 1
    BY <1>3, <1>5, <2>1, <2>2, <2>3
  <2>4. CASE j = Len(s) + 1
    BY <1>3, <1>5, <2>1, <2>2, <2>4
  <2>5. CASE i # Len(s) + 1 /\ j # Len(s) + 1
    <3>1. i \in 1..Len(s) /\ j \in 1..Len(s) /\ s[i] = s[j]
      BY <1>5, <2>1, <2>5
    <3> QED BY <1>5, <3>1 DEF Distinct
  <2> QED BY <2>3, <2>4, <2>5
<1>6. Distinct(s) /\ e \notin Range(s) => Distinct(t)
  BY <1>5 DEF Distinct
<1> QED BY <1>1, <1>2, <1>4, <1>6

LEMMA TailFacts ==
    ASSUME NEW S, NEW s \in Seq(S), s # <<>>, Distinct(s)
    PROVE  /\ Tail(s) \in Seq(S) /\ Distinct(Tail(s)) /\ Head(s) \in Range(s) /\ Head(s) \in S
           /\ Range(Tail(s)) = Range(s) \ {Head(s)} /\ Len(Tail(s)) = Len(s) - 1
<1>1. PICK t : t = Tail(s)
  OBVIOUS
<1>2. Len(s) \in Nat /\ Len(s) >= 1 /\ t \in Seq(S) /\ Len(t) = Len(s) - 1 /\ Head(s) = s[1]
  BY <1>1
<1>3. \A i \in 1..Len(t) : i + 1 \in 1..Len(s) /\ t[i] = s[i + 1]
  BY <1>1, <1>2
<1>4. Distinct(t)
  <2> SUFFICES ASSUME NEW i \in 1..Len(t), NEW j \in 1..Len(t), t[i] = t[j] PROVE i = j
    BY DEF Distinct
  <2>1. i + 1 = j + 1
    BY <1>3 DEF Distinct
  <2> QED BY <1>2, <2>1
<1>5. Head(s) \in Range(s) /\ Head(s) \in S
  <2>1. 1 \in 1..Len(s)
    BY <1>2
  <2> QED BY <1>2, <2>1, RangeIs
<1>6. ASSUME NEW x \in Range(t) PROVE x \in Range(s) /\ x # Head(s)
  <2>1. PICK i \in 1..Len(t) : x = t[i]
    BY <1>2, RangeIs
  <2>2. i + 1 \in 1..Len(s) /\ x = s[i + 1] /\ 1 \in 1..Len(s) /\ i + 1 # 1
    BY <1>2, <1>3, <2>1
  <2>3. s[i + 1] # s[1]
    BY <2>2 DEF Distinct
  <2> QED BY <1>2, <2>2, <2>3, RangeIs
<1>7. ASSUME NEW x \in Range(s), x # Head(s) PROVE x \in Range(t)
  <2>1. PICK i \in 1..Len(s) : x = s[i]
    BY RangeIs
  <2>2. i - 1 \in 1..Len(t) /\ (i - 1) + 1 = i
    BY <1>2, <1>7, <2>1
  <2>3. x = t[i - 1]
    BY <1>3, <2>1, <2>2
  <2> QED BY <1>2, <2>2, <2>3, RangeIs
<1>8. Range(t) = Range(s) \ {Head(s)}
  BY <1>6, <1>7
<1> QED BY <1>1, <1>2, <1>4, <1>5, <1>8

LEMMA FrontFacts ==
    ASSUME NEW S, NEW s \in Seq(S), s # <<>>, Distinct(s)
    PROVE  /\ Front(s) \in Seq(S) /\ Distinct(Front(s)) /\ Last(s) \in Range(s) /\ Last(s) \in S
           /\ Last(s) = s[Len(s)]
           /\ Range(Front(s)) = Range(s) \ {Last(s)} /\ Len(Front(s)) = Len(s) - 1
           /\ \A i \in 1..(Len(s) - 1) : Front(s)[i] = s[i]
<1>1. PICK t : t = Front(s)
  OBVIOUS
<1>2. /\ Len(s) \in Nat /\ Len(s) >= 1 /\ t \in Seq(S) /\ Len(t) = Len(s) - 1
      /\ Last(s) = s[Len(s)]
  <2>1. Len(s) \in Nat /\ Len(s) >= 1
    OBVIOUS
  <2>2. PICK m \in 1..Len(s) : m = Len(s)
    BY <2>1
  <2>4. t = SubSeq(s, 1, m - 1)
    BY <1>1, <2>2 DEF Front
  <2>5. t \in Seq(S) /\ Len(t) = m - 1
    BY <2>4
  <2>3. Last(s) = s[Len(s)]
    BY DEF Last
  <2> QED BY <2>1, <2>2, <2>3, <2>5
<1>3. \A i \in 1..Len(t) : i \in 1..Len(s) /\ t[i] = s[i]
  BY <1>1, <1>2 DEF Front
<1>4. Distinct(t)
  BY <1>3 DEF Distinct
<1>5. Last(s) \in Range(s) /\ Last(s) \in S
  <2>1. Len(s) \in 1..Len(s)
    BY <1>2
  <2> QED BY <1>2, <2>1, RangeIs
<1>6. ASSUME NEW x \in Range(t) PROVE x \in Range(s) /\ x # Last(s)
  <2>1. PICK i \in 1..Len(t) : x = t[i]
    BY <1>2, RangeIs
  <2>2. i \in 1..Len(s) /\ x = s[i] /\ Len(s) \in 1..Len(s) /\ i # Len(s)
    BY <1>2, <1>3, <2>1
  <2>3. s[i] # s[Len(s)]
    BY <2>2 DEF Distinct
  <2> QED BY <1>2, <2>2, <2>3, RangeIs
<1>7. ASSUME NEW x \in Range(s), x # Last(s) PROVE x \in Range(t)
  <2>1. PICK i \in 1..Len(s) : x = s[i]
    BY RangeIs
  <2>2. i \in 1..Len(t)
    BY <1>2, <1>7, <2>1
  <2>3. x = t[i]
    BY <1>3, <2>1, <2>2
  <2> QED BY <1>2, <2>2, <2>3, RangeIs
<1>8. Range(t) = Range(s) \ {Last(s)}
  BY <1>6, <1>7
<1> QED BY <1>1, <1>2, <1>3, <1>4, <1>5, <1>8

-----------------------------------------------------------------------------
(* The callers of the allocator keep the invariant of the system.           *)

LEMMA FreeStepKeeps ==
    ASSUME NEW P, PmmInv(P), PmmStep, op.at # "memmap"
    PROVE  /\ PmmInv(P)' /\ Quiet(P) /\ op # Idle
           /\ op.at \in {"merge", "insert"} /\ op'.at # "memmap"
<1>1. op.at \in {"merge", "insert"} /\ op # Idle
  BY DEF PmmStep, InitMemmap, MemmapDone, MergeNext, MergePrev, MergeNeither, MergeDone,
         InsertPass, Insert, Idle
<1>2. \/ MergeNext \/ MergePrev \/ MergeNeither \/ MergeDone \/ InsertPass \/ Insert
  BY DEF PmmStep, InitMemmap, MemmapDone
<1>3. CASE MergeNext
  BY <1>1, <1>3, MergeNextKeeps
<1>4. CASE MergePrev
  BY <1>1, <1>4, MergePrevKeeps
<1>5. CASE MergeNeither
  BY <1>1, <1>5, MergeNeitherKeeps
<1>6. CASE MergeDone
  BY <1>1, <1>6, MergeDoneKeeps
<1>7. CASE InsertPass
  BY <1>1, <1>7, InsertPassKeeps
<1>8. CASE Insert
  BY <1>1, <1>8, InsertKeeps DEF Idle
<1> QED BY <1>2, <1>3, <1>4, <1>5, <1>6, <1>7, <1>8

\* alloc_pages(1) finds nothing only if no page is free.
LEMMA NoFitFacts ==
    ASSUME NEW P, PmmInv(P), NoFit(1)
    PROVE  op = Idle /\ FreePages = {}
<1>1. /\ property \in [Pages -> Nat] /\ ListOK(free_list, property, pg_property)
      /\ free_list \in Seq(Pages) /\ Len(free_list) \in Nat /\ Split(P, FreePages, held)
      /\ op.at # "merge" => nr_free = Cardinality(FreePages)
  BY PmmFacts
<1>2. op = Idle /\ op.at = "none"
  BY DEF NoFit, Idle
<1>3. FreePages = Cover(free_list, property)
  BY <1>2, LinkedIs DEF Freeing
<1>4. CASE 1 > nr_free
  <2>1. IsFiniteSet(FreePages) /\ Cardinality(FreePages) \in Nat
    BY <1>1, FS_CardinalityType DEF Split
  <2>2. Cardinality(FreePages) = 0
    BY <1>1, <1>2, <1>4, <2>1
  <2> QED BY <1>2, <2>1, <2>2, FS_EmptySet
<1>5. CASE FirstFit(1) = {}
  <2>1. Len(free_list) = 0
    <3> SUFFICES ASSUME Len(free_list) # 0 PROVE FALSE
      OBVIOUS
    <3>1. 1 \in 1..Len(free_list) /\ 1..(1 - 1) = {}
      BY <1>1
    <3>2. property[free_list[1]] >= 1
      BY <1>1, <3>1, ListFacts
    <3>3. 1 \in FirstFit(1)
      BY <3>1, <3>2 DEF FirstFit
    <3> QED BY <1>5, <3>3
  <2>2. \A x : x \in Cover(free_list, property) => FALSE
    <3> SUFFICES ASSUME NEW x \in Cover(free_list, property) PROVE FALSE
      OBVIOUS
    <3>1. PICK i \in 1..Len(free_list) : TRUE
      BY <1>1, InCover
    <3> QED BY <2>1, <3>1
  <2> QED BY <1>2, <1>3, <2>2
<1> QED BY <1>4, <1>5 DEF NoFit

LEMMA InSingles ==
    ASSUME NEW S
    PROVE  /\ \A x : x \in S <=> <<x, 1>> \in Singles(S)
           /\ \A x \in Singles(S) : x[1] \in S /\ x[2] = 1 /\ x = <<x[1], 1>>
BY DEF Singles

LEMMA SinglesHeld ==
    ASSUME NEW S, S \subseteq Pages PROVE HeldOf(Singles(S)) = S
<1>1. \A x \in S : Run(x, 1) = {x}
  BY PagesFacts DEF Run
<1>2. ASSUME NEW x PROVE x \in HeldOf(Singles(S)) <=> x \in S
  <2>1. x \in HeldOf(Singles(S)) <=> \E y \in Singles(S) : x \in Run(y[1], y[2])
    BY DEF HeldOf
  <2>2. ASSUME NEW y \in Singles(S), x \in Run(y[1], y[2]) PROVE x \in S
    BY <1>1, <2>2, InSingles
  <2>3. ASSUME x \in S PROVE \E y \in Singles(S) : x \in Run(y[1], y[2])
    <3>1. PICK y : y = <<x, 1>>
      OBVIOUS
    <3>2. y \in Singles(S) /\ y[1] = x /\ y[2] = 1
      BY <2>3, <3>1, InSingles
    <3> QED BY <1>1, <2>3, <3>2
  <2> QED BY <2>1, <2>2, <2>3
<1> QED BY <1>2

\* What the invariant says of the pages of check_swap.
LEMMA CheckFacts ==
    ASSUME PagesInv
    PROVE  /\ CheckPages \subseteq Pages
           /\ check_rp \in Seq(Pages) /\ Distinct(check_rp)
           /\ phase # "boot" => CheckPages = Range(check_rp) \cup {pt}
           /\ phase \in {"boot", "take"} => Managed = Initialised
           /\ phase = "done" => Managed = Pages \ CheckPages
           /\ HidesFree => Managed = CheckPages
           /\ PmmInv(Managed) /\ Managed \subseteq Pages
<1>1. TakeInv /\ PmmInv(Managed) /\ phase \in Phases
  BY DEF PagesInv
<1>2. check_rp \in Seq(Pages) /\ Distinct(check_rp) /\ (phase # "boot" => pt \in Pages)
  BY <1>1 DEF TakeInv
<1>3. Range(check_rp) \subseteq Pages
  BY <1>2, RangeIs
<1>4. CheckPages \subseteq Pages /\ (phase # "boot" => CheckPages = Range(check_rp) \cup {pt})
  BY <1>2, <1>3 DEF CheckPages
<1>5. /\ phase \in {"boot", "take"} => Managed = Initialised
      /\ phase = "done" => Managed = Pages \ CheckPages
      /\ HidesFree => Managed = CheckPages
  BY <1>1 DEF Managed, HidesFree, Accesses, Phases
<1>6. Managed \subseteq Pages
  BY <1>1 DEF PmmInv
<1> QED BY <1>1, <1>2, <1>4, <1>5, <1>6

\* The list that is put aside is not touched by the use of the pages of
\* check_swap.
LEMMA HiddenKeeps ==
    ASSUME PagesInv, HidesFree, phase' \in Accesses \cup {"give", "restore"},
           UNCHANGED <<check_rp, pt, store>>, property' \in [Pages -> Nat],
           \A x \in Pages \ CheckPages :
              property'[x] = property[x] /\ (x \in pg_property' <=> x \in pg_property),
           held' \subseteq Singles(CheckPages)
    PROVE  HiddenInv' /\ CheckPages' = CheckPages /\ Managed' = CheckPages /\ Hidden' = Hidden
<1>1. /\ store \in [list : Seq(Pages), nr : Int] /\ ListOK(store.list, property, pg_property)
      /\ Hidden \cup CheckPages = Pages /\ Hidden \cap CheckPages = {}
      /\ store.nr = Cardinality(Hidden)
  BY DEF PagesInv, HiddenInv
<1>2. phase # "boot" /\ phase' # "boot" /\ phase' \notin {"boot", "take"} /\ phase' # "done"
  BY DEF HidesFree, Accesses
<1>3. CheckPages' = CheckPages
  BY <1>2 DEF CheckPages
<1>4. Managed' = CheckPages
  BY <1>2, <1>3 DEF Managed
<1>5. Hidden = Cover(store.list, property) /\ Hidden' = Cover(store.list, property')
  BY DEF Hidden, Cover, Block, Run
<1>6. property \in [Pages -> Nat]
  BY DEF PagesInv, PmmInv, PmmTypeOK
<1>7. Untouched(Cover(store.list, property), property, pg_property, property', pg_property')
  BY <1>1, <1>5 DEF Untouched
<1>8. ListOK(store.list, property', pg_property') /\ Hidden' = Hidden
  <2>1. PICK L : L = store.list
    OBVIOUS
  <2>2. /\ ListOK(L, property, pg_property)
        /\ Untouched(Cover(L, property), property, pg_property, property', pg_property')
    BY <1>1, <1>7, <2>1
  <2>3. ListOK(L, property', pg_property') /\ Cover(L, property') = Cover(L, property)
    BY <1>6, <2>2, ListFrame
  <2> QED BY <1>5, <2>1, <2>3
<1>9. HiddenInv'
  BY <1>1, <1>3, <1>8 DEF HiddenInv
<1> QED BY <1>3, <1>4, <1>8, <1>9

\* PagesInv from its parts.
LEMMA PmmManaged ==
    ASSUME NEW P, PmmInv(P)', Managed' = P PROVE PmmInv(Managed)'
BY DEF PmmInv, PartitionOf

LEMMA BigBoot ==
    ASSUME BigInv, phase # "done", UNCHANGED heapVars PROVE BigInv'
<1>1. bigblocks = <<>> /\ req = NoReq /\ bigblocks' = bigblocks /\ req' = req
  BY DEF BigInv, heapVars
<1>2. Range(bigblocks) = {}
  BY <1>1 DEF Range
<1>3. BigPages' = {}
  BY <1>1, <1>2 DEF BigPages
<1> QED BY <1>1, <1>3 DEF BigInv, ReqOK

LEMMA BigMore ==
    ASSUME BigInv, phase' = phase, UNCHANGED heapVars, BigPages \subseteq held' PROVE BigInv'
<1>1. bigblocks' = bigblocks /\ req' = req
  BY DEF heapVars
<1>2. BigPages' = BigPages
  BY <1>1 DEF BigPages
<1> QED BY <1>1, <1>2 DEF BigInv

LEMMA AccessNot ==
    ASSUME AccessInv, phase \notin Accesses, phase' \notin Accesses, fault' = fault PROVE AccessInv'
BY DEF AccessInv, Accesses

LEMMA GiveNot ==
    ASSUME phase' \notin {"give", "restore"} PROVE GiveInv'
BY DEF GiveInv

LEMMA HiddenNot ==
    ASSUME phase' \notin Accesses \cup {"give", "restore"}, store' \in [list : Seq(Pages), nr : Int]
    PROVE  HiddenInv'
BY DEF HiddenInv, HidesFree

\* The steps of page_init and default_free_pages.
LEMMA PmmStepPages ==
    ASSUME PagesInv, PmmStep, UNCHANGED <<swapVars, heapVars>>
    PROVE  PagesInv' /\ panic' = panic /\ held' = held /\ failed' = failed
           /\ (op.at # "memmap" => /\ FreePages' = FreePages /\ op'.at # "memmap"
                                   /\ (HidesFree => Hidden' = Hidden))
           /\ (op.at = "memmap" => /\ phase = "boot"
                                   /\ op'.at # "memmap" => FreePages' = Pages)
<1>1. UNCHANGED <<phase, check_rp, pt, store, pra_list, fault, todo, bigblocks, req>>
  BY DEF swapVars, tableVars, heapVars
<1>2. /\ phase \in Phases /\ TakeInv /\ HiddenInv /\ GiveInv /\ AccessInv /\ BigInv
      /\ panic \in {"none", "assert", "no_memory"}
  BY DEF PagesInv
<1>3. PmmInv(Managed)
  BY DEF PagesInv
<1>4. CASE op.at = "memmap"
  <2>1. phase = "boot" /\ Managed = Initialised /\ Managed' = Initialised'
    BY <1>1, <1>2, <1>4 DEF TakeInv, Managed
  <2>2. PmmInv(Initialised)
    BY <1>3, <2>1
  <2>3. InitMemmap \/ MemmapDone
    BY <1>4 DEF PmmStep, MergeNext, MergePrev, MergeNeither, MergeDone, InsertPass, Insert
  <2>4. /\ PmmInv(Initialised)' /\ op'.at \in {"memmap", "none"} /\ held' = {} /\ held = {}
        /\ panic' = panic /\ failed' = failed
        /\ op'.at # "memmap" => Initialised = Pages /\ FreePages' = FreePages
    BY <2>2, <2>3, InitMemmapKeeps, MemmapDoneKeeps DEF Idle
  <2>5. PmmInv(Managed)'
    BY <2>1, <2>4 DEF PmmInv, PartitionOf
  <2>6. TakeInv'
    BY <1>1, <1>2, <2>1, <2>4 DEF TakeInv
  <2>7. phase' \notin Accesses \cup {"give", "restore"} /\ phase \notin Accesses /\ phase # "done"
    BY <1>1, <2>1 DEF Accesses
  <2>8. HiddenInv' /\ GiveInv' /\ AccessInv' /\ BigInv'
    BY <1>1, <1>2, <2>7, HiddenNot, GiveNot, AccessNot, BigBoot DEF HiddenInv
  <2>9. op'.at # "memmap" => FreePages' = Pages
    <3>1. FreePages \cup HeldPages = Initialised /\ HeldPages = {}
      BY <2>2, <2>4 DEF PmmInv, PartitionOf, HeldPages
    <3> QED BY <2>4, <3>1
  <2> QED BY <1>1, <1>2, <1>4, <2>1, <2>4, <2>5, <2>6, <2>8, <2>9 DEF PagesInv
<1>5. CASE op.at # "memmap"
  <2>1. PICK P : P = Managed
    OBVIOUS
  <2>2. PmmInv(P)
    BY <1>3, <2>1
  <2>3. PmmInv(P)' /\ Quiet(P) /\ op # Idle /\ op.at \in {"merge", "insert"} /\ op'.at # "memmap"
    BY <1>5, <2>2, FreeStepKeeps
  <2>4. /\ FreePages' = FreePages /\ held' = held /\ failed' = failed /\ panic' = panic
        /\ \A x \in Pages \ P :
             property'[x] = property[x] /\ (x \in pg_property' <=> x \in pg_property)
    BY <2>3 DEF Quiet
  <2>5. phase \notin {"boot", "take"}
    BY <1>2, <2>3 DEF TakeInv, Idle
  <2>6. CheckPages' = CheckPages
    BY <1>1 DEF CheckPages
  <2>7. Managed' = P
    BY <1>1, <2>1, <2>5, <2>6 DEF Managed
  <2>8. PmmInv(Managed)'
    BY <2>3, <2>7, PmmManaged
  <2>9. TakeInv'
    BY <1>1, <1>2, <2>3, <2>4, <2>5, <2>6 DEF TakeInv
  <2>10. GiveInv'
    BY <1>1, <1>2, <2>4 DEF GiveInv
  <2>11. AccessInv'
    BY <1>1, <1>2, <2>3, <2>4 DEF AccessInv
  <2>12. BigInv'
    BY <1>1, <1>2, <2>4, BigMore DEF BigInv
  <2>13. HiddenInv' /\ (HidesFree => Hidden' = Hidden)
    <3>1. CASE phase \in Accesses \cup {"give", "restore"}
      <4>1. HidesFree /\ phase' \in Accesses \cup {"give", "restore"}
        BY <1>1, <3>1 DEF HidesFree
      <4>2. P = CheckPages
        BY <2>1, <4>1, CheckFacts
      <4>3. held' \subseteq Singles(CheckPages)
        BY <1>2, <2>4, <4>1 DEF HiddenInv
      <4>4. property' \in [Pages -> Nat]
        BY <2>3 DEF PmmInv, PmmTypeOK
      <4> QED BY <1>1, <2>4, <4>1, <4>2, <4>3, <4>4, HiddenKeeps
    <3>2. CASE phase \notin Accesses \cup {"give", "restore"}
      BY <1>1, <1>2, <3>2, HiddenNot DEF HiddenInv, HidesFree
    <3> QED BY <3>1, <3>2
  <2> QED BY <1>1, <1>2, <1>5, <2>3, <2>4, <2>8, <2>9, <2>10, <2>11, <2>12, <2>13 DEF PagesInv
<1> QED BY <1>4, <1>5

\* check_swap takes its pages, and puts the list aside.
LEMMA CheckBeginPages ==
    ASSUME PagesInv, CheckBegin, UNCHANGED heapVars
    PROVE  PagesInv' /\ panic' = panic
<1>1. /\ phase = "boot" /\ phase' = "take" /\ Alloc(1) /\ pt' = FirstFitPage(1)
      /\ UNCHANGED <<check_rp, store, pra_list, todo, fault>>
  BY DEF CheckBegin, tableVars
<1>2. /\ TakeInv /\ HiddenInv /\ AccessInv /\ BigInv /\ PmmInv(Managed)
      /\ panic \in {"none", "assert", "no_memory"}
  BY DEF PagesInv
<1>3. op = Idle /\ op.at = "none"
  BY <1>1 DEF Alloc, Idle
<1>4. Initialised = Pages
  BY <1>3, SeenIs
<1>5. PmmInv(Pages)
  BY <1>1, <1>2, <1>4 DEF Managed
<1>6. /\ PmmInv(Pages)' /\ op' = Idle /\ failed' = FALSE /\ panic' = panic
      /\ FirstFitPage(1) \in Pages /\ held' = held \cup {<<FirstFitPage(1), 1>>}
  <2>1. Allocated(Pages, 1)
    BY <1>1, <1>5, AllocKeeps
  <2> QED BY <2>1 DEF Allocated
<1>7. op'.at = "none"
  BY <1>6 DEF Idle
<1>8. Managed' = Pages
  BY <1>1, <1>7, SeenIs DEF Managed
<1>9. PmmInv(Managed)'
  BY <1>6, <1>8, PmmManaged
<1>10. TakeInv'
  <2>1. check_rp = <<>> /\ held = {}
    BY <1>1, <1>2 DEF TakeInv
  <2>2. Range(check_rp) = {} /\ check_rp' = <<>> /\ Len(<<>>) = 0
    BY <1>1, <2>1 DEF Range
  <2>3. CheckPages' = {pt'}
    BY <1>1, <2>1, <2>2 DEF CheckPages
  <2>4. held' = Singles(CheckPages')
    BY <1>1, <1>6, <2>1, <2>3 DEF Singles
  <2>5. pra_list' = <<>>
    BY <1>1, <1>2 DEF TakeInv
  <2> QED BY <1>1, <1>2, <1>6, <1>7, <2>1, <2>2, <2>4, <2>5 DEF TakeInv
<1>11. phase' \notin Accesses \cup {"give", "restore"} /\ phase \notin Accesses /\ phase # "done"
  BY <1>1 DEF Accesses
<1>12. HiddenInv' /\ GiveInv' /\ AccessInv' /\ BigInv'
  BY <1>1, <1>2, <1>11, HiddenNot, GiveNot, AccessNot, BigBoot DEF HiddenInv
<1> QED BY <1>1, <1>2, <1>6, <1>9, <1>10, <1>12 DEF PagesInv, Phases

LEMMA TakePagePages ==
    ASSUME PagesInv, TakePage, UNCHANGED heapVars
    PROVE  PagesInv' /\ panic' = panic
<1>0. PICK page : page = FirstFitPage(1)
  OBVIOUS
<1>1. /\ phase = "take" /\ phase' = "take" /\ Alloc(1) /\ check_rp' = Append(check_rp, page)
      /\ UNCHANGED <<pt, store, pra_list, todo, fault>> /\ Len(check_rp) < N
  BY <1>0 DEF TakePage, tableVars
<1>2. /\ TakeInv /\ HiddenInv /\ AccessInv /\ BigInv /\ PmmInv(Managed)
      /\ panic \in {"none", "assert", "no_memory"}
  BY DEF PagesInv
<1>3. op = Idle /\ op.at = "none"
  BY <1>1 DEF Alloc, Idle
<1>4. Initialised = Pages
  BY <1>3, SeenIs
<1>5. PmmInv(Pages)
  BY <1>1, <1>2, <1>4 DEF Managed
<1>6. /\ PmmInv(Pages)' /\ op' = Idle /\ failed' = FALSE /\ panic' = panic
      /\ page \in Pages /\ held' = held \cup {<<page, 1>>} /\ Run(page, 1) \subseteq FreePages
  <2>1. Allocated(Pages, 1)
    BY <1>1, <1>5, AllocKeeps
  <2> QED BY <1>0, <2>1 DEF Allocated
<1>7. op'.at = "none"
  BY <1>6 DEF Idle
<1>8. Managed' = Pages
  BY <1>1, <1>7, SeenIs DEF Managed
<1>9. PmmInv(Managed)'
  BY <1>6, <1>8, PmmManaged
<1>10. /\ check_rp \in Seq(Pages) /\ Distinct(check_rp) /\ pt \in Pages /\ pt \notin Range(check_rp)
       /\ held = Singles(CheckPages) /\ CheckPages = Range(check_rp) \cup {pt}
  BY <1>1, <1>2, CheckFacts DEF TakeInv
<1>11. page \notin CheckPages
  <2>1. page \in Run(page, 1)
    BY <1>6, PagesFacts, InRun
  <2>2. FreePages \cap HeldOf(held) = {}
    BY <1>5, PmmFacts DEF Split
  <2>3. HeldOf(held) = CheckPages
    BY <1>10, CheckFacts, SinglesHeld
  <2> QED BY <1>6, <2>1, <2>2, <2>3
<1>12. /\ check_rp' \in Seq(Pages) /\ Len(check_rp') = Len(check_rp) + 1
       /\ Range(check_rp') = Range(check_rp) \cup {page} /\ Distinct(check_rp')
  BY <1>1, <1>6, <1>10, <1>11, AppendFacts
<1>13. TakeInv'
  <2>1. CheckPages' = CheckPages \cup {page}
    BY <1>1, <1>10, <1>12 DEF CheckPages
  <2>2. held' = Singles(CheckPages')
    BY <1>6, <1>10, <2>1 DEF Singles
  <2>3. Len(check_rp') <= N
    BY <1>1, <1>10, <1>12, SwapAssumption
  <2> QED BY <1>1, <1>2, <1>6, <1>7, <1>10, <1>11, <1>12, <2>2, <2>3 DEF TakeInv
<1>14. phase' \notin Accesses \cup {"give", "restore"} /\ phase \notin Accesses /\ phase # "done"
  BY <1>1 DEF Accesses
<1>15. HiddenInv' /\ GiveInv' /\ AccessInv' /\ BigInv'
  BY <1>1, <1>2, <1>14, HiddenNot, GiveNot, AccessNot, BigBoot DEF HiddenInv
<1> QED BY <1>1, <1>2, <1>6, <1>9, <1>13, <1>15 DEF PagesInv, Phases

LEMMA HideFreePages ==
    ASSUME PagesInv, HideFree, UNCHANGED heapVars
    PROVE  PagesInv' /\ panic' = panic /\ Hidden' = FreePages
<1>1. /\ phase = "take" /\ Len(check_rp) = N /\ store' = [list |-> free_list, nr |-> nr_free]
      /\ free_list' = <<>> /\ nr_free' = 0 /\ phase' = "give" /\ todo' = check_rp
      /\ UNCHANGED <<property, pg_property, held, op, failed, panic>>
      /\ UNCHANGED <<check_rp, pt, pra_list, fault>>
  BY DEF HideFree, tableVars
<1>2. /\ TakeInv /\ HiddenInv /\ AccessInv /\ BigInv /\ PmmInv(Managed)
      /\ panic \in {"none", "assert", "no_memory"}
  BY DEF PagesInv
<1>3. /\ op = Idle /\ held = Singles(CheckPages) /\ pt \in Pages /\ pt \notin Range(check_rp)
      /\ failed = FALSE /\ pra_list = <<>>
  BY <1>1, <1>2 DEF TakeInv
<1>4. op.at = "none"
  BY <1>3 DEF Idle
<1>5. PmmInv(Pages)
  BY <1>1, <1>2, <1>4, SeenIs DEF Managed
<1>6. /\ property \in [Pages -> Nat] /\ pg_property \subseteq Pages
      /\ ListOK(free_list, property, pg_property) /\ free_list \in Seq(Pages)
      /\ Split(Pages, FreePages, held) /\ pg_property \cap HeldOf(held) = {}
      /\ nr_free = Cardinality(FreePages) /\ OpInv
  BY <1>4, <1>5, PmmFacts
<1>7. /\ CheckPages \subseteq Pages /\ check_rp \in Seq(Pages) /\ Distinct(check_rp)
      /\ CheckPages = Range(check_rp) \cup {pt}
  BY <1>1, CheckFacts
<1>8. CheckPages' = CheckPages
  BY <1>1 DEF CheckPages
<1>9. Managed' = CheckPages
  BY <1>1, <1>8 DEF Managed
<1>10. FreePages = Cover(free_list, property) /\ HeldOf(held) = CheckPages
  BY <1>3, <1>4, <1>7, LinkedIs, SinglesHeld DEF Freeing
<1>11. Hidden' = FreePages
  BY <1>1, <1>10 DEF Hidden, Cover, Block, Run
<1>12. ListOK(<<>>, property, pg_property) /\ Cover(<<>>, property) = {}
  <2>1. <<>> \in Seq(Pages) /\ Len(<<>>) = 0 /\ Range(<<>>) = {}
    BY DEF Range
  <2> QED BY <2>1 DEF ListOK, Cover
<1>13. FreePages' = {} /\ HeldPages' = HeldOf(held)
  BY <1>1, <1>4, <1>12, LinkedIsNext
<1>14. PmmInv(Managed)'
  <2>1. PmmTypeOK'
    BY <1>1, <1>5 DEF PmmInv, PmmTypeOK
  <2>2. OpInv'
    BY <1>1, <1>4, <1>6 DEF OpInv, Freeing
  <2>3. PartitionOf(CheckPages)'
    <3>1. Cardinality({}) = 0
      BY FS_EmptySet
    <3> QED BY <1>1, <1>6, <1>8, <1>10, <1>13, <3>1 DEF PartitionOf, Split, Separate
  <2>4. PmmInv(CheckPages)'
    BY <1>1, <1>4, <1>6, <1>7, <1>8, <1>12, <1>13, <2>1, <2>2, <2>3 DEF PmmInv
  <2> QED BY <1>8, <1>9, <2>4 DEF PmmInv, PartitionOf
<1>15. TakeInv'
  BY <1>1, <1>2, <1>3, <1>4 DEF TakeInv
<1>16. HiddenInv'
  <2>1. store' \in [list : Seq(Pages), nr : Int] /\ store'.list = free_list /\ store'.nr = nr_free
    BY <1>1, <1>5, <1>6 DEF PmmInv, PmmTypeOK
  <2>2. Hidden' \cup CheckPages = Pages /\ Hidden' \cap CheckPages = {}
    BY <1>6, <1>10, <1>11 DEF Split
  <2> QED BY <1>1, <1>3, <1>6, <1>8, <1>11, <2>1, <2>2 DEF HiddenInv
<1>17. phase' \notin Accesses /\ phase \notin Accesses /\ phase # "done"
  BY <1>1 DEF Accesses
<1>18. fault = 0
  BY <1>2, <1>17 DEF AccessInv
<1>19. GiveInv'
  BY <1>1, <1>3, <1>7, <1>18 DEF GiveInv
<1>20. AccessInv' /\ BigInv'
  BY <1>1, <1>2, <1>17, AccessNot, BigBoot
<1> QED BY <1>1, <1>2, <1>11, <1>14, <1>15, <1>16, <1>19, <1>20 DEF PagesInv, Phases

LEMMA GivePagePages ==
    ASSUME PagesInv, GivePage, UNCHANGED heapVars
    PROVE  PagesInv' /\ panic' = panic /\ Hidden' = Hidden
<1>0. PICK b : b = Head(todo)
  OBVIOUS
<1>1. /\ phase \in {"give", "restore"} /\ todo # <<>> /\ FreeBegin(b, 1) /\ todo' = Tail(todo)
      /\ UNCHANGED <<phase, check_rp, pt, store, pra_list, fault>>
  BY <1>0 DEF GivePage, tableVars
<1>2. /\ TakeInv /\ HiddenInv /\ GiveInv /\ AccessInv /\ BigInv
      /\ panic \in {"none", "assert", "no_memory"}
  BY DEF PagesInv
<1>3. HidesFree /\ phase' \in Accesses \cup {"give", "restore"} /\ phase \notin Accesses /\ phase # "done"
  BY <1>1 DEF HidesFree, Accesses
<1>4. PICK P : P = CheckPages
  OBVIOUS
<1>5. PmmInv(P)
  BY <1>3, <1>4, CheckFacts
<1>6. PICK Q : Q = IF phase = "give" THEN {pt} ELSE {}
  OBVIOUS
<1>7. /\ todo \in Seq(Pages) /\ Distinct(todo) /\ held = Singles(Range(todo) \cup Q)
      /\ Q \cap Range(todo) = {} /\ fault = 0
  BY <1>1, <1>2, <1>6 DEF GiveInv
<1>8. /\ todo' \in Seq(Pages) /\ Distinct(todo') /\ b \in Range(todo)
      /\ Range(todo') = Range(todo) \ {b}
  <2>1. todo \in Seq(Pages) /\ todo # <<>> /\ Distinct(todo)
    BY <1>1, <1>7
  <2> QED BY <1>0, <1>1, <2>1, TailFacts
<1>9. <<b, 1>> \in held
  BY <1>7, <1>8, InSingles
<1>10. Freed(P, b, 1)
  BY <1>1, <1>5, <1>9, FreeBeginKeeps
<1>11. /\ PmmInv(P)' /\ op'.at = "merge" /\ failed' = FALSE /\ panic' = panic
       /\ held' = held \ {<<b, 1>>}
       /\ \A x \in Pages \ CheckPages :
            property'[x] = property[x] /\ (x \in pg_property' <=> x \in pg_property)
  BY <1>4, <1>10 DEF Freed
<1>12. held' = Singles(Range(todo') \cup Q)
  <2>1. Range(todo') \cup Q = (Range(todo) \cup Q) \ {b}
    BY <1>7, <1>8
  <2>2. Singles((Range(todo) \cup Q) \ {b}) = Singles(Range(todo) \cup Q) \ {<<b, 1>>}
    BY DEF Singles
  <2> QED BY <1>7, <1>11, <2>1, <2>2
<1>13. held' \subseteq Singles(CheckPages) /\ property' \in [Pages -> Nat]
  BY <1>2, <1>3, <1>11 DEF HiddenInv, PmmInv, PmmTypeOK
<1>14. HiddenInv' /\ CheckPages' = CheckPages /\ Managed' = P /\ Hidden' = Hidden
  BY <1>1, <1>3, <1>4, <1>11, <1>13, HiddenKeeps
<1>15. PmmInv(Managed)'
  BY <1>11, <1>14, PmmManaged
<1>16. TakeInv'
  BY <1>1, <1>2, <1>11 DEF TakeInv
<1>17. GiveInv'
  BY <1>1, <1>2, <1>6, <1>7, <1>8, <1>12 DEF GiveInv
<1>18. AccessInv' /\ BigInv'
  BY <1>1, <1>2, <1>3, AccessNot, BigBoot
<1> QED BY <1>1, <1>2, <1>11, <1>14, <1>15, <1>16, <1>17, <1>18 DEF PagesInv, Phases

\* A step of check_swap between its phases that leaves the allocator alone.
LEMMA SamePages ==
    ASSUME PagesInv, HidesFree, phase' \in Accesses \cup {"give", "restore"},
           UNCHANGED <<pageVars, held, op, failed, check_rp, pt, store>>, UNCHANGED heapVars,
           phase' # "give"
    PROVE  /\ PmmInv(Managed)' /\ HiddenInv' /\ TakeInv' /\ BigInv' /\ CheckPages' = CheckPages
           /\ FreePages' = FreePages /\ Hidden' = Hidden
<1>1. /\ UNCHANGED <<free_list, property, pg_property, nr_free, held, op, failed>>
      /\ UNCHANGED <<check_rp, pt, store>>
  BY DEF pageVars
<1>2. PICK P : P = CheckPages
  OBVIOUS
<1>3. PmmInv(P)
  BY <1>2, CheckFacts
<1>4. held' \subseteq Singles(CheckPages) /\ property' \in [Pages -> Nat]
  BY <1>1, <1>3 DEF PagesInv, HiddenInv, PmmInv, PmmTypeOK
<1>5. HiddenInv' /\ CheckPages' = CheckPages /\ Managed' = P /\ Hidden' = Hidden
  BY <1>1, <1>2, <1>4, HiddenKeeps
<1>6. FreePages' = FreePages /\ HeldPages' = HeldPages
  BY <1>1 DEF FreePages, Linked, Block, HeldPages
<1>7. phase \notin {"boot", "take", "done"} /\ phase' \notin {"boot", "take", "done"}
  BY DEF HidesFree, Accesses
<1>8. op.at # "memmap" /\ failed = FALSE /\ TakeInv /\ BigInv
  BY <1>7 DEF PagesInv, TakeInv
<1>9. PmmInv(P)'
  BY <1>1, <1>3, <1>6, <1>8 DEF PmmInv, PmmTypeOK, OpInv, Freeing, PartitionOf
<1>10. PmmInv(Managed)'
  BY <1>5, <1>9, PmmManaged
<1>11. TakeInv'
  BY <1>1, <1>7, <1>8 DEF TakeInv
<1>12. BigInv'
  BY <1>7, <1>8, BigBoot
<1> QED BY <1>5, <1>6, <1>10, <1>11, <1>12

LEMMA SetBeginPages ==
    ASSUME PagesInv, SetBegin, UNCHANGED heapVars
    PROVE  PagesInv' /\ Hidden' = Hidden /\ FreePages' = FreePages
<1>1. /\ phase = "give" /\ todo = <<>> /\ op = Idle /\ phase' = "set"
      /\ panic' = IF nr_free = N THEN panic ELSE "assert"
      /\ UNCHANGED <<pageVars, held, op, failed, check_rp, pt, store>>
      /\ UNCHANGED <<pra_list, fault>>
  BY DEF SetBegin, tableVars, Assert_
<1>2. HidesFree /\ phase' \in Accesses \cup {"give", "restore"} /\ phase' \in Accesses /\ phase \notin Accesses
  BY <1>1 DEF HidesFree, Accesses
<1>3. /\ PmmInv(Managed)' /\ HiddenInv' /\ TakeInv' /\ BigInv'
      /\ FreePages' = FreePages /\ Hidden' = Hidden
  BY <1>1, <1>2, SamePages
<1>4. /\ TakeInv /\ GiveInv /\ AccessInv /\ panic \in {"none", "assert", "no_memory"}
  BY DEF PagesInv
<1>5. GiveInv'
  BY <1>1, GiveNot
<1>6. AccessInv'
  <2>1. pra_list = <<>> /\ <<>> \in Seq(Pages) /\ Len(<<>>) = 0 /\ Range(<<>>) = {} /\ fault = 0
    BY <1>1, <1>4 DEF TakeInv, GiveInv, Range
  <2>2. held = Singles({pt})
    BY <1>1, <1>4, <2>1 DEF GiveInv
  <2>3. 1..Len(<<>>) = {}
    BY <2>1
  <2>4. Distinct(<<>>)
    BY <2>3, Zenon DEF Distinct
  <2>5. Range(<<>>) \cup {pt} = {pt}
    BY <2>1
  <2>6. held = Singles(Range(<<>>) \cup {pt})
    BY <2>2, <2>5
  <2> QED BY <1>1, <1>2, <2>1, <2>4, <2>6 DEF AccessInv
<1> QED BY <1>1, <1>3, <1>4, <1>5, <1>6 DEF PagesInv, Phases

LEMMA SetDonePages ==
    ASSUME PagesInv, SetDone, UNCHANGED heapVars
    PROVE  PagesInv' /\ Hidden' = Hidden /\ FreePages' = FreePages
<1>1. /\ phase = "set" /\ todo = <<>> /\ phase' \in {"access", "any"}
      /\ panic' = IF nr_free = 0 /\ \A i \in 1..N : pte[i] = InPage(check_rp[i]) THEN panic ELSE "assert"
      /\ UNCHANGED <<pageVars, held, op, failed, check_rp, pt, store>>
      /\ UNCHANGED <<pra_list, fault>>
  BY DEF SetDone, tableVars, Assert_
<1>2. HidesFree /\ phase' \in Accesses \cup {"give", "restore"} /\ phase' \in Accesses /\ phase \in Accesses
  BY <1>1 DEF HidesFree, Accesses
<1>3. /\ PmmInv(Managed)' /\ HiddenInv' /\ TakeInv' /\ BigInv'
      /\ FreePages' = FreePages /\ Hidden' = Hidden
  BY <1>1, <1>2, SamePages
<1>4. /\ AccessInv /\ panic \in {"none", "assert", "no_memory"}
  BY DEF PagesInv
<1>5. GiveInv'
  BY <1>1, GiveNot
<1>6. fault = 0 /\ op = Idle
  BY <1>1, <1>2, <1>4 DEF AccessInv
<1>7. panic' = "none" => FreePages = {}
  <2>1. PICK P : P = Managed
    OBVIOUS
  <2>2. PmmInv(P)
    BY <2>1 DEF PagesInv
  <2>3. nr_free = Cardinality(FreePages) /\ IsFiniteSet(FreePages)
    BY <1>6, <2>2, PmmFacts DEF Idle, Split
  <2> QED BY <1>1, <2>3, FS_EmptySet
<1>8. AccessInv'
  BY <1>1, <1>2, <1>3, <1>4, <1>6, <1>7 DEF AccessInv
<1> QED BY <1>1, <1>3, <1>4, <1>5, <1>8 DEF PagesInv, Phases

LEMMA AccessDonePages ==
    ASSUME PagesInv, AccessDone, panic = "none", UNCHANGED heapVars
    PROVE  PagesInv' /\ panic' = panic /\ Hidden' = Hidden /\ FreePages' = FreePages
<1>1. /\ phase \in {"access", "any"} /\ fault = 0 /\ todo = <<>> /\ phase' = "restore"
      /\ todo' = Append(check_rp, pt) /\ panic' = panic
      /\ UNCHANGED <<pageVars, held, op, failed, check_rp, pt, store>>
      /\ UNCHANGED <<pra_list, fault>>
  BY DEF AccessDone, tableVars
<1>2. HidesFree /\ phase' \in Accesses \cup {"give", "restore"} /\ phase' \notin Accesses /\ phase \in Accesses
  BY <1>1 DEF HidesFree, Accesses
<1>3. /\ PmmInv(Managed)' /\ HiddenInv' /\ TakeInv' /\ BigInv'
      /\ FreePages' = FreePages /\ Hidden' = Hidden
  BY <1>1, <1>2, SamePages
<1>4. AccessInv /\ TakeInv
  BY DEF PagesInv
<1>5. /\ FreePages = {} /\ pra_list \in Seq(Pages) /\ held = Singles(Range(pra_list) \cup {pt})
  BY <1>1, <1>2, <1>4 DEF AccessInv
<1>6. /\ CheckPages = Range(check_rp) \cup {pt} /\ check_rp \in Seq(Pages) /\ Distinct(check_rp)
      /\ pt \in Pages /\ pt \notin Range(check_rp) /\ CheckPages \subseteq Pages
  BY <1>1, <1>4, CheckFacts DEF TakeInv
<1>7. HeldOf(held) = CheckPages
  <2>1. PICK P : P = CheckPages
    OBVIOUS
  <2>2. PmmInv(P)
    BY <1>2, <2>1, CheckFacts
  <2>3. FreePages \cup HeldOf(held) = P
    BY <2>2, PmmFacts DEF Split
  <2> QED BY <1>5, <2>1, <2>3
<1>8. Range(pra_list) \cup {pt} = CheckPages
  <2>1. Range(pra_list) \cup {pt} \subseteq Pages
    BY <1>5, <1>6, RangeIs
  <2> QED BY <1>5, <1>7, <2>1, SinglesHeld
<1>9. todo' \in Seq(Pages) /\ Range(todo') = CheckPages /\ Distinct(todo')
  BY <1>1, <1>6, AppendFacts
<1>10. GiveInv'
  BY <1>1, <1>5, <1>8, <1>9 DEF GiveInv
<1>11. AccessInv'
  BY <1>1, <1>2 DEF AccessInv, Accesses
<1> QED BY <1>1, <1>3, <1>10, <1>11 DEF PagesInv, Phases

LEMMA CheckEndPages ==
    ASSUME PagesInv, CheckEnd, UNCHANGED heapVars
    PROVE  PagesInv' /\ panic' = panic /\ FreePages' = Hidden /\ CheckPages' = CheckPages
<1>1. /\ phase = "restore" /\ todo = <<>> /\ op = Idle
      /\ nr_free' = store.nr /\ free_list' = store.list /\ phase' = "done"
      /\ store' = [list |-> <<>>, nr |-> 0] /\ pra_list' = <<>>
      /\ UNCHANGED <<property, pg_property, held, op, failed, panic>>
      /\ UNCHANGED <<check_rp, pt, fault, todo>>
  BY DEF CheckEnd
<1>2. /\ TakeInv /\ HiddenInv /\ GiveInv /\ AccessInv /\ BigInv
      /\ panic \in {"none", "assert", "no_memory"}
  BY DEF PagesInv
<1>3. HidesFree /\ phase' \notin Accesses \cup {"give", "restore"} /\ phase \notin Accesses /\ phase # "done"
  BY <1>1 DEF HidesFree, Accesses
<1>4. /\ CheckPages \subseteq Pages /\ PmmInv(CheckPages)
  BY <1>3, CheckFacts
<1>5. CheckPages' = CheckPages /\ Managed' = Pages \ CheckPages
  BY <1>1 DEF CheckPages, Managed
<1>6. held = {}
  <2>1. Range(todo) = {}
    BY <1>1 DEF Range
  <2> QED BY <1>1, <1>2, <2>1 DEF GiveInv, Singles
<1>7. /\ store \in [list : Seq(Pages), nr : Int] /\ ListOK(store.list, property, pg_property)
      /\ Hidden \cup CheckPages = Pages /\ Hidden \cap CheckPages = {}
      /\ store.nr = Cardinality(Hidden)
  BY <1>2, <1>3 DEF HiddenInv
<1>8. op'.at = "none"
  BY <1>1 DEF Idle
<1>9. FreePages' = Hidden /\ HeldPages' = {}
  <2>1. Hidden = Cover(store.list, property)
    BY DEF Hidden, Cover, Block, Run
  <2> QED BY <1>1, <1>6, <1>8, <2>1, LinkedIsNext DEF HeldOf
<1>10. Hidden = Pages \ CheckPages
  BY <1>7
<1>11. PmmInv(Managed)'
  <2>1. PmmTypeOK'
    BY <1>1, <1>4, <1>6, <1>7 DEF PmmInv, PmmTypeOK
  <2>2. OpInv'
    BY <1>1, <1>8 DEF OpInv, Freeing, Idle, OpType
  <2>3. PartitionOf(Managed)'
    BY <1>1, <1>5, <1>6, <1>7, <1>9, <1>10 DEF PartitionOf
  <2> QED BY <1>1, <1>5, <1>7, <1>8, <1>9, <2>1, <2>2, <2>3 DEF PmmInv
<1>12. TakeInv'
  BY <1>1, <1>2, <1>8 DEF TakeInv
<1>13. store' \in [list : Seq(Pages), nr : Int]
  BY <1>1
<1>14. HiddenInv' /\ GiveInv' /\ AccessInv' /\ BigInv'
  BY <1>1, <1>2, <1>3, <1>13, HiddenNot, GiveNot, AccessNot, BigBoot
<1> QED BY <1>1, <1>2, <1>5, <1>9, <1>11, <1>12, <1>14 DEF PagesInv, Phases

LEMMA WritePages ==
    ASSUME PagesInv, NEW v \in VPages, Write(v), UNCHANGED heapVars
    PROVE  PagesInv' /\ Hidden' = Hidden /\ FreePages' = FreePages
<1>1. /\ phase \in Accesses /\ op = Idle /\ fault = 0
      /\ panic' = panic \/ panic' = "assert"
      /\ UNCHANGED <<pageVars, held, op, failed, check_rp, pt, store>>
      /\ UNCHANGED <<phase, pra_list, fault>>
  BY DEF Write, Accessing, Assert_
<1>2. HidesFree /\ phase' \in Accesses \cup {"give", "restore"} /\ phase' # "give"
  BY <1>1 DEF HidesFree, Accesses
<1>3. /\ PmmInv(Managed)' /\ HiddenInv' /\ TakeInv' /\ BigInv'
      /\ FreePages' = FreePages /\ Hidden' = Hidden
  BY <1>1, <1>2, SamePages
<1>4. AccessInv /\ panic \in {"none", "assert", "no_memory"} /\ phase \in Phases
  BY DEF PagesInv
<1>5. GiveInv'
  BY <1>1, GiveNot DEF Accesses
<1>6. AccessInv'
  BY <1>1, <1>3, <1>4 DEF AccessInv
<1> QED BY <1>1, <1>3, <1>4, <1>5, <1>6 DEF PagesInv

LEMMA PageFaultPages ==
    ASSUME PagesInv, NEW v \in VPages, PageFault(v), UNCHANGED heapVars
    PROVE  PagesInv' /\ panic' = panic /\ Hidden' = Hidden /\ FreePages' = FreePages
<1>1. /\ phase \in Accesses /\ op = Idle /\ fault = 0 /\ fault' = v /\ panic' = panic
      /\ v \in NextPages
      /\ UNCHANGED <<pageVars, held, op, failed, check_rp, pt, store>>
      /\ UNCHANGED <<phase, pra_list, todo>>
  BY DEF PageFault, Accessing, tableVars
<1>2. HidesFree /\ phase' \in Accesses \cup {"give", "restore"} /\ phase' # "give"
  BY <1>1 DEF HidesFree, Accesses
<1>3. /\ PmmInv(Managed)' /\ HiddenInv' /\ TakeInv' /\ BigInv'
      /\ FreePages' = FreePages /\ Hidden' = Hidden
  BY <1>1, <1>2, SamePages
<1>4. AccessInv /\ panic \in {"none", "assert", "no_memory"} /\ phase \in Phases
  BY DEF PagesInv
<1>5. GiveInv'
  BY <1>1, GiveNot DEF Accesses
<1>6. phase = "any" \/ todo # <<>>
  BY <1>1 DEF NextPages
<1>7. v # 0
  BY SwapAssumption DEF VPages
<1>8. AccessInv'
  BY <1>1, <1>3, <1>4, <1>6, <1>7 DEF AccessInv
<1> QED BY <1>1, <1>3, <1>4, <1>5, <1>8 DEF PagesInv

\* do_pgfault takes a page: NewPage and SwapIn.
LEMMA LoadPages ==
    ASSUME PagesInv, fault # 0, panic = "none", Alloc(1),
           pra_list' = <<FirstFitPage(1)>> \o pra_list, fault' = 0,
           UNCHANGED <<phase, check_rp, pt, store>>, UNCHANGED heapVars
    PROVE  /\ PagesInv' /\ panic' = panic /\ Hidden' = Hidden /\ Allocated(CheckPages, 1)
           /\ FirstFitPage(1) \notin Range(pra_list)
<1>0. PICK page, P : page = FirstFitPage(1) /\ P = CheckPages
  OBVIOUS
<1>1. phase \in Accesses
  BY DEF PagesInv, AccessInv
<1>2. HidesFree /\ phase' \in Accesses \cup {"give", "restore"} /\ phase' \notin {"give", "restore"}
  BY <1>1 DEF HidesFree, Accesses
<1>3. TakeInv /\ HiddenInv /\ AccessInv /\ BigInv /\ phase \in Phases
  BY DEF PagesInv
<1>4. PmmInv(P)
  BY <1>0, <1>2, CheckFacts
<1>5. Allocated(P, 1)
  BY <1>4, AllocKeeps
<1>6. /\ PmmInv(P)' /\ op' = Idle /\ failed' = FALSE /\ panic' = panic
      /\ page \in Pages /\ held' = held \cup {<<page, 1>>} /\ Run(page, 1) \subseteq FreePages
      /\ FreePages' = FreePages \ Run(page, 1)
      /\ \A x \in Pages \ P :
            property'[x] = property[x] /\ (x \in pg_property' <=> x \in pg_property)
  BY <1>0, <1>5 DEF Allocated
<1>7. /\ pra_list \in Seq(Pages) /\ Distinct(pra_list)
      /\ held = Singles(Range(pra_list) \cup {pt}) /\ pt \notin Range(pra_list)
  BY <1>1, <1>3 DEF AccessInv
<1>8. Split(P, FreePages, held) /\ page \in FreePages /\ page \in P
  <2>1. page \in Run(page, 1)
    BY <1>6, PagesFacts, InRun
  <2> QED BY <1>4, <1>6, <2>1, PmmFacts DEF Split
<1>9. page \notin Range(pra_list) /\ page # pt
  <2>1. Range(pra_list) \cup {pt} \subseteq Pages
    BY <1>1, <1>3, <1>7, RangeIs DEF TakeInv, Accesses
  <2>2. HeldOf(held) = Range(pra_list) \cup {pt}
    BY <1>7, <2>1, SinglesHeld
  <2> QED BY <1>8, <2>2 DEF Split
<1>10. pra_list' \in Seq(Pages) /\ Distinct(pra_list') /\ Range(pra_list') = Range(pra_list) \cup {page}
  BY <1>0, <1>6, <1>7, <1>9, ConsFacts
<1>11. held' = Singles(Range(pra_list') \cup {pt})
  <2>1. Singles(Range(pra_list') \cup {pt}) = Singles(Range(pra_list) \cup {pt}) \cup {<<page, 1>>}
    BY <1>10 DEF Singles
  <2> QED BY <1>6, <1>7, <2>1
<1>12. held' \subseteq Singles(CheckPages) /\ property' \in [Pages -> Nat]
  <2>1. <<page, 1>> \in Singles(CheckPages)
    BY <1>0, <1>8, InSingles
  <2> QED BY <1>2, <1>3, <1>6, <2>1 DEF HiddenInv, PmmInv, PmmTypeOK
<1>13. HiddenInv' /\ CheckPages' = CheckPages /\ Managed' = P /\ Hidden' = Hidden
  BY <1>0, <1>2, <1>6, <1>12, HiddenKeeps
<1>14. PmmInv(Managed)'
  BY <1>6, <1>13, PmmManaged
<1>15. op'.at = "none" /\ phase \notin {"boot", "take", "done", "give"}
  BY <1>1, <1>6 DEF Idle, Accesses
<1>16. TakeInv' /\ GiveInv'
  BY <1>2, <1>3, <1>6, <1>15, GiveNot DEF TakeInv
<1>17. AccessInv'
  <2>1. phase \in {"access", "any"} => FreePages' = {}
    <3> SUFFICES ASSUME phase \in {"access", "any"} PROVE FreePages' = {}
      OBVIOUS
    <3>1. \A x, y \in FreePages : x = y
      BY <1>3 DEF AccessInv
    <3>2. page \in Run(page, 1)
      BY <1>6, PagesFacts, InRun
    <3> QED BY <1>6, <1>8, <3>1, <3>2
  <2> QED BY <1>6, <1>7, <1>9, <1>10, <1>11, <2>1 DEF AccessInv
<1>18. BigInv'
  BY <1>3, <1>15, BigBoot
<1> QED BY <1>0, <1>3, <1>5, <1>6, <1>9, <1>13, <1>14, <1>16, <1>17, <1>18 DEF PagesInv

LEMMA NewPagePages ==
    ASSUME PagesInv, NewPage, panic = "none", UNCHANGED heapVars
    PROVE  PagesInv' /\ panic' = panic /\ Hidden' = Hidden /\ Allocated(CheckPages, 1)
<1>1. /\ fault # 0 /\ Alloc(1) /\ pra_list' = <<FirstFitPage(1)>> \o pra_list /\ fault' = 0
      /\ UNCHANGED <<phase, check_rp, pt, store>>
  BY DEF NewPage, MapSwappable
<1> QED BY <1>1, LoadPages

LEMMA SwapInPages ==
    ASSUME PagesInv, NEW ok \in BOOLEAN, SwapIn(ok), panic = "none", UNCHANGED heapVars
    PROVE  PagesInv' /\ panic' = panic /\ Hidden' = Hidden /\ Allocated(CheckPages, 1)
<1>1. /\ fault # 0 /\ Alloc(1) /\ pra_list' = <<FirstFitPage(1)>> \o pra_list /\ fault' = 0
      /\ UNCHANGED <<phase, check_rp, pt, store>>
  BY DEF SwapIn, MapSwappable
<1> QED BY <1>1, LoadPages

\* swap_out gives the page of the victim back.
LEMMA SwapOutPages ==
    ASSUME PagesInv, SwapOut, UNCHANGED heapVars
    PROVE  /\ PagesInv' /\ panic' = panic /\ Hidden' = Hidden /\ Freed(CheckPages, Last(pra_list), 1)
           /\ <<Last(pra_list), 1>> \in held /\ FreePages = {}
<1>0. PICK page, P : page = Last(pra_list) /\ P = CheckPages
  OBVIOUS
<1>1. /\ fault # 0 /\ NoFit(1) /\ pra_list # <<>> /\ pra_list' = Front(pra_list)
      /\ FreeBegin(page, 1) /\ UNCHANGED <<phase, check_rp, pt, store, todo, fault>>
  BY <1>0 DEF SwapOut
<1>2. phase \in Accesses
  BY <1>1 DEF PagesInv, AccessInv
<1>3. HidesFree /\ phase' \in Accesses \cup {"give", "restore"} /\ phase' \notin {"give", "restore"}
  BY <1>1, <1>2 DEF HidesFree, Accesses
<1>4. TakeInv /\ HiddenInv /\ AccessInv /\ BigInv /\ phase \in Phases /\ panic \in {"none", "assert", "no_memory"}
  BY DEF PagesInv
<1>5. PmmInv(P)
  BY <1>0, <1>3, CheckFacts
<1>6. /\ pra_list \in Seq(Pages) /\ Distinct(pra_list)
      /\ held = Singles(Range(pra_list) \cup {pt}) /\ pt \notin Range(pra_list)
  BY <1>2, <1>4 DEF AccessInv
<1>7. /\ pra_list' \in Seq(Pages) /\ Distinct(pra_list') /\ page \in Range(pra_list)
      /\ Range(pra_list') = Range(pra_list) \ {page}
  <2>1. pra_list \in Seq(Pages) /\ pra_list # <<>> /\ Distinct(pra_list)
    BY <1>1, <1>6
  <2> QED BY <1>0, <1>1, <2>1, FrontFacts
<1>8. <<page, 1>> \in held
  BY <1>6, <1>7, InSingles
<1>9. Freed(P, page, 1)
  BY <1>1, <1>5, <1>8, FreeBeginKeeps
<1>10. /\ PmmInv(P)' /\ op'.at = "merge" /\ failed' = FALSE /\ panic' = panic
       /\ page \in Pages /\ held' = held \ {<<page, 1>>} /\ FreePages' = FreePages \cup Run(page, 1)
       /\ \A x \in Pages \ P :
            property'[x] = property[x] /\ (x \in pg_property' <=> x \in pg_property)
  BY <1>9 DEF Freed
<1>11. FreePages = {}
  BY <1>1, <1>5, NoFitFacts
<1>12. FreePages' = {page}
  BY <1>10, <1>11, PagesFacts DEF Run
<1>13. held' = Singles(Range(pra_list') \cup {pt}) /\ pt \notin Range(pra_list')
  <2>1. Range(pra_list') \cup {pt} = (Range(pra_list) \cup {pt}) \ {page}
    BY <1>6, <1>7
  <2>2. Singles((Range(pra_list) \cup {pt}) \ {page}) = Singles(Range(pra_list) \cup {pt}) \ {<<page, 1>>}
    BY DEF Singles
  <2> QED BY <1>6, <1>7, <1>10, <2>1, <2>2
<1>14. held' \subseteq Singles(CheckPages) /\ property' \in [Pages -> Nat]
  BY <1>3, <1>4, <1>10 DEF HiddenInv, PmmInv, PmmTypeOK
<1>15. HiddenInv' /\ CheckPages' = CheckPages /\ Managed' = P /\ Hidden' = Hidden
  BY <1>0, <1>1, <1>3, <1>10, <1>14, HiddenKeeps
<1>16. PmmInv(Managed)'
  BY <1>10, <1>15, PmmManaged
<1>17. phase \notin {"boot", "take", "done", "give"}
  BY <1>2 DEF Accesses
<1>18. TakeInv' /\ GiveInv'
  BY <1>1, <1>3, <1>4, <1>10, <1>17, GiveNot DEF TakeInv
<1>19. AccessInv'
  BY <1>1, <1>4, <1>7, <1>12, <1>13 DEF AccessInv
<1>20. BigInv'
  BY <1>4, <1>17, BigBoot
<1> QED BY <1>0, <1>1, <1>4, <1>8, <1>9, <1>10, <1>11, <1>15, <1>16, <1>18, <1>19, <1>20 DEF PagesInv

LEMMA SwapOutFailsPages ==
    ASSUME PagesInv, SwapOutFails, UNCHANGED heapVars
    PROVE  PagesInv' /\ panic' = panic /\ Hidden' = Hidden /\ FreePages' = FreePages
<1>1. /\ fault # 0 /\ pra_list # <<>> /\ pra_list' = <<Last(pra_list)>> \o Front(pra_list)
      /\ panic' = panic
      /\ UNCHANGED <<pageVars, held, op, failed, check_rp, pt, store>>
      /\ UNCHANGED <<phase, todo, fault>>
  BY DEF SwapOutFails
<1>2. AccessInv /\ panic \in {"none", "assert", "no_memory"} /\ phase \in Phases
  BY DEF PagesInv
<1>3. phase \in Accesses
  BY <1>1, <1>2 DEF AccessInv
<1>4. HidesFree /\ phase' \in Accesses \cup {"give", "restore"} /\ phase' \notin {"give", "restore"}
  BY <1>1, <1>3 DEF HidesFree, Accesses
<1>5. /\ PmmInv(Managed)' /\ HiddenInv' /\ TakeInv' /\ BigInv'
      /\ FreePages' = FreePages /\ Hidden' = Hidden
  BY <1>1, <1>4, SamePages
<1>6. GiveInv'
  BY <1>4, GiveNot
<1>7. pra_list \in Seq(Pages) /\ Distinct(pra_list)
  BY <1>2, <1>3 DEF AccessInv
<1>8. PICK f, l : f = Front(pra_list) /\ l = Last(pra_list)
  OBVIOUS
<1>9. f \in Seq(Pages) /\ Distinct(f) /\ l \in Range(pra_list) /\ l \in Pages /\ Range(f) = Range(pra_list) \ {l}
  BY <1>1, <1>7, <1>8, FrontFacts
<1>10. pra_list' \in Seq(Pages) /\ Distinct(pra_list') /\ Range(pra_list') = Range(pra_list)
  <2>1. pra_list' = <<l>> \o f
    BY <1>1, <1>8
  <2>2. /\ <<l>> \o f \in Seq(Pages) /\ Range(<<l>> \o f) = Range(f) \cup {l}
        /\ Distinct(<<l>> \o f)
    BY <1>9, ConsFacts
  <2> QED BY <1>9, <2>1, <2>2
<1>11. AccessInv'
  BY <1>1, <1>2, <1>5, <1>10 DEF AccessInv
<1> QED BY <1>1, <1>2, <1>5, <1>6, <1>11 DEF PagesInv

-----------------------------------------------------------------------------
(* The heap and the other callers, after the boot.                          *)

LEMMA PowFacts ==
    ASSUME NEW k \in Nat PROVE 2^k \in Nat \ {0} /\ k < 2^k
<1>1. IsFiniteSet(1..k) /\ Cardinality(1..k) = k
  BY FS_Interval
<1>2. IsFiniteSet(0..k) /\ Cardinality(0..k) = k + 1
  BY FS_Interval
<1>3. IsFiniteSet(SUBSET (1..k)) /\ Cardinality(SUBSET (1..k)) = 2^k
  BY <1>1, FS_SUBSET
<1>4. Cardinality(SUBSET (1..k)) \in Nat
  BY <1>3, FS_CardinalityType
<1>5. ~(Cardinality(SUBSET (1..k)) < Cardinality(0..k))
  <2> SUFFICES ASSUME Cardinality(SUBSET (1..k)) < Cardinality(0..k) PROVE FALSE
    OBVIOUS
  <2>1. PICK f : f = [m \in 0..k |-> 1..m]
    OBVIOUS
  <2>2. f \in [0..k -> SUBSET (1..k)]
    BY <2>1
  <2>3. PICK x \in 0..k, y \in 0..k : x # y /\ f[x] = f[y]
    BY <1>2, <1>3, <2>2, FS_PigeonHole
  <2>4. 1..x = 1..y
    BY <2>1, <2>3
  <2>5. x \in 1..x \/ x = 0
    OBVIOUS
  <2>6. y \in 1..y \/ y = 0
    OBVIOUS
  <2> QED BY <2>3, <2>4, <2>5, <2>6
<1> QED BY <1>2, <1>3, <1>4, <1>5

\* find_order finds an order.
LEMMA OrderFacts ==
    ASSUME NEW size \in KSizes
    PROVE  find_order(size) \in Nat /\ 2^find_order(size) \in Nat \ {0}
<1>0. size \in Nat /\ PAGE_SIZE \in Nat
  BY KmallocAssumption
<1>1. PICK T : T = {k \in 0..size : size \div 2^k <= PAGE_SIZE}
  OBVIOUS
<1>2. \A k \in Nat : 2^k \in Nat \ {0} /\ k < 2^k
  BY PowFacts
<1>3. size \in T
  <2>1. PICK d : d = 2^size
    OBVIOUS
  <2>2. d \in Nat \ {0} /\ size < d
    BY <1>0, <1>2, <2>1
  <2>3. size \div d = 0
    BY <1>0, <2>2
  <2> QED BY <1>0, <1>1, <2>1, <2>3
<1>4. PICK k \in T : \A j \in T : k <= j
  <2>1. T \subseteq Nat /\ T # {}
    BY <1>0, <1>1, <1>3
  <2> QED BY <2>1, NatLeast
<1>5. k \in 0..size /\ size \div 2^k <= PAGE_SIZE
  BY <1>1, <1>4
<1>6. ASSUME NEW j \in 0..(k - 1) PROVE size \div 2^j > PAGE_SIZE
  <2>1. j \in 0..size /\ ~(k <= j) /\ j \in Nat
    BY <1>0, <1>5
  <2>2. ~(size \div 2^j <= PAGE_SIZE)
    BY <1>1, <1>4, <2>1
  <2>3. PICK d : d = 2^j
    OBVIOUS
  <2>4. d \in Nat \ {0}
    BY <1>2, <2>1, <2>3
  <2>5. size \div d \in Nat
    BY <1>0, <2>4, DivFacts
  <2> QED BY <1>0, <2>2, <2>3, <2>5
<1>7. \E o \in 0..size : size \div 2^o <= PAGE_SIZE /\ \A j \in 0..(o - 1) : size \div 2^j > PAGE_SIZE
  BY <1>5, <1>6
<1>8. find_order(size) \in 0..size
  BY <1>7, Zenon DEF find_order
<1>9. find_order(size) \in Nat
  BY <1>0, <1>8
<1> QED BY <1>2, <1>9

LEMMA SeqRange ==
    ASSUME NEW S, NEW s \in Seq(S) PROVE s \in Seq(Range(s))
<1>1. Len(s) \in Nat /\ DOMAIN s = 1..Len(s) /\ s = [i \in 1..Len(s) |-> s[i]]
  OBVIOUS
<1>2. \A i \in 1..Len(s) : s[i] \in Range(s)
  BY RangeIs
<1>3. s \in [1..Len(s) -> Range(s)]
  BY <1>1, <1>2
<1> QED BY <1>1, <1>3

\* After the boot the rest of the invariant is about what the steps of the heap
\* and of the other callers leave alone.
LEMMA DonePages ==
    ASSUME PagesInv, phase = "done", UNCHANGED <<phase, check_rp, pt, store, pra_list, fault>>,
           NEW P, P = Managed, PmmInv(P)', op'.at # "memmap",
           panic' \in {"none", "assert", "no_memory"}, BigInv'
    PROVE  PagesInv' /\ CheckPages' = CheckPages
<1>1. CheckPages' = CheckPages
  BY DEF CheckPages
<1>2. Managed' = P
  BY <1>1 DEF Managed
<1>3. PmmInv(Managed)'
  BY <1>2, PmmManaged
<1>4. TakeInv /\ HiddenInv /\ AccessInv
  BY DEF PagesInv
<1>5. phase' \notin Accesses \cup {"give", "restore"} /\ phase \notin Accesses /\ phase' = "done"
  BY DEF Accesses
<1>6. TakeInv'
  BY <1>4, <1>5 DEF TakeInv
<1>7. HiddenInv' /\ GiveInv' /\ AccessInv'
  BY <1>4, <1>5, HiddenNot, GiveNot, AccessNot DEF HiddenInv
<1> QED BY <1>1, <1>3, <1>5, <1>6, <1>7 DEF PagesInv, Phases

\* Steps that leave the pages alone.
LEMMA SameFree ==
    ASSUME NEW P, PmmInv(P), UNCHANGED <<pageVars, held, op>>, failed' \in BOOLEAN
    PROVE  PmmInv(P)' /\ FreePages' = FreePages
<1>1. UNCHANGED <<free_list, property, pg_property, nr_free>>
  BY DEF pageVars
<1>2. FreePages' = FreePages /\ HeldPages' = HeldPages
  BY <1>1 DEF FreePages, Linked, Block, HeldPages
<1>3. PartitionOf(P)'
  BY <1>1, <1>2 DEF PmmInv, PartitionOf
<1>4. OpInv'
  BY <1>1 DEF PmmInv, OpInv, MemmapOK, Initialised, Freeing
<1> QED BY <1>1, <1>2, <1>3, <1>4 DEF PmmInv, PmmTypeOK

LEMMA BigKept ==
    ASSUME BigInv, phase' = "done", bigblocks' = bigblocks, BigPages \subseteq held',
           ReqOK(req')
    PROVE  BigInv'
<1>1. BigPages' = BigPages
  BY DEF BigPages
<1> QED BY <1>1 DEF BigInv

\* The parts of the invariant that the steps after the boot use.
LEMMA DoneFacts ==
    ASSUME PagesInv, phase = "done", UNCHANGED swapVars
    PROVE  /\ PmmInv(Managed) /\ BigInv /\ panic \in {"none", "assert", "no_memory"}
           /\ Managed = Pages \ CheckPages
           /\ UNCHANGED <<phase, check_rp, pt, store, pra_list, fault>>
           /\ BigPages \subseteq held /\ Idle.at = "none" /\ NoReq.at = "none"
           /\ ReqOK(req) /\ (req.at # "none" => req.size \in KSizes)
BY CheckFacts DEF PagesInv, BigInv, ReqOK, swapVars, tableVars, Idle, NoReq

\* A call of alloc_pages that finds pages; the list of big blocks is as before.
LEMMA AllocPages ==
    ASSUME PagesInv, phase = "done", UNCHANGED swapVars, NEW n \in Nat \ {0}, Alloc(n),
           bigblocks' = bigblocks, req' = req
    PROVE  PagesInv'
<1>1. PICK P : P = Managed
  OBVIOUS
<1>2. /\ PmmInv(P) /\ BigInv /\ panic \in {"none", "assert", "no_memory"}
      /\ UNCHANGED <<phase, check_rp, pt, store, pra_list, fault>>
      /\ BigPages \subseteq held /\ Idle.at = "none"
  BY <1>1, DoneFacts
<1>3. Allocated(P, n)
  BY <1>2, AllocKeeps
<1>4. PmmInv(P)' /\ op'.at # "memmap" /\ panic' = panic /\ held \subseteq held'
  BY <1>2, <1>3 DEF Allocated
<1>5. BigInv'
  BY <1>2, <1>4, BigKept DEF BigInv
<1> QED BY <1>1, <1>2, <1>4, <1>5, DonePages

\* A call of free_pages begins, for pages that are not those of a big block.
LEMMA FreePagesLater ==
    ASSUME PagesInv, phase = "done", UNCHANGED <<swapVars, heapVars>>, NEW x \in held \ BigPages,
           FreeBegin(x[1], x[2])
    PROVE  PagesInv'
<1>1. PICK P : P = Managed
  OBVIOUS
<1>2. /\ PmmInv(P) /\ BigInv /\ panic \in {"none", "assert", "no_memory"}
      /\ UNCHANGED <<phase, check_rp, pt, store, pra_list, fault>>
      /\ BigPages \subseteq held
  BY <1>1, DoneFacts
<1>3. PICK b, n : b = x[1] /\ n = x[2]
  OBVIOUS
<1>4. x = <<b, n>> /\ <<b, n>> \in held /\ FreeBegin(b, n)
  <2>1. held \subseteq Pages \X (Nat \ {0})
    BY <1>2 DEF PmmInv, PmmTypeOK
  <2> QED BY <1>3, <2>1, InHeld
<1>5. Freed(P, b, n)
  BY <1>2, <1>4, FreeBeginKeeps
<1>6. PmmInv(P)' /\ op'.at # "memmap" /\ panic' = panic /\ held' = held \ {x}
  BY <1>4, <1>5 DEF Freed
<1>7. BigInv'
  BY <1>2, <1>6, BigMore
<1> QED BY <1>1, <1>2, <1>6, <1>7, DonePages

\* Steps that leave the pages alone.
LEMMA SamePagesLater ==
    ASSUME PagesInv, phase = "done", UNCHANGED swapVars, UNCHANGED <<pageVars, held, op>>,
           failed' \in BOOLEAN, panic' \in {"none", "assert", "no_memory"},
           bigblocks' = bigblocks, ReqOK(req')
    PROVE  PagesInv'
<1>1. PICK P : P = Managed
  OBVIOUS
<1>2. /\ PmmInv(P) /\ BigInv
      /\ UNCHANGED <<phase, check_rp, pt, store, pra_list, fault>>
      /\ BigPages \subseteq held
  BY <1>1, DoneFacts
<1>3. PmmInv(P)'
  BY <1>2, SameFree
<1>4. op'.at # "memmap"
  BY DEF PagesInv, TakeInv
<1>5. BigInv'
  BY <1>2, BigKept
<1> QED BY <1>1, <1>2, <1>3, <1>4, <1>5, DonePages

\* kmalloc of a big block: the pages it gets are not those of another one.
LEMMA BigAllocPages ==
    ASSUME PagesInv, phase = "done", UNCHANGED swapVars, BigAlloc
    PROVE  PagesInv'
<1>1. PICK P : P = Managed
  OBVIOUS
<1>2. /\ PmmInv(P) /\ BigInv /\ panic \in {"none", "assert", "no_memory"}
      /\ UNCHANGED <<phase, check_rp, pt, store, pra_list, fault>>
      /\ BigPages \subseteq held /\ Idle.at = "none" /\ req.size \in KSizes
  BY <1>1, DoneFacts DEF BigAlloc
<1>3. PICK o, n, page, b :
        /\ o = find_order(req.size) /\ n = 2^o /\ page = FirstFitPage(n)
        /\ b = [order |-> o, pages |-> page, bb |-> req.bb]
  OBVIOUS
<1>4. o \in Nat /\ n \in Nat \ {0}
  <2>1. PICK size : size = req.size
    OBVIOUS
  <2>2. find_order(size) \in Nat /\ 2^find_order(size) \in Nat \ {0}
    BY <1>2, <2>1, OrderFacts
  <2> QED BY <1>3, <2>1, <2>2
<1>5. Alloc(n) /\ bigblocks' = <<b>> \o bigblocks /\ req' = NoReq
  BY <1>3 DEF BigAlloc
<1>6. Allocated(P, n)
  BY <1>2, <1>4, <1>5, AllocKeeps
<1>7. /\ PmmInv(P)' /\ op'.at # "memmap" /\ panic' = panic /\ held' = held \cup {<<page, n>>}
      /\ page \in Pages /\ Run(page, n) \subseteq FreePages
  BY <1>2, <1>3, <1>6 DEF Allocated
<1>8. b.order = o /\ b.pages = page
  BY <1>3
<1>9. PICK S : S = Range(bigblocks) \cup {b}
  OBVIOUS
<1>10. bigblocks \in Seq(S) /\ b \in S /\ Len(bigblocks) \in Nat
  BY <1>2, <1>9, SeqMonotonic DEF BigInv
<1>11. PICK s : s = bigblocks'
  OBVIOUS
<1>12. /\ s \in Seq(S) /\ Len(s) = Len(bigblocks) + 1
       /\ \A i \in 1..(Len(bigblocks) + 1) : s[i] = IF i = 1 THEN b ELSE bigblocks[i - 1]
       /\ Range(s) = Range(bigblocks) \cup {b}
  BY <1>5, <1>10, <1>11, ConsFacts
<1>13. \A i \in 1..Len(bigblocks) :
          /\ bigblocks[i].order \in Nat /\ bigblocks[i].pages \in Pages
          /\ bigblocks[i].pages # page
  <2> SUFFICES ASSUME NEW i \in 1..Len(bigblocks)
               PROVE  /\ bigblocks[i].order \in Nat /\ bigblocks[i].pages \in Pages
                      /\ bigblocks[i].pages # page
    OBVIOUS
  <2>1. PICK c : c = bigblocks[i]
    OBVIOUS
  <2>2. c \in Range(bigblocks) /\ c.order \in Nat /\ c.pages \in Pages
    BY <1>2, <2>1, RangeIs DEF BigInv
  <2>3. <<c.pages, 2^c.order>> \in held
    BY <1>2, <2>2 DEF BigPages
  <2>4. held \subseteq Pages \X (Nat \ {0}) /\ FreePages \cap HeldOf(held) = {}
    BY <1>2, PmmFacts DEF Split
  <2>5. PICK y : y = <<c.pages, 2^c.order>>
    OBVIOUS
  <2>6. y \in held /\ y[1] = c.pages
    BY <2>3, <2>5
  <2>7. y[1] \in HeldOf(held)
    BY <2>4, <2>6, InHeld
  <2>8. page \in Run(page, n)
    BY <1>4, <1>7, PagesFacts, InRun
  <2> QED BY <1>7, <2>1, <2>2, <2>4, <2>6, <2>7, <2>8
<1>14. BigInv'
  <2>1. s \in Seq(Range(s))
    BY <1>12, SeqRange
  <2>2. \A i \in 1..Len(s) : s[i].order \in Nat /\ s[i].pages \in Pages
    <3> SUFFICES ASSUME NEW i \in 1..Len(s) PROVE s[i].order \in Nat /\ s[i].pages \in Pages
      OBVIOUS
    <3>1. CASE i = 1
      BY <1>4, <1>7, <1>8, <1>12, <3>1
    <3>2. CASE i # 1
      <4>1. i - 1 \in 1..Len(bigblocks) /\ s[i] = bigblocks[i - 1]
        BY <1>10, <1>12, <3>2
      <4> QED BY <1>13, <4>1
    <3> QED BY <3>1, <3>2
  <2>3. BigPages' \subseteq held'
    <3> SUFFICES ASSUME NEW c \in Range(s) PROVE <<c.pages, 2^c.order>> \in held'
      BY <1>11 DEF BigPages
    <3>1. CASE c = b
      BY <1>3, <1>7, <1>8, <3>1
    <3>2. CASE c \in Range(bigblocks)
      <4>1. <<c.pages, 2^c.order>> \in held
        BY <1>2, <3>2 DEF BigPages
      <4> QED BY <1>7, <4>1
    <3> QED BY <1>12, <3>1, <3>2
  <2>4. \A i, j \in 1..Len(s) : s[i].pages = s[j].pages => i = j
    <3> SUFFICES ASSUME NEW i \in 1..Len(s), NEW j \in 1..Len(s), s[i].pages = s[j].pages
                 PROVE  i = j
      OBVIOUS
    <3>1. ASSUME NEW k \in 1..Len(s), k # 1
          PROVE  k - 1 \in 1..Len(bigblocks) /\ s[k] = bigblocks[k - 1] /\ s[k].pages # page
      <4>1. k - 1 \in 1..Len(bigblocks) /\ s[k] = bigblocks[k - 1]
        BY <1>10, <1>12, <3>1
      <4> QED BY <1>13, <4>1
    <3>2. s[1].pages = page
      BY <1>8, <1>10, <1>12
    <3>3. CASE i = 1 \/ j = 1
      BY <3>1, <3>2, <3>3
    <3>4. CASE i # 1 /\ j # 1
      <4>1. i - 1 \in 1..Len(bigblocks) /\ j - 1 \in 1..Len(bigblocks)
        BY <3>1, <3>4
      <4>2. bigblocks[i - 1].pages = bigblocks[j - 1].pages
        BY <3>1, <3>4
      <4>3. i - 1 = j - 1
        BY <1>2, <4>1, <4>2 DEF BigInv
      <4> QED BY <1>12, <4>3
    <3> QED BY <3>3, <3>4
  <2>5. ReqOK(req')
    BY <1>5 DEF ReqOK
  <2> QED BY <1>2, <1>5, <1>11, <2>1, <2>2, <2>3, <2>4, <2>5 DEF BigInv
<1> QED BY <1>1, <1>2, <1>7, <1>14, DonePages

\* kfree of a big block: no other one has its pages.
LEMMA KfreeBigPages ==
    ASSUME PagesInv, phase = "done", UNCHANGED swapVars, NEW x, KfreeBig(x)
    PROVE  /\ PagesInv'
           /\ \E b, n : <<b, n>> \in held /\ FreeBegin(b, n)
<1>1. PICK P : P = Managed
  OBVIOUS
<1>2. /\ PmmInv(P) /\ BigInv /\ panic \in {"none", "assert", "no_memory"}
      /\ UNCHANGED <<phase, check_rp, pt, store, pra_list, fault>>
      /\ BigPages \subseteq held
  BY <1>1, DoneFacts
<1>3. PICK i \in 1..Len(bigblocks) :
        /\ bigblocks' = RemoveAt(bigblocks, i) /\ req = NoReq /\ req' = req
        /\ FreeBegin(bigblocks[i].pages, 2^bigblocks[i].order)
  BY DEF KfreeBig, BigOf
<1>4. PICK b, n : b = bigblocks[i].pages /\ n = 2^bigblocks[i].order
  OBVIOUS
<1>5. bigblocks \in Seq(Range(bigblocks)) /\ Len(bigblocks) \in Nat
  BY <1>2 DEF BigInv
<1>6. <<b, n>> \in held /\ FreeBegin(b, n)
  <2>1. bigblocks[i] \in Range(bigblocks)
    BY <1>5, RangeIs
  <2> QED BY <1>2, <1>3, <1>4, <2>1 DEF BigPages
<1>7. Freed(P, b, n)
  BY <1>2, <1>6, FreeBeginKeeps
<1>8. PmmInv(P)' /\ op'.at # "memmap" /\ panic' = panic /\ held' = held \ {<<b, n>>}
  BY <1>7 DEF Freed
<1>9. PICK s : s = bigblocks'
  OBVIOUS
<1>10. /\ s \in Seq(Range(bigblocks)) /\ Len(s) = Len(bigblocks) - 1
       /\ \A j \in 1..(Len(bigblocks) - 1) : s[j] = IF j < i THEN bigblocks[j] ELSE bigblocks[j + 1]
  BY <1>3, <1>5, <1>9, RemoveAtFacts
<1>11. PICK at : at = [j \in 1..Len(s) |-> IF j < i THEN j ELSE j + 1]
  OBVIOUS
<1>12. /\ \A j \in 1..Len(s) : at[j] \in 1..Len(bigblocks) /\ at[j] # i /\ s[j] = bigblocks[at[j]]
       /\ \A j, k \in 1..Len(s) : at[j] = at[k] => j = k
  <2>1. \A j \in 1..Len(s) : at[j] = IF j < i THEN j ELSE j + 1
    BY <1>11
  <2>2. i \in Nat /\ 1 <= i /\ i <= Len(bigblocks) /\ Len(s) = Len(bigblocks) - 1
    BY <1>5, <1>10
  <2>3. ASSUME NEW j \in 1..Len(s)
        PROVE  at[j] \in 1..Len(bigblocks) /\ at[j] # i /\ s[j] = bigblocks[at[j]]
    <3>1. s[j] = IF j < i THEN bigblocks[j] ELSE bigblocks[j + 1]
      BY <1>10, <2>2
    <3>2. CASE j < i
      BY <1>5, <2>1, <2>2, <3>1, <3>2
    <3>3. CASE ~(j < i)
      <4>1. at[j] = j + 1
        BY <2>1, <3>3
      <4>2. j + 1 \in 1..Len(bigblocks) /\ j + 1 # i
        BY <1>5, <2>2, <3>3
      <4> QED BY <3>1, <3>3, <4>1, <4>2
    <3> QED BY <3>2, <3>3
  <2>4. ASSUME NEW j \in 1..Len(s), NEW k \in 1..Len(s), at[j] = at[k] PROVE j = k
    <3>1. PICK u, v : u = at[j] /\ v = at[k]
      OBVIOUS
    <3>2. u = (IF j < i THEN j ELSE j + 1) /\ v = (IF k < i THEN k ELSE k + 1) /\ u = v
      BY <2>1, <2>4, <3>1
    <3> QED BY <1>5, <2>2, <3>2
  <2> QED BY <2>3, <2>4
<1>13. BigInv'
  <2>1. s \in Seq(Range(s))
    BY <1>10, SeqRange
  <2>2. \A j \in 1..Len(s) : s[j].order \in Nat /\ s[j].pages \in Pages
    BY <1>2, <1>12 DEF BigInv
  <2>3. \A j, k \in 1..Len(s) : s[j].pages = s[k].pages => j = k
    <3> SUFFICES ASSUME NEW j \in 1..Len(s), NEW k \in 1..Len(s), s[j].pages = s[k].pages
                 PROVE  at[j] = at[k]
      BY <1>12
    <3>1. PICK u, v : u = at[j] /\ v = at[k]
      OBVIOUS
    <3>2. /\ u \in 1..Len(bigblocks) /\ v \in 1..Len(bigblocks)
          /\ s[j] = bigblocks[u] /\ s[k] = bigblocks[v]
      BY <1>12, <3>1
    <3>3. bigblocks[u].pages = bigblocks[v].pages
      BY <3>2
    <3> QED BY <1>2, <3>1, <3>2, <3>3 DEF BigInv
  <2>4. BigPages' \subseteq held'
    <3> SUFFICES ASSUME NEW c \in Range(s) PROVE <<c.pages, 2^c.order>> \in held'
      BY <1>9 DEF BigPages
    <3>1. PICK j \in 1..Len(s) : c = s[j]
      BY <1>10, RangeIs
    <3>2. c = bigblocks[at[j]] /\ at[j] \in 1..Len(bigblocks) /\ at[j] # i
      BY <1>12, <3>1
    <3>3. c \in Range(bigblocks)
      BY <1>5, <3>2, RangeIs
    <3>4. <<c.pages, 2^c.order>> \in held
      BY <1>2, <3>3 DEF BigPages
    <3>5. c.pages # b
      BY <1>2, <1>4, <3>2 DEF BigInv
    <3> QED BY <1>8, <3>4, <3>5
  <2>5. ReqOK(req')
    BY <1>3 DEF ReqOK
  <2> QED BY <1>2, <1>3, <1>9, <2>1, <2>2, <2>3, <2>4, <2>5 DEF BigInv
<1>14. PagesInv'
  BY <1>1, <1>2, <1>8, <1>13, DonePages
<1> QED BY <1>6, <1>14

\* The steps of kmalloc and kfree.
LEMMA KmallocPages ==
    ASSUME PagesInv, phase = "done", panic = "none", KmallocStep, UNCHANGED swapVars
    PROVE  PagesInv'
<1>1. ReqOK(req) /\ NoReq.at = "none" /\ ReqOK(NoReq)
  BY DEF PagesInv, BigInv, NoReq, ReqOK
<1>2. failed \in BOOLEAN /\ 1 \in Nat \ {0}
  BY DEF PagesInv, PmmInv, PmmTypeOK
<1>3. ASSUME NEW size \in KSizes, KmallocBegin(size) PROVE PagesInv'
  <2>1. /\ req' = [at |-> IF Small(size) THEN "small" ELSE "bb", size |-> size, bb |-> 0]
        /\ UNCHANGED <<pageVars, held, op, failed, bigblocks>>
        /\ panic' = IF Small(size) => SlobAllocOk(size + 1) THEN panic ELSE "assert"
    BY <1>3 DEF KmallocBegin, Assert_
  <2>2. ReqOK(req')
    BY <1>3, <2>1 DEF ReqOK
  <2> QED BY <1>2, <2>1, <2>2, SamePagesLater
<1>4. CASE SlobAlloc
  <2>1. /\ req.at \in {"small", "bb"} /\ UNCHANGED <<pageVars, held, op, failed, panic, bigblocks>>
        /\ req' = NoReq \/ \E m : req' = [req EXCEPT !.at = "pages", !.bb = m]
    BY <1>4 DEF SlobAlloc
  <2>2. ReqOK(req')
    <3>1. ASSUME NEW m, req' = [req EXCEPT !.at = "pages", !.bb = m]
          PROVE  ReqOK(req')
      <4>1. PICK size, at, bb : req = [at |-> at, size |-> size, bb |-> bb] /\ size \in KSizes
        BY <1>1, <2>1 DEF ReqOK
      <4>2. req' = [at |-> "pages", size |-> size, bb |-> m]
        BY <3>1, <4>1
      <4> QED BY <4>1, <4>2 DEF ReqOK
    <3> QED BY <1>1, <2>1, <3>1
  <2> QED BY <1>2, <2>1, <2>2, SamePagesLater
<1>5. CASE SlobMore
  BY <1>2, <1>5, AllocPages DEF SlobMore
<1>6. CASE BigAlloc
  BY <1>6, BigAllocPages
<1>7. CASE BigFails
  BY <1>1, <1>2, <1>7, SamePagesLater DEF BigFails, AllocFails
<1>8. ASSUME NEW x \in live, KfreeBig(x) PROVE PagesInv'
  BY <1>8, KfreeBigPages
<1>9. ASSUME NEW x \in live, KfreeSmall(x) PROVE PagesInv'
  BY <1>1, <1>2, <1>9, SamePagesLater DEF KfreeSmall
<1> QED BY <1>3, <1>4, <1>5, <1>6, <1>7, <1>8, <1>9 DEF KmallocStep

LEMMA OutOfMemoryPages ==
    ASSUME PagesInv, OutOfMemory PROVE PagesInv' /\ FreePages' = {}
<1>1. /\ phase = "done" /\ NoFit(1) /\ panic' = "no_memory"
      /\ UNCHANGED <<pageVars, held, op, failed, swapVars, heapVars>>
  BY DEF OutOfMemory
<1>2. failed \in BOOLEAN /\ ReqOK(req)
  BY DEF PagesInv, PmmInv, PmmTypeOK, BigInv
<1>3. bigblocks' = bigblocks /\ req' = req
  BY <1>1 DEF heapVars
<1>4. PagesInv'
  BY <1>1, <1>2, <1>3, SamePagesLater
<1>5. PICK P : P = Managed
  OBVIOUS
<1>6. PmmInv(P)
  BY <1>5 DEF PagesInv
<1>7. FreePages' = FreePages
  BY <1>1, <1>2, <1>6, SameFree
<1> QED BY <1>1, <1>4, <1>6, <1>7, NoFitFacts

\* The steps of check_swap.
LEMMA SwapPages ==
    ASSUME PagesInv, SwapStep, panic = "none", UNCHANGED heapVars PROVE PagesInv'
<1>1. CASE CheckBegin \/ TakePage \/ HideFree \/ GivePage
  BY <1>1, CheckBeginPages, TakePagePages, HideFreePages, GivePagePages
<1>2. CASE SetBegin \/ SetDone \/ AccessDone \/ CheckEnd
  BY <1>2, SetBeginPages, SetDonePages, AccessDonePages, CheckEndPages
<1>3. ASSUME NEW v \in VPages, Write(v) \/ PageFault(v) PROVE PagesInv'
  BY <1>3, WritePages, PageFaultPages
<1>4. CASE NewPage \/ SwapOut \/ SwapOutFails
  BY <1>4, NewPagePages, SwapOutPages, SwapOutFailsPages
<1>5. ASSUME NEW ok \in BOOLEAN, SwapIn(ok) PROVE PagesInv'
  BY <1>5, SwapInPages
<1> QED BY <1>1, <1>2, <1>3, <1>4, <1>5 DEF SwapStep

LEMMA SameVars ==
    ASSUME PagesInv, UNCHANGED vars PROVE PagesInv' /\ FreePages' = FreePages /\ Hidden' = Hidden
<1>1. /\ UNCHANGED <<pageVars, free_list, property, pg_property, nr_free>>
      /\ UNCHANGED <<held, op, failed, panic, phase, check_rp, pt, store, pra_list, fault, todo>>
      /\ UNCHANGED <<bigblocks, req>>
  BY DEF vars, pageVars, swapVars, tableVars, heapVars
<1>2. CheckPages' = CheckPages /\ Initialised' = Initialised
  BY <1>1 DEF CheckPages, Initialised
<1>3. Managed' = Managed
  BY <1>1, <1>2 DEF Managed
<1>4. PICK P : P = Managed
  OBVIOUS
<1>5. PmmInv(P) /\ failed \in BOOLEAN
  BY <1>4 DEF PagesInv, PmmInv, PmmTypeOK
<1>6. PmmInv(P)' /\ FreePages' = FreePages
  BY <1>1, <1>5, SameFree
<1>7. PmmInv(Managed)'
  BY <1>3, <1>4, <1>6, PmmManaged
<1>8. Hidden' = Hidden
  BY <1>1 DEF Hidden, Block
<1>9. BigPages' = BigPages
  BY <1>1 DEF BigPages
<1>10. TakeInv' /\ GiveInv' /\ AccessInv'
  BY <1>1, <1>2, <1>6 DEF PagesInv, TakeInv, GiveInv, AccessInv
<1>11. HiddenInv'
  BY <1>1, <1>2, <1>8 DEF PagesInv, HiddenInv, HidesFree
<1>12. BigInv'
  BY <1>1, <1>9 DEF PagesInv, BigInv
<1> QED BY <1>1, <1>6, <1>7, <1>8, <1>10, <1>11, <1>12 DEF PagesInv

LEMMA NextPagesInv ==
    ASSUME PagesInv, [Next]_vars PROVE PagesInv'
<1>1. CASE UNCHANGED vars
  BY <1>1, SameVars
<1>2. CASE PmmStep /\ UNCHANGED <<swapVars, heapVars>>
  BY <1>2, PmmStepPages
<1>3. CASE panic = "none" /\ SwapStep /\ UNCHANGED heapVars
  BY <1>3, SwapPages
<1>4. CASE panic = "none" /\ phase = "done" /\ KmallocStep /\ UNCHANGED swapVars
  BY <1>4, KmallocPages
<1>5. ASSUME NEW n \in Sizes, Booted, UNCHANGED <<swapVars, heapVars>>,
             Alloc(n) \/ AllocFails(n), panic = "none"
      PROVE  PagesInv'
  <2>1. n \in Nat \ {0} /\ phase = "done" /\ req = NoReq /\ bigblocks' = bigblocks /\ req' = req
    BY <1>5, PmmAssumption DEF Booted, heapVars
  <2>2. CASE Alloc(n)
    BY <1>5, <2>1, <2>2, AllocPages
  <2>3. CASE AllocFails(n)
    BY <1>5, <2>1, <2>3, SamePagesLater DEF AllocFails, ReqOK
  <2> QED BY <1>5, <2>2, <2>3
<1>6. ASSUME NEW x \in held \ (HeapPages \cup {<<p, 1>> : p \in CheckPages}), Booted,
             FreeBegin(x[1], x[2]), UNCHANGED <<swapVars, heapVars>>
      PROVE  PagesInv'
  BY <1>6, FreePagesLater DEF HeapPages, Booted
<1>7. CASE OutOfMemory
  BY <1>7, OutOfMemoryPages
<1> QED BY <1>1, <1>2, <1>3, <1>4, <1>5, <1>6, <1>7 DEF Next

LEMMA InitPages == Init => PagesInv
<1> SUFFICES ASSUME Init PROVE PagesInv
  OBVIOUS
<1>1. /\ free_list = <<>> /\ nr_free = 0 /\ property = [p \in Pages |-> 0] /\ pg_property = {}
      /\ held = {} /\ op = [at |-> "memmap", base |-> 0, le |-> 1, n |-> 0] /\ failed = FALSE
      /\ panic = "none"
      /\ phase = "boot" /\ check_rp = <<>> /\ store = [list |-> <<>>, nr |-> 0]
      /\ pra_list = <<>> /\ fault = 0 /\ bigblocks = <<>> /\ req = NoReq
  BY DEF Init, PmmInit, SwapInit, KmallocInit
<1>2. <<>> \in Seq(Pages) /\ Len(<<>>) = 0 /\ Range(<<>>) = {} /\ 1..0 = {} /\ Len(MemMap) \in Nat
  BY PmmAssumption DEF Range
<1>3. op.at = "memmap" /\ op.le = 1 /\ op.base = 0 /\ op.n = 0 /\ op \in OpType
  BY <1>1 DEF OpType
<1>4. Initialised = {}
  BY <1>2, <1>3 DEF Initialised
<1>5. Managed = {}
  BY <1>1, <1>4 DEF Managed
<1>6. FreePages = {} /\ HeldPages = {}
  BY <1>1, <1>2, <1>3 DEF FreePages, Linked, HeldPages
<1>7. PartitionOf(Managed)
  BY <1>1, <1>3, <1>5, <1>6, FS_EmptySet DEF PartitionOf
<1>8. OpInv
  <2>1. 1 \in 1..(Len(MemMap) + 1)
    BY <1>2
  <2> QED BY <1>1, <1>3, <1>4, <2>1 DEF OpInv, MemmapOK, Freeing
<1>9. ListOK(free_list, property, pg_property)
  BY <1>1, <1>2 DEF ListOK
<1>10. PmmTypeOK
  <2>1. property \in [Pages -> Nat]
    BY <1>1
  <2>2. failed \in BOOLEAN
    BY <1>1
  <2>3. pg_property \subseteq Pages /\ nr_free \in Int /\ held \subseteq Pages \X (Nat \ {0})
    BY <1>1
  <2> QED BY <2>1, <2>2, <2>3 DEF PmmTypeOK
<1>11. PmmInv(Managed)
  BY <1>1, <1>3, <1>5, <1>7, <1>8, <1>9, <1>10 DEF PmmInv
<1>12. Distinct(check_rp)
  BY <1>1, <1>2 DEF Distinct
<1>13. TakeInv
  BY <1>1, <1>2, <1>3, <1>12, SwapAssumption DEF TakeInv
<1>14. HiddenInv
  BY <1>1, <1>2 DEF HiddenInv, HidesFree, Accesses
<1>15. GiveInv /\ AccessInv
  BY <1>1 DEF GiveInv, AccessInv, Accesses
<1>16. BigPages = {}
  BY <1>1, <1>2 DEF BigPages
<1>17. bigblocks \in Seq(Range(bigblocks))
  BY <1>1
<1>18. BigInv
  BY <1>1, <1>2, <1>16, <1>17 DEF BigInv, ReqOK
<1> QED BY <1>1, <1>11, <1>13, <1>14, <1>15, <1>18 DEF PagesInv, Phases

\* The inductive invariant of the memory of the kernel: default_free_pages has its
\* block between those of the sorted list, apart from those it has visited; the
\* pages that check_swap uses are held, on its FIFO list or still to be freed; and
\* a big block of kmalloc has its pages.
THEOREM PagesInvariant == Spec => []PagesInv
<1>1. PagesInv /\ [Next]_vars => PagesInv'
  BY NextPagesInv
<1> QED BY InitPages, <1>1, PTL DEF Spec

LEMMA PagesInvExact == PagesInv => PagesExact
<1> SUFFICES ASSUME PagesInv PROVE PagesExact
  OBVIOUS
<1>1. PmmInv(Managed) /\ HiddenInv
  BY DEF PagesInv
<1>2. Coalesced
  BY <1>1 DEF PmmInv, ListOK, Ends, Coalesced
<1>3. PartitionOf(Managed)
  BY <1>1 DEF PmmInv
<1> QED BY <1>1, <1>2, <1>3 DEF PagesExact, Managed, HiddenInv

\* In every memory map, and over any history of alloc_pages, free_pages, kmalloc,
\* kfree and check_swap: the list of free blocks is sorted and joined, and every
\* page is in one free block or in one block that a caller has.
THEOREM PagesAreExact == Spec => []PagesExact
BY PagesInvariant, PagesInvExact, PTL

-----------------------------------------------------------------------------
\* After the boot the kernel stops only in slob_alloc, for the one size below
\* those of big blocks, and in alloc_pages if no page is free.
StopsLate ==
    /\ phase = "done" /\ panic = "assert" => req.at = "small" /\ req.size = PAGE_SIZE - 2
    /\ panic = "no_memory" => phase = "done" /\ FreePages = {}

LEMMA NextStopsLate ==
    ASSUME PagesInv, StopsLate, [Next]_vars PROVE StopsLate'
<1>1. phase = "done" /\ panic = "assert" => req.at = "small" /\ req.size = PAGE_SIZE - 2
  BY DEF StopsLate
<1>2. panic = "no_memory" => phase = "done" /\ FreePages = {}
  BY DEF StopsLate
<1>3. CASE UNCHANGED vars
  <2>1. UNCHANGED <<phase, panic, req>> /\ FreePages' = FreePages
    BY <1>3, SameVars DEF vars, swapVars, heapVars
  <2> QED BY <1>1, <1>2, <2>1 DEF StopsLate
<1>4. CASE panic = "none" /\ panic' = "none"
  BY <1>4 DEF StopsLate
<1>5. CASE panic = "none" /\ PmmStep /\ UNCHANGED <<swapVars, heapVars>>
  <2>1. panic' = "none"
    BY <1>5, PmmStepPages
  <2> QED BY <1>4, <1>5, <2>1
<1>6. CASE panic = "none" /\ SwapStep /\ UNCHANGED heapVars
  <2>1. panic' \in {"none", "assert"} /\ (phase' = "done" => panic' = "none")
    <3>1. CASE CheckBegin \/ TakePage \/ HideFree \/ GivePage \/ AccessDone \/ CheckEnd
      BY <1>6, <3>1, CheckBeginPages, TakePagePages, HideFreePages, GivePagePages,
         AccessDonePages, CheckEndPages
    <3>2. CASE SetBegin \/ SetDone
      BY <1>6, <3>2 DEF SetBegin, SetDone, Assert_
    <3>3. ASSUME NEW v \in VPages, Write(v)
          PROVE  panic' \in {"none", "assert"} /\ (phase' = "done" => panic' = "none")
      BY <1>6, <3>3 DEF Write, Accessing, Accesses, Assert_
    <3>4. ASSUME NEW v \in VPages, PageFault(v) PROVE panic' = panic
      BY <3>4 DEF PageFault
    <3>5. CASE NewPage \/ SwapOut \/ SwapOutFails
      BY <1>6, <3>5, NewPagePages, SwapOutPages, SwapOutFailsPages
    <3>6. ASSUME NEW ok \in BOOLEAN, SwapIn(ok) PROVE panic' = panic
      BY <1>6, <3>6, SwapInPages
    <3> QED BY <1>6, <3>1, <3>2, <3>3, <3>4, <3>5, <3>6 DEF SwapStep
  <2> QED BY <2>1 DEF StopsLate
<1>7. PICK P : P = Managed
  OBVIOUS
<1>8. PmmInv(P)
  BY <1>7 DEF PagesInv
<1>9. \A b, n : <<b, n>> \in held /\ FreeBegin(b, n) => panic' = panic
  <2> SUFFICES ASSUME NEW b, NEW n, <<b, n>> \in held, FreeBegin(b, n) PROVE panic' = panic
    OBVIOUS
  <2>1. Freed(P, b, n)
    BY <1>8, FreeBeginKeeps
  <2> QED BY <2>1 DEF Freed
<1>10. CASE panic = "none" /\ phase = "done" /\ KmallocStep /\ UNCHANGED swapVars
  <2>1. ASSUME NEW size \in KSizes, KmallocBegin(size) PROVE StopsLate'
    <3>1. /\ req' = [at |-> IF Small(size) THEN "small" ELSE "bb", size |-> size, bb |-> 0]
          /\ panic' = IF Small(size) => SlobAllocOk(size + 1) THEN panic ELSE "assert"
      BY <2>1 DEF KmallocBegin, Assert_
    <3>2. size \in Nat /\ PAGE_SIZE \in Nat
      BY KmallocAssumption
    <3>3. CASE Small(size) => SlobAllocOk(size + 1)
      BY <1>4, <1>10, <3>1, <3>3
    <3>4. CASE ~(Small(size) => SlobAllocOk(size + 1))
      <4>1. size = PAGE_SIZE - 2 /\ Small(size)
        BY <3>2, <3>4 DEF Small, SlobAllocOk
      <4> QED BY <3>1, <3>4, <4>1 DEF StopsLate
    <3> QED BY <3>3, <3>4
  <2>2. CASE SlobAlloc \/ SlobMore \/ BigAlloc \/ BigFails
    <3>1. panic' = panic
      BY <2>2 DEF SlobAlloc, SlobMore, BigAlloc, BigFails, Alloc, AllocFails
    <3> QED BY <1>4, <1>10, <3>1
  <2>3. ASSUME NEW x \in live, KfreeBig(x) PROVE StopsLate'
    BY <1>4, <1>9, <1>10, <2>3, KfreeBigPages
  <2>4. ASSUME NEW x \in live, KfreeSmall(x) PROVE StopsLate'
    BY <1>4, <1>10, <2>4 DEF KfreeSmall
  <2> QED BY <1>10, <2>1, <2>2, <2>3, <2>4 DEF KmallocStep
<1>11. ASSUME NEW n \in Sizes, panic = "none", Alloc(n) \/ AllocFails(n) PROVE StopsLate'
  BY <1>4, <1>11 DEF Alloc, AllocFails
<1>12. ASSUME NEW x \in held, FreeBegin(x[1], x[2]), panic = "none" PROVE StopsLate'
  <2>1. held \subseteq Pages \X (Nat \ {0})
    BY <1>8 DEF PmmInv, PmmTypeOK
  <2>2. <<x[1], x[2]>> \in held
    BY <2>1, InHeld
  <2> QED BY <1>4, <1>9, <1>12, <2>2
<1>13. CASE OutOfMemory
  <2>1. phase' = "done" /\ panic' = "no_memory" /\ FreePages' = {}
    BY <1>13, OutOfMemoryPages DEF OutOfMemory, swapVars
  <2> QED BY <2>1 DEF StopsLate
<1> QED BY <1>3, <1>5, <1>6, <1>10, <1>11, <1>12, <1>13 DEF Next

\* After the boot no assertion of default_pmm.c fails, and none of kmalloc.c but the
\* one of slob_alloc for the one size just below those of big blocks; alloc_pages
\* stops the kernel only if no page is free.
THEOREM AssertsAfterBoot == Spec => []StopsLate
<1>1. Init => StopsLate
  BY DEF Init, PmmInit, StopsLate
<1>2. PagesInv /\ StopsLate /\ [Next]_vars => StopsLate'
  BY NextStopsLate
<1> QED BY PagesInvariant, <1>1, <1>2, PTL DEF Spec

-----------------------------------------------------------------------------
(* The page allocator implements PageAlloc.                                 *)

\* As blocks that touch are joined, contiguous free pages are in one block.
LEMMA RunInBlock ==
    ASSUME NEW L, NEW pr \in [Pages -> Nat], NEW mk, ListOK(L, pr, mk),
           NEW c \in Nat, NEW n \in Nat \ {0}, Run(c, n) \subseteq Cover(L, pr)
    PROVE  \E i \in 1..Len(L) : L[i] <= c /\ pr[L[i]] >= n
<1>1. L \in Seq(Pages) /\ Len(L) \in Nat
  BY DEF ListOK
<1>2. \A i \in 1..Len(L) : L[i] \in Nat /\ L[i] \in Pages /\ pr[L[i]] \in Nat
  BY <1>1, ListFacts
<1>3. ASSUME NEW x \in Cover(L, pr)
      PROVE  x \in Nat /\ \E i \in 1..Len(L) : L[i] <= x /\ x < L[i] + pr[L[i]]
  <2>1. PICK i \in 1..Len(L) : x \in Run(L[i], pr[L[i]])
    BY <1>1, <1>3, InCover DEF Run
  <2>2. PICK p, m : p = L[i] /\ m = pr[L[i]]
    OBVIOUS
  <2>3. p \in Nat /\ m \in Nat /\ x \in Run(p, m)
    BY <1>2, <2>1, <2>2
  <2>4. x \in Nat /\ p <= x /\ x < p + m
    BY <2>3 DEF Run
  <2> QED BY <2>2, <2>4
<1>4. c \in Run(c, n)
  BY InRun
<1>5. PICK i \in 1..Len(L) : L[i] <= c /\ c < L[i] + pr[L[i]]
  BY <1>3, <1>4
<1>6. PICK p, m : p = L[i] /\ m = pr[L[i]]
  OBVIOUS
<1>7. p \in Nat /\ m \in Nat /\ p <= c /\ c < p + m
  BY <1>2, <1>5, <1>6
<1>8. c + n <= p + m
  <2> SUFFICES ASSUME ~(c + n <= p + m) PROVE FALSE
    OBVIOUS
  <2>1. p + m \in Run(c, n)
    BY <1>7 DEF Run
  <2>2. PICK j \in 1..Len(L) : L[j] <= p + m /\ p + m < L[j] + pr[L[j]]
    BY <1>3, <2>1
  <2>3. PICK q, k : q = L[j] /\ k = pr[L[j]]
    OBVIOUS
  <2>4. q \in Nat /\ k \in Nat /\ q <= p + m /\ p + m < q + k
    BY <1>2, <2>2, <2>3
  <2>5. i # j
    BY <1>6, <1>7, <2>3, <2>4
  <2>6. i < j => p + m < q
    BY <1>6, <2>3 DEF ListOK, Ends
  <2>7. j < i => q + k < p
    BY <1>6, <2>3 DEF ListOK, Ends
  <2>8. i < j \/ j < i
    BY <1>1, <2>5
  <2> QED BY <1>7, <2>4, <2>6, <2>7, <2>8
<1>9. m >= n
  BY <1>7, <1>8
<1> QED BY <1>6, <1>7, <1>9

\* No n contiguous free pages.
NoRun(F, n) == \A c \in F : ~(Run(c, n) \subseteq F)

LEMMA RunSize ==
    ASSUME NEW F, F \subseteq Pages, NEW c \in Nat, NEW n \in Nat \ {0}, Run(c, n) \subseteq F
    PROVE  n <= Cardinality(F)
<1>1. IsFiniteSet(F)
  BY PagesFacts, FS_Subset
<1>2. Cardinality(Run(c, n)) = n
  BY CardRun
<1> QED BY <1>1, <1>2, FS_Subset

\* default_alloc_pages fails only if there are no n contiguous free pages.
LEMMA FailsFit ==
    ASSUME NEW P, PmmInv(P), NEW n \in Nat \ {0}, NoFit(n)
    PROVE  NoRun(FreePages, n)
<1>1. /\ property \in [Pages -> Nat] /\ ListOK(free_list, property, pg_property)
      /\ free_list \in Seq(Pages) /\ Len(free_list) \in Nat /\ Split(P, FreePages, held)
      /\ op.at # "merge" => nr_free = Cardinality(FreePages)
  BY PmmFacts
<1>2. op.at = "none" /\ (n > nr_free \/ FirstFit(n) = {})
  BY DEF NoFit, Idle
<1>3. FreePages = Cover(free_list, property) /\ FreePages \subseteq Pages
  BY <1>1, <1>2, LinkedIs DEF Freeing, Split
<1>4. SUFFICES ASSUME NEW c \in FreePages, Run(c, n) \subseteq FreePages PROVE FALSE
  BY DEF NoRun
<1>5. c \in Nat
  BY <1>3, PagesFacts
<1>6. ~(n > nr_free)
  <2>1. n <= Cardinality(FreePages) /\ Cardinality(FreePages) \in Nat
    BY <1>1, <1>3, <1>4, <1>5, RunSize, FS_CardinalityType DEF Split
  <2> QED BY <1>1, <1>2, <2>1
<1>7. PICK i \in 1..Len(free_list) : property[free_list[i]] >= n
  <2>1. Run(c, n) \subseteq Cover(free_list, property)
    BY <1>3, <1>4
  <2> QED BY <1>1, <1>5, <2>1, RunInBlock
<1>8. PICK T : T = {k \in 1..Len(free_list) : property[free_list[k]] >= n}
  OBVIOUS
<1>9. T \subseteq Nat /\ T # {}
  BY <1>7, <1>8
<1>10. PICK k \in T : \A j \in T : k <= j
  BY <1>9, NatLeast
<1>11. k \in 1..Len(free_list) /\ property[free_list[k]] >= n
  BY <1>8, <1>10
<1>12. ASSUME NEW j \in 1..(k - 1) PROVE property[free_list[j]] < n
  <2>1. j \in 1..Len(free_list) /\ ~(k <= j)
    BY <1>1, <1>11
  <2>2. ~(property[free_list[j]] >= n)
    BY <1>8, <1>10, <2>1
  <2>3. PICK v : v = property[free_list[j]]
    OBVIOUS
  <2>4. v \in Nat
    BY <1>1, <2>1, <2>3, ListFacts
  <2> QED BY <2>2, <2>3, <2>4
<1>13. k \in FirstFit(n)
  BY <1>11, <1>12 DEF FirstFit
<1> QED BY <1>2, <1>6, <1>13

\* default_alloc_pages takes the lowest free pages there are n of in a row.
LEMMA LowestFit ==
    ASSUME NEW P, PmmInv(P), NEW n \in Nat \ {0}, Alloc(n)
    PROVE  /\ FirstFitPage(n) \in FreePages
           /\ \A c \in FreePages : c < FirstFitPage(n) => ~(Run(c, n) \subseteq FreePages)
           /\ n \in 1..Cardinality(Pages)
<1>1. /\ property \in [Pages -> Nat] /\ ListOK(free_list, property, pg_property)
      /\ free_list \in Seq(Pages) /\ Len(free_list) \in Nat /\ Split(P, FreePages, held)
  BY PmmFacts
<1>2. PICK i \in FirstFit(n) : op = Idle
  BY DEF Alloc
<1>3. i \in 1..Len(free_list) /\ FirstFitPage(n) = free_list[i]
  BY FirstFitFacts
<1>4. FreePages = Cover(free_list, property) /\ FreePages \subseteq Pages
  BY <1>1, <1>2, LinkedIs DEF Freeing, Idle, Split
<1>5. PICK p : p = free_list[i]
  OBVIOUS
<1>6. p \in Nat /\ p \in Pages
  BY <1>1, <1>3, <1>5, ListFacts
<1>7. Run(p, n) \subseteq FreePages
  <2>1. Allocated(P, n)
    BY AllocKeeps
  <2> QED BY <1>3, <1>5, <2>1 DEF Allocated
<1>8. p \in FreePages
  BY <1>6, <1>7, InRun
<1>9. ASSUME NEW c \in FreePages, c < p, Run(c, n) \subseteq FreePages PROVE FALSE
  <2>1. c \in Nat /\ Run(c, n) \subseteq Cover(free_list, property)
    BY <1>4, <1>9, PagesFacts
  <2>2. PICK k \in 1..Len(free_list) : free_list[k] <= c /\ property[free_list[k]] >= n
    BY <1>1, <2>1, RunInBlock
  <2>3. PICK q, v : q = free_list[k] /\ v = property[free_list[k]]
    OBVIOUS
  <2>4. q \in Nat /\ v \in Nat /\ q <= c /\ v >= n
    BY <1>1, <2>2, <2>3, ListFacts
  <2>5. ~(k < i)
    <3> SUFFICES ASSUME k < i PROVE FALSE
      OBVIOUS
    <3>1. k \in 1..(i - 1)
      BY <1>1, <1>3
    <3>2. v < n
      BY <2>3, <3>1 DEF FirstFit
    <3> QED BY <2>4, <3>2
  <2>6. k = i => q = p
    BY <1>5, <2>3
  <2>7. i < k => p + property[p] < q
    BY <1>1, <1>3, <1>5, <2>3 DEF ListOK, Ends
  <2>8. property[p] \in Nat
    BY <1>1, <1>6
  <2>9. k = i \/ i < k
    BY <1>1, <1>3, <2>5
  <2> QED BY <1>6, <1>9, <2>1, <2>4, <2>6, <2>7, <2>8, <2>9
<1>10. n <= Cardinality(Pages) /\ Cardinality(Pages) \in Nat
  BY <1>4, <1>6, <1>7, RunSize, PagesFacts, FS_CardinalityType
<1> QED BY <1>3, <1>5, <1>8, <1>9, <1>10

\* The refinement: what a caller sees of the pages.
AbsFree ==
    CASE HidesFree -> Hidden
      [] op.at = "memmap" -> Pages
      [] OTHER -> FreePages
AbsBlocks == held \cup {<<p, 1>> : p \in CheckPages}

AbsAlloc(n) ==
    \E b \in AbsFree :
        /\ Run(b, n) \subseteq AbsFree
        /\ \A c \in AbsFree : c < b => ~(Run(c, n) \subseteq AbsFree)
        /\ AbsFree' = AbsFree \ Run(b, n)
        /\ AbsBlocks' = AbsBlocks \cup {<<b, n>>}
        /\ failed' = FALSE
AbsFails(n) == NoRun(AbsFree, n) /\ failed' = TRUE /\ AbsFree' = AbsFree /\ AbsBlocks' = AbsBlocks
AbsGives(b, n) ==
    /\ <<b, n>> \in AbsBlocks
    /\ AbsBlocks' = AbsBlocks \ {<<b, n>>}
    /\ AbsFree' = AbsFree \cup Run(b, n)
    /\ failed' = FALSE
AbsSame == AbsFree' = AbsFree /\ AbsBlocks' = AbsBlocks /\ failed' = failed

AbsStep ==
    \/ AbsSame
    \/ \E n \in 1..Cardinality(Pages) : AbsAlloc(n) \/ AbsFails(n)
    \/ \E x \in AbsBlocks : AbsGives(x[1], x[2])

LEMMA AbsIs ==
    /\ HidesFree /\ op.at # "memmap" => AbsFree = Hidden
    /\ ~HidesFree /\ op.at = "memmap" => AbsFree = Pages
    /\ ~HidesFree /\ op.at # "memmap" => AbsFree = FreePages
    /\ HidesFree' /\ op'.at # "memmap" => AbsFree' = Hidden'
    /\ ~HidesFree' /\ op'.at = "memmap" => AbsFree' = Pages
    /\ ~HidesFree' /\ op'.at # "memmap" => AbsFree' = FreePages'
    /\ AbsBlocks = held \cup Singles(CheckPages)
    /\ AbsBlocks' = held' \cup Singles(CheckPages')
BY DEF AbsFree, AbsBlocks, Singles

\* While check_swap hides the list, its pages are not free for others.
LEMMA AbsHidden ==
    ASSUME PagesInv, PagesInv', HidesFree, phase' \in Accesses \cup {"give", "restore"},
           Hidden' = Hidden, UNCHANGED <<check_rp, pt>>
    PROVE  AbsSame
<1>1. HidesFree' /\ phase # "done" /\ phase' # "done" /\ phase # "boot" /\ phase' # "boot"
  BY DEF HidesFree, Accesses
<1>2. CheckPages' = CheckPages
  BY <1>1 DEF CheckPages
<1>3. held \subseteq Singles(CheckPages) /\ held' \subseteq Singles(CheckPages')
  BY <1>1 DEF PagesInv, HiddenInv
<1>4. failed = FALSE /\ failed' = FALSE /\ op.at # "memmap" /\ op'.at # "memmap"
  BY <1>1 DEF PagesInv, TakeInv
<1> QED BY <1>1, <1>2, <1>3, <1>4, AbsIs DEF AbsSame

\* A call of alloc_pages that finds pages.
LEMMA AbsAllocs ==
    ASSUME NEW P, PmmInv(P), NEW n \in Nat \ {0}, Alloc(n), ~HidesFree, ~HidesFree',
           AbsBlocks' = AbsBlocks \cup {<<FirstFitPage(n), n>>}
    PROVE  AbsStep
<1>1. PICK b : b = FirstFitPage(n)
  OBVIOUS
<1>2. Allocated(P, n)
  BY AllocKeeps
<1>3. /\ Run(b, n) \subseteq FreePages /\ FreePages' = FreePages \ Run(b, n)
      /\ op = Idle /\ op' = Idle /\ failed' = FALSE
  BY <1>1, <1>2 DEF Allocated
<1>4. /\ b \in FreePages /\ n \in 1..Cardinality(Pages)
      /\ \A c \in FreePages : c < b => ~(Run(c, n) \subseteq FreePages)
  BY <1>1, LowestFit
<1>5. AbsFree = FreePages /\ AbsFree' = FreePages'
  BY <1>3, AbsIs DEF Idle
<1>6. AbsAlloc(n)
  BY <1>1, <1>3, <1>4, <1>5 DEF AbsAlloc
<1> QED BY <1>4, <1>6 DEF AbsStep

\* After the boot.
LEMMA DoneNotHidden ==
    ASSUME phase = "done", UNCHANGED swapVars
    PROVE  /\ ~HidesFree /\ ~HidesFree' /\ CheckPages' = CheckPages /\ phase' = "done"
           /\ UNCHANGED <<phase, check_rp, pt>>
BY DEF HidesFree, Accesses, CheckPages, swapVars

LEMMA AbsAllocLater ==
    ASSUME PagesInv, phase = "done", UNCHANGED swapVars, NEW n \in Nat \ {0}, Alloc(n)
    PROVE  AbsStep
<1>1. PICK P : P = Managed
  OBVIOUS
<1>2. PmmInv(P)
  BY <1>1 DEF PagesInv
<1>3. held' = held \cup {<<FirstFitPage(n), n>>}
  <2>1. Allocated(P, n)
    BY <1>2, AllocKeeps
  <2> QED BY <2>1 DEF Allocated
<1>4. AbsBlocks' = AbsBlocks \cup {<<FirstFitPage(n), n>>}
  BY <1>3, AbsIs, DoneNotHidden
<1> QED BY <1>2, <1>4, AbsAllocs, DoneNotHidden

\* As check_swap keeps its pages, there are never as many free pages as pages: a
\* call for more than that is no different from one for all of them.
LEMMA AbsFailsLater ==
    ASSUME PagesInv, phase = "done", UNCHANGED swapVars, NEW n \in Nat \ {0}, AllocFails(n)
    PROVE  AbsStep
<1>1. PICK P : P = Managed
  OBVIOUS
<1>2. PmmInv(P) /\ P = Pages \ CheckPages /\ pt \in Pages /\ pt \in CheckPages /\ op.at # "memmap"
  BY <1>1, CheckFacts DEF PagesInv, TakeInv, CheckPages
<1>3. /\ NoFit(n) /\ failed' = TRUE /\ UNCHANGED <<pageVars, held, op, panic>>
  BY DEF AllocFails
<1>4. FreePages' = FreePages
  BY <1>2, <1>3, SameFree
<1>5. AbsFree = FreePages /\ AbsFree' = FreePages /\ AbsBlocks' = AbsBlocks
  BY <1>2, <1>3, <1>4, AbsIs, DoneNotHidden
<1>6. PICK N1 : N1 = Cardinality(Pages)
  OBVIOUS
<1>7. N1 \in Nat \ {0}
  BY <1>2, <1>6, PagesFacts, FS_CardinalityType, FS_EmptySet
<1>8. NoRun(FreePages, n)
  BY <1>2, <1>3, FailsFit
<1>9. CASE n <= N1
  <2>1. n \in 1..N1 /\ AbsFails(n)
    BY <1>3, <1>5, <1>7, <1>8, <1>9 DEF AbsFails
  <2> QED BY <1>6, <2>1 DEF AbsStep
<1>10. CASE n > N1
  <2>1. NoRun(FreePages, N1)
    <3> SUFFICES ASSUME NEW c \in FreePages, Run(c, N1) \subseteq FreePages PROVE FALSE
      BY DEF NoRun
    <3>1. FreePages \subseteq Pages \ {pt}
      BY <1>2, PmmFacts DEF Split
    <3>2. c \in Nat /\ FreePages \subseteq Pages
      BY <3>1, PagesFacts
    <3>3. N1 <= Cardinality(FreePages)
      BY <1>7, <3>2, RunSize
    <3>4. IsFiniteSet(Pages)
      BY PagesFacts
    <3>5. IsFiniteSet(Pages \ {pt}) /\ Cardinality(Pages \ {pt}) = N1 - 1
      BY <1>2, <1>6, <3>4, FS_RemoveElement
    <3>6. Cardinality(FreePages) <= N1 - 1 /\ Cardinality(FreePages) \in Nat
      BY <3>1, <3>5, FS_Subset, FS_CardinalityType
    <3> QED BY <1>7, <3>3, <3>6
  <2>2. N1 \in 1..N1 /\ AbsFails(N1)
    BY <1>3, <1>5, <1>7, <2>1 DEF AbsFails
  <2> QED BY <1>6, <2>2 DEF AbsStep
<1> QED BY <1>7, <1>9, <1>10

LEMMA AbsFreeLater ==
    ASSUME PagesInv, phase = "done", UNCHANGED swapVars, NEW b, NEW n, <<b, n>> \in held,
           FreeBegin(b, n)
    PROVE  AbsStep
<1>1. PICK P : P = Managed
  OBVIOUS
<1>2. PmmInv(P) /\ P = Pages \ CheckPages
  BY <1>1, CheckFacts DEF PagesInv
<1>3. Freed(P, b, n)
  BY <1>2, FreeBeginKeeps
<1>4. /\ FreePages' = FreePages \cup Run(b, n) /\ held' = held \ {<<b, n>>} /\ failed' = FALSE
      /\ op.at # "memmap" /\ op'.at # "memmap"
  BY <1>3 DEF Freed, Idle
<1>5. PICK x : x = <<b, n>>
  OBVIOUS
<1>6. x \in held /\ x[1] = b /\ x[2] = n
  BY <1>5
<1>7. b \notin CheckPages
  <2>1. held \subseteq Pages \X (Nat \ {0}) /\ HeldOf(held) \subseteq P
    BY <1>2, PmmFacts DEF Split
  <2>2. b \in HeldOf(held)
    BY <1>6, <2>1, InHeld
  <2> QED BY <1>2, <2>1, <2>2
<1>8. x \notin Singles(CheckPages)
  BY <1>6, <1>7, InSingles
<1>9. AbsBlocks' = AbsBlocks \ {x} /\ x \in AbsBlocks
  BY <1>4, <1>5, <1>6, <1>8, AbsIs, DoneNotHidden
<1>10. AbsFree' = AbsFree \cup Run(b, n)
  BY <1>4, AbsIs, DoneNotHidden
<1>11. AbsGives(x[1], x[2])
  BY <1>4, <1>5, <1>6, <1>9, <1>10 DEF AbsGives
<1> QED BY <1>9, <1>11 DEF AbsStep

LEMMA AbsSameLater ==
    ASSUME PagesInv, phase = "done", UNCHANGED swapVars, UNCHANGED <<pageVars, held, op, failed>>
    PROVE  AbsStep
<1>1. PICK P : P = Managed
  OBVIOUS
<1>2. PmmInv(P) /\ op.at # "memmap" /\ failed \in BOOLEAN
  BY <1>1 DEF PagesInv, TakeInv, PmmInv, PmmTypeOK
<1>3. FreePages' = FreePages
  BY <1>2, SameFree
<1>4. AbsSame
  BY <1>2, <1>3, AbsIs, DoneNotHidden DEF AbsSame
<1> QED BY <1>4 DEF AbsStep

LEMMA AbsKmalloc ==
    ASSUME PagesInv, phase = "done", KmallocStep, UNCHANGED swapVars PROVE AbsStep
<1>1. ASSUME NEW size \in KSizes, KmallocBegin(size) PROVE AbsStep
  BY <1>1, AbsSameLater DEF KmallocBegin
<1>2. CASE SlobAlloc
  BY <1>2, AbsSameLater DEF SlobAlloc
<1>3. CASE SlobMore
  <2>1. 1 \in Nat \ {0}
    OBVIOUS
  <2> QED BY <1>3, <2>1, AbsAllocLater DEF SlobMore
<1>4. ASSUME req.at = "pages" PROVE 2^find_order(req.size) \in Nat \ {0}
  <2>1. PICK size : size = req.size
    OBVIOUS
  <2>2. size \in KSizes
    BY <1>4, <2>1 DEF PagesInv, BigInv, ReqOK, NoReq
  <2> QED BY <2>1, <2>2, OrderFacts
<1>5. PICK n : n = 2^find_order(req.size)
  OBVIOUS
<1>6. CASE BigAlloc
  BY <1>4, <1>5, <1>6, AbsAllocLater DEF BigAlloc
<1>7. CASE BigFails
  BY <1>4, <1>5, <1>7, AbsFailsLater DEF BigFails
<1>8. ASSUME NEW x \in live, KfreeBig(x) PROVE AbsStep
  <2>1. PICK b, n1 : <<b, n1>> \in held /\ FreeBegin(b, n1)
    BY <1>8, KfreeBigPages
  <2> QED BY <2>1, AbsFreeLater
<1>9. ASSUME NEW x \in live, KfreeSmall(x) PROVE AbsStep
  BY <1>9, AbsSameLater DEF KfreeSmall
<1> QED BY <1>1, <1>2, <1>3, <1>6, <1>7, <1>8, <1>9 DEF KmallocStep

\* The steps of check_swap: it takes its pages, and after that others see nothing.
LEMMA AbsSwap ==
    ASSUME PagesInv, PagesInv', SwapStep, panic = "none", UNCHANGED heapVars PROVE AbsStep
<1>1. 1 \in Nat \ {0}
  OBVIOUS
<1>2. ASSUME phase \in {"boot", "take"}, phase' = "take", Alloc(1),
             Singles(CheckPages') = Singles(CheckPages) \cup {<<FirstFitPage(1), 1>>}
      PROVE  AbsStep
  <2>1. PICK P : P = Managed
    OBVIOUS
  <2>2. PmmInv(P)
    BY <2>1 DEF PagesInv
  <2>3. held' = held \cup {<<FirstFitPage(1), 1>>}
    <3>1. Allocated(P, 1)
      BY <1>1, <1>2, <2>2, AllocKeeps
    <3> QED BY <3>1 DEF Allocated
  <2>4. AbsBlocks' = AbsBlocks \cup {<<FirstFitPage(1), 1>>}
    BY <1>2, <2>3, AbsIs
  <2>5. ~HidesFree /\ ~HidesFree'
    BY <1>2 DEF HidesFree, Accesses
  <2> QED BY <1>1, <1>2, <2>2, <2>4, <2>5, AbsAllocs
<1>3. CASE CheckBegin
  <2>1. PICK page : page = FirstFitPage(1)
    OBVIOUS
  <2>2. phase = "boot" /\ phase' = "take" /\ Alloc(1) /\ pt' = page /\ check_rp' = check_rp
    BY <1>3, <2>1 DEF CheckBegin
  <2>3. CheckPages' = CheckPages \cup {page}
    BY <2>2 DEF CheckPages
  <2>4. Singles(CheckPages') = Singles(CheckPages) \cup {<<page, 1>>}
    BY <2>3 DEF Singles
  <2> QED BY <1>2, <2>1, <2>2, <2>4
<1>4. CASE TakePage
  <2>1. PICK page : page = FirstFitPage(1)
    OBVIOUS
  <2>2. phase = "take" /\ phase' = "take" /\ Alloc(1) /\ pt' = pt /\ check_rp' = Append(check_rp, page)
    BY <1>4, <2>1 DEF TakePage
  <2>3. check_rp \in Seq(Pages) /\ page \in Pages
    <3>1. PICK P : P = Managed
      OBVIOUS
    <3>2. PmmInv(P)
      BY <3>1 DEF PagesInv
    <3>3. Allocated(P, 1)
      BY <1>1, <2>2, <3>2, AllocKeeps
    <3> QED BY <2>1, <3>3 DEF Allocated, PagesInv, TakeInv
  <2>4. Range(check_rp') = Range(check_rp) \cup {page}
    BY <2>2, <2>3, AppendFacts
  <2>5. CheckPages' = CheckPages \cup {page}
    BY <2>2, <2>4 DEF CheckPages
  <2>6. Singles(CheckPages') = Singles(CheckPages) \cup {<<page, 1>>}
    BY <2>5 DEF Singles
  <2> QED BY <1>2, <2>1, <2>2, <2>6
<1>5. CASE HideFree
  <2>1. /\ phase = "take" /\ phase' = "give" /\ UNCHANGED <<held, op, failed, check_rp, pt>>
        /\ Hidden' = FreePages
    BY <1>5, HideFreePages DEF HideFree
  <2>2. ~HidesFree /\ HidesFree' /\ op.at # "memmap" /\ op'.at # "memmap"
    BY <2>1 DEF HidesFree, Accesses, PagesInv, TakeInv
  <2>3. CheckPages' = CheckPages
    BY <2>1 DEF CheckPages
  <2>4. AbsSame
    BY <2>1, <2>2, <2>3, AbsIs DEF AbsSame
  <2> QED BY <2>4 DEF AbsStep
<1>6. ASSUME HidesFree, phase' \in Accesses \cup {"give", "restore"}, Hidden' = Hidden,
             UNCHANGED <<check_rp, pt>>
      PROVE  AbsStep
  BY <1>6, AbsHidden DEF AbsStep
<1>7. CASE GivePage \/ SetBegin \/ SetDone \/ AccessDone
  <2>1. HidesFree /\ phase' \in Accesses \cup {"give", "restore"} /\ UNCHANGED <<check_rp, pt>>
    BY <1>7 DEF GivePage, SetBegin, SetDone, AccessDone, HidesFree, Accesses
  <2>2. Hidden' = Hidden
    BY <1>7, GivePagePages, SetBeginPages, SetDonePages, AccessDonePages
  <2> QED BY <1>6, <2>1, <2>2
<1>8. CASE CheckEnd
  <2>1. /\ phase = "restore" /\ phase' = "done" /\ UNCHANGED <<held, op, failed>>
        /\ FreePages' = Hidden /\ CheckPages' = CheckPages
    BY <1>8, CheckEndPages DEF CheckEnd
  <2>2. HidesFree /\ ~HidesFree' /\ op.at # "memmap" /\ op'.at # "memmap"
    BY <2>1 DEF HidesFree, Accesses, PagesInv, TakeInv
  <2>3. AbsSame
    BY <2>1, <2>2, AbsIs DEF AbsSame
  <2> QED BY <2>3 DEF AbsStep
<1>9. fault # 0 => phase \in Accesses
  BY DEF PagesInv, AccessInv
<1>10. phase \in Accesses => HidesFree
  BY DEF HidesFree
<1>11. ASSUME NEW v \in VPages, Write(v) \/ PageFault(v) PROVE AbsStep
  <2>1. HidesFree /\ phase' \in Accesses \cup {"give", "restore"} /\ UNCHANGED <<check_rp, pt>>
    BY <1>10, <1>11 DEF Write, PageFault, Accessing
  <2>2. Hidden' = Hidden
    BY <1>11, WritePages, PageFaultPages
  <2> QED BY <1>6, <2>1, <2>2
<1>12. CASE NewPage \/ SwapOut \/ SwapOutFails
  <2>1. HidesFree /\ phase' \in Accesses \cup {"give", "restore"} /\ UNCHANGED <<check_rp, pt>>
    BY <1>9, <1>10, <1>12 DEF NewPage, SwapOut, SwapOutFails
  <2>2. Hidden' = Hidden
    BY <1>12, NewPagePages, SwapOutPages, SwapOutFailsPages
  <2> QED BY <1>6, <2>1, <2>2
<1>13. ASSUME NEW ok \in BOOLEAN, SwapIn(ok) PROVE AbsStep
  <2>1. HidesFree /\ phase' \in Accesses \cup {"give", "restore"} /\ UNCHANGED <<check_rp, pt>>
    BY <1>9, <1>10, <1>13 DEF SwapIn
  <2>2. Hidden' = Hidden
    BY <1>13, SwapInPages
  <2> QED BY <1>6, <2>1, <2>2
<1> QED BY <1>3, <1>4, <1>5, <1>7, <1>8, <1>11, <1>12, <1>13 DEF SwapStep

\* The steps of page_init and default_free_pages change nothing for a caller.
LEMMA AbsPmm ==
    ASSUME PagesInv, PagesInv', PmmStep, UNCHANGED <<swapVars, heapVars>> PROVE AbsStep
<1>1. UNCHANGED <<phase, check_rp, pt>>
  BY DEF swapVars
<1>2. /\ held' = held /\ failed' = failed
      /\ (op.at # "memmap" => /\ FreePages' = FreePages /\ op'.at # "memmap"
                              /\ (HidesFree => Hidden' = Hidden))
      /\ (op.at = "memmap" => /\ phase = "boot"
                              /\ op'.at # "memmap" => FreePages' = Pages)
  BY PmmStepPages
<1>3. CheckPages' = CheckPages /\ (HidesFree' <=> HidesFree)
  BY <1>1 DEF CheckPages, HidesFree
<1>4. op.at = "memmap" => ~HidesFree
  BY <1>2 DEF HidesFree, Accesses
<1>5. AbsBlocks' = AbsBlocks
  BY <1>2, <1>3, AbsIs
<1>6. AbsFree' = AbsFree
  <2>1. CASE op.at = "memmap" /\ op'.at = "memmap"
    BY <1>3, <1>4, <2>1, AbsIs
  <2>2. CASE op.at = "memmap" /\ op'.at # "memmap"
    BY <1>2, <1>3, <1>4, <2>2, AbsIs
  <2>3. CASE op.at # "memmap"
    BY <1>2, <1>3, <2>3, AbsIs
  <2> QED BY <2>1, <2>2, <2>3
<1> QED BY <1>2, <1>5, <1>6 DEF AbsSame, AbsStep

LEMMA AbsSameVars ==
    ASSUME PagesInv, UNCHANGED vars PROVE AbsStep
<1>1. /\ UNCHANGED <<held, op, failed, phase, check_rp, pt>>
      /\ FreePages' = FreePages /\ Hidden' = Hidden
  BY SameVars DEF vars, swapVars
<1>2. CheckPages' = CheckPages /\ (HidesFree' <=> HidesFree)
  BY <1>1 DEF CheckPages, HidesFree
<1>3. op.at = "memmap" => ~HidesFree
  BY DEF PagesInv, TakeInv, HidesFree, Accesses
<1>4. AbsFree' = AbsFree
  BY <1>1, <1>2, <1>3, AbsIs
<1>5. AbsBlocks' = AbsBlocks
  BY <1>1, <1>2, AbsIs
<1> QED BY <1>1, <1>4, <1>5 DEF AbsSame, AbsStep

LEMMA NextAbs ==
    ASSUME PagesInv, PagesInv', [Next]_vars PROVE AbsStep
<1>1. CASE UNCHANGED vars
  BY <1>1, AbsSameVars
<1>2. CASE PmmStep /\ UNCHANGED <<swapVars, heapVars>>
  BY <1>2, AbsPmm
<1>3. CASE panic = "none" /\ SwapStep /\ UNCHANGED heapVars
  BY <1>3, AbsSwap
<1>4. CASE phase = "done" /\ KmallocStep /\ UNCHANGED swapVars
  BY <1>4, AbsKmalloc
<1>5. ASSUME NEW n \in Sizes, Booted, UNCHANGED swapVars, Alloc(n) \/ AllocFails(n)
      PROVE  AbsStep
  <2>1. n \in Nat \ {0} /\ phase = "done"
    BY <1>5, PmmAssumption DEF Booted
  <2> QED BY <1>5, <2>1, AbsAllocLater, AbsFailsLater
<1>6. ASSUME NEW x \in held, Booted, UNCHANGED swapVars, FreeBegin(x[1], x[2]) PROVE AbsStep
  <2>1. held \subseteq Pages \X (Nat \ {0}) /\ phase = "done"
    BY <1>6 DEF PagesInv, PmmInv, PmmTypeOK, Booted
  <2>2. <<x[1], x[2]>> \in held
    BY <2>1, InHeld
  <2>3. PICK b, n : b = x[1] /\ n = x[2]
    OBVIOUS
  <2> QED BY <1>6, <2>1, <2>2, <2>3, AbsFreeLater
<1>7. CASE OutOfMemory
  BY <1>7, AbsSameLater DEF OutOfMemory
<1> QED BY <1>1, <1>2, <1>3, <1>4, <1>5, <1>6, <1>7 DEF Next

LEMMA AbsStepIs == AbsStep => [Abstract!Next]_(Abstract!vars)
BY DEF AbsStep, AbsSame, AbsAlloc, AbsFails, AbsGives, AbsFree, AbsBlocks, NoRun, Run,
       Abstract!Next, Abstract!vars, Abstract!Alloc, Abstract!AllocFails, Abstract!Free,
       Abstract!Fits, Abstract!Run

LEMMA InitAbs == Init => Abstract!Init
<1> SUFFICES ASSUME Init PROVE Abstract!Init
  OBVIOUS
<1>1. /\ phase = "boot" /\ op.at = "memmap" /\ held = {} /\ check_rp = <<>> /\ failed = FALSE
  BY DEF Init, PmmInit, SwapInit
<1>2. ~HidesFree
  BY <1>1 DEF HidesFree, Accesses
<1>3. CheckPages = {}
  BY <1>1 DEF CheckPages, Range
<1>4. AbsFree = Pages
  BY <1>1, <1>2, AbsIs
<1>5. AbsBlocks = {}
  BY <1>1, <1>3 DEF AbsBlocks
<1> QED BY <1>1, <1>4, <1>5 DEF Abstract!Init, AbsFree, AbsBlocks

\* alloc_pages and free_pages, with the lists, marks and merging of default_pmm.c,
\* page_init, and the list that check_swap hides, implement PageAlloc: a call gets
\* the lowest pages that do, and fails only if there are no n contiguous ones.
THEOREM PagesImplement == Spec => Implements
<1>1. PagesInv /\ PagesInv' /\ [Next]_vars => [Abstract!Next]_(Abstract!vars)
  BY NextAbs, AbsStepIs
<1> QED BY PagesInvariant, InitAbs, <1>1, PTL DEF Spec, Implements, Abstract!Spec

-----------------------------------------------------------------------------
(* Page replacement: the page table, the FIFO list and the device agree.    *)

Entries == [at : {"none", "page", "swap"}, n : Nat]
Slots == {Slot(v) : v \in VPages}

SwapType ==
    /\ pte \in [VPages -> Entries] /\ pra_vaddr \in [Pages -> Nat]
    /\ mem \in [Pages -> Nat] /\ disk \in [Slots -> Nat] /\ word \in [VPages -> Nat]
    /\ loads \in Seq(VPages) /\ errors \in Nat /\ pgfault_num \in Nat

\* Before the accesses.
FreshInv ==
    /\ phase \in {"boot", "take", "give"} =>
         /\ loads = <<>>
         /\ \A v \in VPages : pte[v] = Absent /\ word[v] = Garbage
    /\ phase \in Accesses \cup {"give"} => Len(check_rp) = N

\* An entry that is present has a page of the list, which leads back to it; one that
\* is not leads to its slot.
TableInv ==
    /\ \A p \in Range(pra_list) : pra_vaddr[p] \in VPages /\ pte[pra_vaddr[p]] = InPage(p)
    /\ \A v \in VPages :
         /\ pte[v].at = "page" =>
              \E p \in Range(pra_list) : pte[v] = InPage(p) /\ pra_vaddr[p] = v
         /\ pte[v].at = "swap" => pte[v] = OnDisk(Slot(v))
         /\ pte[v].at = "none" => pte[v] = Absent
    /\ fault # 0 => pte[fault].at # "page"

Kept(v) ==
    word[v] # Garbage =>
        \/ pte[v].at = "page" /\ mem[pte[v].n] = word[v]
        \/ pte[v].at = "swap" /\ disk[pte[v].n] = word[v]

\* The list has what was loaded last, but for the victim that makes room.
OrderInv ==
    /\ pgfault_num = Len(loads) + (IF fault = 0 THEN 0 ELSE 1)
    /\ errors = 0 =>
         /\ Len(pra_list) <= Len(loads)
         /\ \A i \in 1..Len(pra_list) : pra_vaddr[pra_list[i]] = loads[Len(loads) + 1 - i]
         /\ \/ Len(pra_list) = Len(loads) \/ Len(pra_list) = N
            \/ Len(pra_list) = N - 1 /\ fault # 0

SwapInv ==
    /\ SwapType /\ FreshInv
    /\ phase \in Accesses =>
         /\ TableInv /\ OrderInv
         /\ errors = 0 => \A v \in VPages : Kept(v)

LEMMA CardDistinct ==
    ASSUME NEW S, NEW s \in Seq(S), Distinct(s)
    PROVE  IsFiniteSet(Range(s)) /\ Cardinality(Range(s)) = Len(s)
<1>1. Len(s) \in Nat /\ DOMAIN s = 1..Len(s) /\ s = [i \in 1..Len(s) |-> s[i]]
  OBVIOUS
<1>2. IsFiniteSet(1..Len(s)) /\ Cardinality(1..Len(s)) = Len(s)
  <2>1. PICK n \in Nat : n = Len(s)
    BY <1>1
  <2>2. IsFiniteSet(1..n) /\ Cardinality(1..n) = n
    BY FS_Interval
  <2> QED BY <2>1, <2>2
<1>3. /\ \A i \in 1..Len(s) : s[i] \in Range(s)
      /\ \A x \in Range(s) : \E i \in 1..Len(s) : s[i] = x
  BY RangeIs
<1>4. s \in [1..Len(s) -> Range(s)]
  BY <1>1, <1>3
<1>5. s \in Injection(1..Len(s), Range(s))
  BY <1>1, <1>4 DEF Injection, IsInjective, Distinct
<1>6. s \in Surjection(1..Len(s), Range(s))
  BY <1>3, <1>4 DEF Surjection
<1>7. s \in Bijection(1..Len(s), Range(s))
  BY <1>5, <1>6 DEF Bijection
<1>8. ExistsBijection(1..Len(s), Range(s))
  BY <1>7 DEF ExistsBijection
<1> QED BY <1>2, <1>8, FS_Bijection

\* The pages of check_swap are on the FIFO list or free.
LEMMA FrameCount ==
    ASSUME PagesInv, phase \in Accesses, Len(check_rp) = N
    PROVE  /\ pra_list \in Seq(Pages) /\ Distinct(pra_list) /\ Len(pra_list) \in Nat
           /\ Len(pra_list) <= N
           /\ FreePages = {} => Len(pra_list) = N
           /\ \A page \in FreePages : Len(pra_list) <= N - 1 /\ page \notin Range(pra_list)
<1>1. HidesFree /\ phase # "boot" /\ N \in Nat
  BY SwapAssumption DEF HidesFree, Accesses
<1>2. /\ pra_list \in Seq(Pages) /\ Distinct(pra_list) /\ pt \notin Range(pra_list)
      /\ held = Singles(Range(pra_list) \cup {pt}) /\ held \subseteq Singles(CheckPages)
      /\ pt \notin Range(check_rp) /\ pt \in Pages
  BY <1>1 DEF PagesInv, AccessInv, HiddenInv, TakeInv
<1>3. /\ check_rp \in Seq(Pages) /\ Distinct(check_rp) /\ CheckPages = Range(check_rp) \cup {pt}
  BY <1>1, CheckFacts
<1>4. PICK P : P = CheckPages
  OBVIOUS
<1>5. PmmInv(P)
  BY <1>1, <1>4, CheckFacts
<1>6. FreePages \cap HeldOf(held) = {} /\ FreePages \cup HeldOf(held) = P
  BY <1>5, PmmFacts DEF Split
<1>7. PICK R, C : R = Range(pra_list) /\ C = Range(check_rp)
  OBVIOUS
<1>8. R \subseteq Pages
  BY <1>2, <1>7, RangeIs
<1>9. HeldOf(held) = R \cup {pt}
  <2>1. R \cup {pt} \subseteq Pages
    BY <1>2, <1>8
  <2> QED BY <1>2, <1>7, <2>1, SinglesHeld
<1>10. R \subseteq C /\ FreePages = C \ R
  BY <1>2, <1>3, <1>4, <1>6, <1>7, <1>9
<1>11. /\ IsFiniteSet(R) /\ Cardinality(R) = Len(pra_list)
       /\ IsFiniteSet(C) /\ Cardinality(C) = N
  BY <1>2, <1>3, <1>7, CardDistinct
<1>12. Len(pra_list) \in Nat /\ Len(pra_list) <= N
  BY <1>2, <1>10, <1>11, FS_Subset
<1>13. FreePages = {} => Len(pra_list) = N
  <2> SUFFICES ASSUME FreePages = {} PROVE Len(pra_list) = N
    OBVIOUS
  <2>1. R = C
    BY <1>10
  <2> QED BY <1>11, <2>1
<1>14. ASSUME NEW page \in FreePages PROVE Len(pra_list) <= N - 1 /\ page \notin Range(pra_list)
  <2>1. page \in C /\ page \notin R /\ R \subseteq C \ {page}
    BY <1>10
  <2>2. IsFiniteSet(C \ {page}) /\ Cardinality(C \ {page}) = N - 1
    BY <1>11, <2>1, FS_RemoveElement
  <2>3. Cardinality(R) <= N - 1
    BY <2>1, <2>2, FS_Subset
  <2> QED BY <1>7, <1>11, <2>1, <2>3
<1> QED BY <1>2, <1>12, <1>13, <1>14

LEMMA VFacts ==
    /\ VPages \subseteq Nat /\ 0 \notin VPages /\ N \in Nat \ {0}
    /\ \A v \in VPages : Slot(v) \in Nat /\ Slot(v) \in Slots
    /\ \A v, u \in VPages : Slot(v) = Slot(u) => v = u
BY SwapAssumption DEF VPages, Slot, Slots

LEMMA EntryOf ==
    /\ \A p \in Nat : InPage(p) \in Entries /\ InPage(p).at = "page" /\ InPage(p).n = p
    /\ \A s \in Nat : OnDisk(s) \in Entries /\ OnDisk(s).at = "swap" /\ OnDisk(s).n = s
    /\ Absent \in Entries /\ Absent.at = "none"
    /\ \A p, q : InPage(p) = InPage(q) => p = q
BY DEF InPage, OnDisk, Absent, Entries

\* do_pgfault maps a free page: the newest of the list.
LEMMA LoadSwap ==
    ASSUME PagesInv, SwapInv, phase \in Accesses, phase' = phase, check_rp' = check_rp,
           fault # 0, fault' = 0, Alloc(1), NEW page, page = FirstFitPage(1),
           MapSwappable(fault, page), loads' = Append(loads, fault),
           pte[fault].at # "page",
           UNCHANGED <<disk, pgfault_num, word>>,
           mem' \in [Pages -> Nat], \A p \in Pages : p # page => mem'[p] = mem[p],
           errors' \in Nat, errors' = 0 => errors = 0,
           errors' = 0 /\ word[fault] # Garbage => mem'[page] = word[fault]
    PROVE  SwapInv'
<1>1. SwapType /\ FreshInv /\ TableInv /\ OrderInv /\ (errors = 0 => \A v \in VPages : Kept(v))
  BY DEF SwapInv
<1>2. phase' \in Accesses /\ phase' \notin {"boot", "take", "give"} /\ Len(check_rp) = N
  BY <1>1 DEF FreshInv, Accesses
<1>3. /\ pra_list \in Seq(Pages) /\ Len(pra_list) \in Nat
      /\ \A q \in FreePages : Len(pra_list) <= N - 1 /\ q \notin Range(pra_list)
  BY <1>2, FrameCount
<1>4. page \in FreePages /\ page \in Pages /\ page \in Nat
  <2>1. PICK P : P = Managed
    OBVIOUS
  <2>2. PmmInv(P) /\ 1 \in Nat \ {0}
    BY <2>1 DEF PagesInv
  <2>3. page \in FreePages
    BY <2>2, LowestFit
  <2>4. FreePages \subseteq Pages
    BY <2>2, PmmFacts DEF Split
  <2> QED BY <2>3, <2>4, PagesFacts
<1>5. page \notin Range(pra_list) /\ Len(pra_list) <= N - 1
  BY <1>3, <1>4
<1>6. PICK f : f = fault
  OBVIOUS
<1>7. f \in VPages /\ f \in Nat
  BY <1>6, VFacts DEF PagesInv, AccessInv
<1>8. /\ pte' = [pte EXCEPT ![f] = InPage(page)] /\ pra_list' = <<page>> \o pra_list
      /\ pra_vaddr' = [pra_vaddr EXCEPT ![page] = f] /\ loads' = Append(loads, f)
  BY <1>6 DEF MapSwappable
<1>9. /\ pte \in [VPages -> Entries] /\ pra_vaddr \in [Pages -> Nat] /\ loads \in Seq(VPages)
      /\ Len(loads) \in Nat
  BY <1>1 DEF SwapType
<1>10. /\ pte' \in [VPages -> Entries] /\ pte'[f] = InPage(page)
       /\ \A v \in VPages : v # f => pte'[v] = pte[v]
  BY <1>4, <1>7, <1>8, <1>9, EntryOf
<1>11. /\ pra_vaddr' \in [Pages -> Nat] /\ pra_vaddr'[page] = f
       /\ \A p \in Pages : p # page => pra_vaddr'[p] = pra_vaddr[p]
  BY <1>4, <1>7, <1>8, <1>9
<1>12. /\ loads' \in Seq(VPages) /\ Len(loads') = Len(loads) + 1 /\ loads'[Len(loads) + 1] = f
       /\ \A i \in 1..Len(loads) : loads'[i] = loads[i]
  BY <1>7, <1>8, <1>9
<1>13. /\ Len(pra_list') = Len(pra_list) + 1 /\ Range(pra_list') = Range(pra_list) \cup {page}
       /\ \A i \in 1..(Len(pra_list) + 1) : pra_list'[i] = IF i = 1 THEN page ELSE pra_list[i - 1]
  BY <1>3, <1>4, <1>8, ConsFacts
<1>14. Range(pra_list) \subseteq Pages
  BY <1>3, RangeIs
<1>15. SwapType'
  BY <1>1, <1>10, <1>11, <1>12 DEF SwapType
<1>16. FreshInv'
  BY <1>2 DEF FreshInv
<1>17. pte[f].at # "page"
  BY <1>6
<1>18. TableInv'
  <2>1. ASSUME NEW p \in Range(pra_list') PROVE pra_vaddr'[p] \in VPages /\ pte'[pra_vaddr'[p]] = InPage(p)
    <3>1. CASE p = page
      BY <1>7, <1>10, <1>11, <3>1
    <3>2. CASE p # page
      <4>1. p \in Range(pra_list) /\ p \in Pages
        BY <1>13, <1>14, <3>2
      <4>2. PICK u : u = pra_vaddr[p]
        OBVIOUS
      <4>3. u \in VPages /\ pte[u] = InPage(p) /\ pra_vaddr'[p] = u
        BY <1>1, <1>11, <3>2, <4>1, <4>2 DEF TableInv
      <4>4. pte[u].at = "page"
        BY <4>1, <4>3, EntryOf, PagesFacts
      <4>5. u # f
        BY <1>17, <4>4
      <4> QED BY <1>10, <4>3, <4>5
    <3> QED BY <3>1, <3>2
  <2>2. ASSUME NEW v \in VPages
        PROVE  /\ pte'[v].at = "page" =>
                    \E p \in Range(pra_list') : pte'[v] = InPage(p) /\ pra_vaddr'[p] = v
               /\ pte'[v].at = "swap" => pte'[v] = OnDisk(Slot(v))
               /\ pte'[v].at = "none" => pte'[v] = Absent
    <3>1. CASE v = f
      <4>1. pte'[v].at = "page" /\ pte'[v] = InPage(page) /\ pra_vaddr'[page] = v
        BY <1>4, <1>10, <1>11, <3>1, EntryOf
      <4>2. page \in Range(pra_list')
        BY <1>13
      <4> QED BY <4>1, <4>2
    <3>2. CASE v # f
      <4>1. pte'[v] = pte[v]
        BY <1>10, <3>2
      <4>2. pte[v].at = "swap" => pte[v] = OnDisk(Slot(v))
        BY <1>1 DEF TableInv
      <4>3. pte[v].at = "none" => pte[v] = Absent
        BY <1>1 DEF TableInv
      <4>4. ASSUME pte[v].at = "page"
            PROVE  \E p \in Range(pra_list') : pte[v] = InPage(p) /\ pra_vaddr'[p] = v
        <5>1. PICK p \in Range(pra_list) : pte[v] = InPage(p) /\ pra_vaddr[p] = v
          BY <1>1, <4>4 DEF TableInv
        <5>2. p \in Range(pra_list') /\ p \in Pages /\ p # page
          BY <1>5, <1>13, <1>14
        <5> QED BY <1>11, <5>1, <5>2
      <4> QED BY <4>1, <4>2, <4>3, <4>4
    <3> QED BY <3>1, <3>2
  <2> QED BY <2>1, <2>2 DEF TableInv
<1>19. OrderInv'
  <2>1. pgfault_num' = Len(loads') + (IF fault' = 0 THEN 0 ELSE 1)
    BY <1>1, <1>9, <1>12 DEF OrderInv
  <2>2. ASSUME errors' = 0
        PROVE  /\ Len(pra_list') <= Len(loads')
               /\ \A i \in 1..Len(pra_list') : pra_vaddr'[pra_list'[i]] = loads'[Len(loads') + 1 - i]
               /\ Len(pra_list') = Len(loads') \/ Len(pra_list') = N
    <3>1. /\ Len(pra_list) <= Len(loads)
          /\ \A i \in 1..Len(pra_list) : pra_vaddr[pra_list[i]] = loads[Len(loads) + 1 - i]
          /\ Len(pra_list) = Len(loads) \/ Len(pra_list) = N \/ Len(pra_list) = N - 1
      BY <1>1, <2>2 DEF OrderInv
    <3>2. ASSUME NEW i \in 1..Len(pra_list')
          PROVE  pra_vaddr'[pra_list'[i]] = loads'[Len(loads') + 1 - i]
      <4>1. CASE i = 1
        <5>1. pra_list'[i] = page /\ Len(loads') + 1 - i = Len(loads) + 1
          BY <1>3, <1>9, <1>12, <1>13, <4>1
        <5> QED BY <1>11, <1>12, <5>1
      <4>2. CASE i # 1
        <5>1. PICK j : j = i - 1
          OBVIOUS
        <5>2. j \in 1..Len(pra_list) /\ pra_list'[i] = pra_list[j]
          BY <1>3, <1>13, <4>2, <5>1
        <5>3. PICK p : p = pra_list[j]
          OBVIOUS
        <5>4. p \in Range(pra_list) /\ p \in Pages /\ p # page
          BY <1>3, <1>5, <1>14, <5>2, <5>3, RangeIs
        <5>5. pra_vaddr'[p] = loads[Len(loads) + 1 - j]
          BY <1>11, <3>1, <5>2, <5>3, <5>4
        <5>6. PICK k : k = Len(loads) + 1 - j
          OBVIOUS
        <5>7. k \in 1..Len(loads) /\ k = Len(loads') + 1 - i
          BY <1>3, <1>9, <1>12, <3>1, <5>1, <5>2, <5>6
        <5> QED BY <1>12, <5>2, <5>3, <5>5, <5>6, <5>7
      <4> QED BY <4>1, <4>2
    <3>3. Len(pra_list') <= Len(loads')
      BY <1>3, <1>9, <1>12, <1>13, <3>1
    <3>4. Len(pra_list') = Len(loads') \/ Len(pra_list') = N
      BY <1>3, <1>5, <1>9, <1>12, <1>13, <3>1, VFacts
    <3> QED BY <3>2, <3>3, <3>4
  <2> QED BY <2>1, <2>2 DEF OrderInv
<1>20. ASSUME errors' = 0, NEW v \in VPages PROVE Kept(v)'
  <2>1. Kept(v)
    BY <1>1, <1>20
  <2>2. CASE v = f
    <3>1. pte'[v].at = "page" /\ pte'[v].n = page
      BY <1>4, <1>10, <2>2, EntryOf
    <3>2. word[v] # Garbage => mem'[page] = word[v]
      BY <1>6, <1>20, <2>2
    <3> QED BY <3>1, <3>2 DEF Kept
  <2>3. CASE v # f
    <3>1. pte'[v] = pte[v]
      BY <1>10, <2>3
    <3>2. pte[v].at = "page" => mem'[pte[v].n] = mem[pte[v].n]
      <4> SUFFICES ASSUME pte[v].at = "page" PROVE mem'[pte[v].n] = mem[pte[v].n]
        OBVIOUS
      <4>1. PICK p \in Range(pra_list) : pte[v] = InPage(p)
        BY <1>1 DEF TableInv
      <4>2. p \in Pages /\ p # page /\ pte[v].n = p
        <5>1. p \in Pages /\ p # page
          BY <1>5, <1>14, <4>1
        <5>2. p \in Nat
          BY <5>1, PagesFacts
        <5>3. InPage(p).n = p
          BY <5>2, EntryOf
        <5> QED BY <4>1, <5>1, <5>3
      <4> QED BY <4>2
    <3> QED BY <2>1, <3>1, <3>2 DEF Kept
  <2> QED BY <2>2, <2>3
<1> QED BY <1>15, <1>16, <1>18, <1>19, <1>20 DEF SwapInv

LEMMA NewPageSwap ==
    ASSUME PagesInv, SwapInv, NewPage PROVE SwapInv'
<1>1. /\ fault # 0 /\ pte[fault] = Absent /\ Alloc(1) /\ MapSwappable(fault, FirstFitPage(1))
      /\ loads' = Append(loads, fault) /\ fault' = 0 /\ phase' = phase /\ check_rp' = check_rp
      /\ mem' = mem /\ errors' = errors /\ UNCHANGED <<disk, pgfault_num, word>>
  BY DEF NewPage
<1>2. phase \in Accesses /\ fault \in VPages
  BY <1>1 DEF PagesInv, AccessInv
<1>3. SwapType /\ (errors = 0 => \A v \in VPages : Kept(v))
  BY <1>2 DEF SwapInv
<1>4. pte[fault].at # "page" /\ pte[fault].at # "swap"
  BY <1>1, EntryOf
<1>5. errors' = 0 => word[fault] = Garbage
  BY <1>1, <1>2, <1>3, <1>4 DEF Kept
<1>6. mem' \in [Pages -> Nat] /\ errors' \in Nat
  BY <1>1, <1>3 DEF SwapType
<1>7. PICK page : page = FirstFitPage(1)
  OBVIOUS
<1>8. MapSwappable(fault, page) /\ \A p \in Pages : p # page => mem'[p] = mem[p]
  BY <1>1, <1>7
<1> QED BY <1>1, <1>2, <1>4, <1>5, <1>6, <1>7, <1>8, LoadSwap

LEMMA SwapInSwap ==
    ASSUME PagesInv, SwapInv, NEW ok \in BOOLEAN, SwapIn(ok) PROVE SwapInv'
<1>1. PICK page : page = FirstFitPage(1)
  OBVIOUS
<1>2. /\ fault # 0 /\ pte[fault].at = "swap" /\ Alloc(1) /\ MapSwappable(fault, page)
      /\ loads' = Append(loads, fault) /\ fault' = 0 /\ phase' = phase /\ check_rp' = check_rp
      /\ errors' = (IF ok THEN errors ELSE errors + 1)
      /\ mem' = (IF ok THEN [mem EXCEPT ![page] = disk[pte[fault].n]] ELSE mem)
      /\ UNCHANGED <<disk, pgfault_num, word>>
  BY <1>1 DEF SwapIn
<1>3. phase \in Accesses /\ fault \in VPages
  BY <1>2 DEF PagesInv, AccessInv
<1>4. SwapType /\ TableInv /\ (errors = 0 => \A v \in VPages : Kept(v))
  BY <1>3 DEF SwapInv
<1>5. PICK f, d : f = fault /\ d = disk[Slot(f)]
  OBVIOUS
<1>6. f \in VPages /\ Slot(f) \in Slots /\ Slot(f) \in Nat
  BY <1>3, <1>5, VFacts
<1>7. pte[fault] = OnDisk(Slot(f))
  BY <1>2, <1>3, <1>4, <1>5 DEF TableInv
<1>8. pte[fault].n = Slot(f) /\ d \in Nat
  BY <1>4, <1>5, <1>6, <1>7, EntryOf DEF SwapType
<1>9. mem \in [Pages -> Nat] /\ errors \in Nat
  BY <1>4 DEF SwapType
<1>10. page \in Pages
  <2>1. PICK P : P = Managed
    OBVIOUS
  <2>2. PmmInv(P) /\ 1 \in Nat \ {0}
    BY <2>1 DEF PagesInv
  <2>3. page \in FreePages
    BY <1>1, <1>2, <2>2, LowestFit
  <2>4. FreePages \subseteq Pages
    BY <2>2, PmmFacts DEF Split
  <2> QED BY <2>3, <2>4
<1>11. word[fault] # Garbage /\ errors = 0 => d = word[fault]
  BY <1>2, <1>3, <1>4, <1>5, <1>8 DEF Kept
<1>12. /\ mem' \in [Pages -> Nat] /\ (\A p \in Pages : p # page => mem'[p] = mem[p])
       /\ errors' \in Nat /\ (errors' = 0 => errors = 0)
       /\ (errors' = 0 /\ word[fault] # Garbage => mem'[page] = word[fault])
  <2>1. CASE ok
    <3>1. mem' = [mem EXCEPT ![page] = d] /\ errors' = errors
      BY <1>2, <1>5, <1>8, <2>1
    <3>2. mem' \in [Pages -> Nat] /\ mem'[page] = d /\ (\A p \in Pages : p # page => mem'[p] = mem[p])
      BY <1>8, <1>9, <1>10, <3>1
    <3> QED BY <1>9, <1>11, <3>1, <3>2
  <2>2. CASE ~ok
    <3>1. mem' = mem /\ errors' = errors + 1
      BY <1>2, <2>2
    <3> QED BY <1>9, <3>1
  <2> QED BY <2>1, <2>2
<1>13. pte[fault].at # "page"
  BY <1>2
<1> QED BY <1>1, <1>2, <1>3, <1>12, <1>13, LoadSwap

LEMMA WriteSwap ==
    ASSUME PagesInv, SwapInv, NEW v \in VPages, Write(v) PROVE SwapInv'
<1>1. PICK x, w : x = pte[v].n /\ w = (word[v] + 1) % 2
  OBVIOUS
<1>2. /\ phase \in Accesses /\ pte[v].at = "page"
      /\ word' = [word EXCEPT ![v] = w]
      /\ mem' = [mem EXCEPT ![x] = word'[v]]
      /\ UNCHANGED <<phase, check_rp, pte, pra_list, pra_vaddr, disk, pgfault_num, fault, errors, loads>>
  BY <1>1 DEF Write, Accessing
<1>3. SwapType /\ FreshInv /\ TableInv /\ OrderInv /\ (errors = 0 => \A u \in VPages : Kept(u))
  BY <1>2 DEF SwapInv
<1>4. /\ word \in [VPages -> Nat] /\ mem \in [Pages -> Nat]
  BY <1>3 DEF SwapType
<1>5. w \in Nat
  BY <1>1, <1>4
<1>6. word' \in [VPages -> Nat] /\ word'[v] = w /\ \A u \in VPages : u # v => word'[u] = word[u]
  BY <1>2, <1>4, <1>5
<1>7. pra_list \in Seq(Pages) /\ Range(pra_list) \subseteq Pages
  <2>1. pra_list \in Seq(Pages)
    BY <1>2 DEF PagesInv, AccessInv
  <2> QED BY <2>1, RangeIs
<1>8. PICK p \in Range(pra_list) : pte[v] = InPage(p) /\ pra_vaddr[p] = v
  BY <1>2, <1>3 DEF TableInv
<1>9. p \in Pages /\ p = x
  BY <1>1, <1>7, <1>8, EntryOf, PagesFacts
<1>10. mem' = [mem EXCEPT ![x] = w]
  BY <1>2, <1>6
<1>11. mem' \in [Pages -> Nat] /\ mem'[x] = w /\ \A q \in Pages : q # x => mem'[q] = mem[q]
  BY <1>4, <1>5, <1>9, <1>10
<1>12. SwapType'
  BY <1>2, <1>3, <1>6, <1>11 DEF SwapType
<1>13. FreshInv'
  BY <1>2, <1>3 DEF FreshInv, Accesses
<1>14. TableInv' /\ OrderInv'
  BY <1>2, <1>3 DEF TableInv, OrderInv
<1>15. ASSUME errors = 0, NEW u \in VPages PROVE Kept(u)'
  <2>1. Kept(u)
    BY <1>3, <1>15
  <2>2. CASE u = v
    <3>1. pte'[u].at = "page" /\ mem'[pte'[u].n] = word'[u]
      BY <1>1, <1>2, <1>6, <1>11, <2>2
    <3> QED BY <3>1 DEF Kept
  <2>3. CASE u # v
    <3>1. word'[u] = word[u] /\ pte' = pte /\ disk' = disk
      BY <1>2, <1>6, <2>3
    <3>2. ASSUME pte[u].at = "page" PROVE mem'[pte[u].n] = mem[pte[u].n]
      <4>1. PICK q \in Range(pra_list) : pte[u] = InPage(q) /\ pra_vaddr[q] = u
        BY <1>3, <3>2 DEF TableInv
      <4>2. q \in Pages /\ q # x /\ pte[u].n = q
        BY <1>7, <1>8, <1>9, <2>3, <4>1, EntryOf, PagesFacts
      <4> QED BY <1>11, <4>2
    <3> QED BY <2>1, <3>1, <3>2 DEF Kept
  <2> QED BY <2>2, <2>3
<1> QED BY <1>2, <1>12, <1>13, <1>14, <1>15 DEF SwapInv

LEMMA PageFaultSwap ==
    ASSUME PagesInv, SwapInv, NEW v \in VPages, PageFault(v) PROVE SwapInv'
<1>1. /\ phase \in Accesses /\ fault = 0 /\ pte[v].at # "page" /\ fault' = v
      /\ pgfault_num' = pgfault_num + 1
      /\ UNCHANGED <<phase, check_rp, pte, pra_list, pra_vaddr, mem, disk, errors, word, loads>>
  BY DEF PageFault, Accessing, tableVars
<1>2. SwapType /\ FreshInv /\ TableInv /\ OrderInv /\ (errors = 0 => \A u \in VPages : Kept(u))
  BY <1>1 DEF SwapInv
<1>3. v # 0
  BY VFacts
<1>4. SwapType'
  BY <1>1, <1>2 DEF SwapType
<1>5. FreshInv'
  BY <1>1, <1>2 DEF FreshInv, Accesses
<1>6. TableInv'
  BY <1>1, <1>2 DEF TableInv
<1>7. OrderInv'
  <2>1. pgfault_num' = Len(loads') + (IF fault' = 0 THEN 0 ELSE 1)
    <3>1. Len(loads) \in Nat
      BY <1>2 DEF SwapType
    <3> QED BY <1>1, <1>2, <1>3, <3>1 DEF OrderInv
  <2> QED BY <1>1, <1>2, <2>1 DEF OrderInv
<1>8. errors' = 0 => \A u \in VPages : Kept(u)'
  BY <1>1, <1>2 DEF Kept
<1> QED BY <1>1, <1>4, <1>5, <1>6, <1>7, <1>8 DEF SwapInv
\* swap_out: the oldest page of the list leaves its content in its slot.
LEMMA SwapOutSwap ==
    ASSUME PagesInv, SwapInv, SwapOut PROVE SwapInv'
<1>1. PICK page, v : page = Last(pra_list) /\ v = pra_vaddr[page]
  OBVIOUS
<1>2. /\ fault # 0 /\ NoFit(1) /\ pra_list # <<>> /\ pra_list' = Front(pra_list)
      /\ disk' = [disk EXCEPT ![Slot(v)] = mem[page]]
      /\ pte' = [pte EXCEPT ![v] = OnDisk(Slot(v))]
      /\ UNCHANGED <<phase, check_rp, pra_vaddr, mem, pgfault_num, fault, errors, word, loads>>
  BY <1>1 DEF SwapOut
<1>3. phase \in Accesses
  BY <1>2 DEF PagesInv, AccessInv
<1>4. SwapType /\ FreshInv /\ TableInv /\ OrderInv /\ (errors = 0 => \A u \in VPages : Kept(u))
  BY <1>3 DEF SwapInv
<1>5. FreePages = {}
  <2>1. PICK P : P = Managed
    OBVIOUS
  <2>2. PmmInv(P)
    BY <2>1 DEF PagesInv
  <2> QED BY <1>2, <2>2, NoFitFacts
<1>6. /\ pra_list \in Seq(Pages) /\ Distinct(pra_list) /\ Len(pra_list) \in Nat
      /\ Len(pra_list) = N
  <2>1. Len(check_rp) = N
    BY <1>3, <1>4 DEF FreshInv
  <2> QED BY <1>3, <1>5, <2>1, FrameCount
<1>7. /\ page \in Range(pra_list) /\ page \in Pages
      /\ Range(pra_list') = Range(pra_list) \ {page} /\ Len(pra_list') = Len(pra_list) - 1
      /\ \A i \in 1..(Len(pra_list) - 1) : pra_list'[i] = pra_list[i]
  BY <1>1, <1>2, <1>6, FrontFacts
<1>8. Range(pra_list) \subseteq Pages
  BY <1>6, RangeIs
<1>9. v \in VPages /\ pte[v] = InPage(page) /\ pra_vaddr[page] = v
  BY <1>1, <1>4, <1>7 DEF TableInv
<1>10. pte[v].at = "page" /\ pte[v].n = page
  BY <1>7, <1>9, EntryOf, PagesFacts
<1>11. Slot(v) \in Nat /\ Slot(v) \in Slots
  BY <1>9, VFacts
<1>12. /\ pte \in [VPages -> Entries] /\ disk \in [Slots -> Nat] /\ mem \in [Pages -> Nat]
       /\ Len(loads) \in Nat
  BY <1>4 DEF SwapType
<1>13. /\ pte' \in [VPages -> Entries] /\ pte'[v] = OnDisk(Slot(v))
       /\ \A u \in VPages : u # v => pte'[u] = pte[u]
  BY <1>2, <1>9, <1>11, <1>12, EntryOf
<1>14. /\ disk' \in [Slots -> Nat] /\ disk'[Slot(v)] = mem[page]
       /\ \A s \in Slots : s # Slot(v) => disk'[s] = disk[s]
  BY <1>2, <1>7, <1>11, <1>12
<1>15. SwapType'
  BY <1>2, <1>4, <1>13, <1>14 DEF SwapType
<1>16. FreshInv'
  BY <1>2, <1>3, <1>4 DEF FreshInv, Accesses
<1>17. TableInv'
  <2>1. ASSUME NEW p \in Range(pra_list')
        PROVE  pra_vaddr'[p] \in VPages /\ pte'[pra_vaddr'[p]] = InPage(p)
    <3>1. p \in Range(pra_list) /\ p # page /\ p \in Pages
      BY <1>7, <1>8
    <3>2. PICK u : u = pra_vaddr[p]
      OBVIOUS
    <3>3. u \in VPages /\ pte[u] = InPage(p)
      BY <1>4, <3>1, <3>2 DEF TableInv
    <3>4. u # v
      BY <1>9, <3>1, <3>3, EntryOf
    <3> QED BY <1>2, <1>13, <3>2, <3>3, <3>4
  <2>2. ASSUME NEW u \in VPages
        PROVE  /\ pte'[u].at = "page" =>
                    \E p \in Range(pra_list') : pte'[u] = InPage(p) /\ pra_vaddr'[p] = u
               /\ pte'[u].at = "swap" => pte'[u] = OnDisk(Slot(u))
               /\ pte'[u].at = "none" => pte'[u] = Absent
    <3>1. CASE u = v
      <4>1. pte'[u] = OnDisk(Slot(u)) /\ pte'[u].at = "swap"
        BY <1>11, <1>13, <3>1, EntryOf
      <4> QED BY <4>1
    <3>2. CASE u # v
      <4>1. pte'[u] = pte[u]
        BY <1>13, <3>2
      <4>2. pte[u].at = "swap" => pte[u] = OnDisk(Slot(u))
        BY <1>4 DEF TableInv
      <4>3. pte[u].at = "none" => pte[u] = Absent
        BY <1>4 DEF TableInv
      <4>4. ASSUME pte[u].at = "page"
            PROVE  \E p \in Range(pra_list') : pte[u] = InPage(p) /\ pra_vaddr'[p] = u
        <5>1. PICK p \in Range(pra_list) : pte[u] = InPage(p) /\ pra_vaddr[p] = u
          BY <1>4, <4>4 DEF TableInv
        <5>2. p # page
          BY <1>9, <3>2, <5>1
        <5> QED BY <1>2, <1>7, <5>1, <5>2
      <4> QED BY <4>1, <4>2, <4>3, <4>4
    <3> QED BY <3>1, <3>2
  <2>3. pte'[fault'].at # "page"
    <3>1. PICK f : f = fault
      OBVIOUS
    <3>2. f \in VPages /\ pte[f].at # "page" /\ fault' = f
      BY <1>2, <1>4, <3>1 DEF TableInv, PagesInv, AccessInv
    <3>3. f # v
      BY <1>10, <3>2
    <3> QED BY <1>13, <3>2, <3>3
  <2> QED BY <2>1, <2>2, <2>3 DEF TableInv
<1>18. OrderInv'
  <2>1. pgfault_num' = Len(loads') + (IF fault' = 0 THEN 0 ELSE 1)
    BY <1>2, <1>4 DEF OrderInv
  <2>2. ASSUME errors' = 0
        PROVE  /\ Len(pra_list') <= Len(loads')
               /\ \A i \in 1..Len(pra_list') : pra_vaddr'[pra_list'[i]] = loads'[Len(loads') + 1 - i]
    <3>1. /\ Len(pra_list) <= Len(loads)
          /\ \A i \in 1..Len(pra_list) : pra_vaddr[pra_list[i]] = loads[Len(loads) + 1 - i]
      BY <1>2, <1>4, <2>2 DEF OrderInv
    <3>2. Len(pra_list') <= Len(loads')
      BY <1>2, <1>6, <1>7, <1>12, <3>1
    <3>3. ASSUME NEW i \in 1..Len(pra_list')
          PROVE  pra_vaddr'[pra_list'[i]] = loads'[Len(loads') + 1 - i]
      <4>1. i \in 1..Len(pra_list) /\ i \in 1..(Len(pra_list) - 1)
        BY <1>6, <1>7
      <4> QED BY <1>2, <1>7, <3>1, <4>1
    <3> QED BY <3>2, <3>3
  <2>3. Len(pra_list') = N - 1 /\ fault' # 0
    BY <1>2, <1>6, <1>7
  <2> QED BY <2>1, <2>2, <2>3 DEF OrderInv
<1>19. ASSUME errors' = 0, NEW u \in VPages PROVE Kept(u)'
  <2>1. Kept(u)
    BY <1>2, <1>4, <1>19
  <2>2. CASE u = v
    <3>1. pte'[u].at = "swap" /\ pte'[u].n = Slot(v) /\ disk'[Slot(v)] = mem[page]
      BY <1>11, <1>13, <1>14, <2>2, EntryOf
    <3>2. word[u] # Garbage => mem[page] = word[u]
      BY <1>10, <2>1, <2>2 DEF Kept
    <3> QED BY <1>2, <3>1, <3>2 DEF Kept
  <2>3. CASE u # v
    <3>1. pte'[u] = pte[u] /\ mem' = mem /\ word' = word
      BY <1>2, <1>13, <2>3
    <3>2. ASSUME pte[u].at = "swap" PROVE disk'[pte[u].n] = disk[pte[u].n]
      <4>1. pte[u] = OnDisk(Slot(u))
        BY <1>4, <3>2 DEF TableInv
      <4>2. Slot(u) \in Slots /\ Slot(u) # Slot(v) /\ Slot(u) \in Nat
        BY <1>9, <2>3, VFacts
      <4>3. pte[u].n = Slot(u)
        BY <4>1, <4>2, EntryOf
      <4> QED BY <1>14, <4>2, <4>3
    <3> QED BY <2>1, <3>1, <3>2 DEF Kept
  <2> QED BY <2>2, <2>3
<1> QED BY <1>2, <1>3, <1>15, <1>16, <1>17, <1>18, <1>19 DEF SwapInv

\* The victim stays mapped; its place in the list does not matter any more.
LEMMA SwapOutFailsSwap ==
    ASSUME PagesInv, SwapInv, SwapOutFails PROVE SwapInv'
<1>1. /\ fault # 0 /\ pra_list # <<>> /\ pra_list' = <<Last(pra_list)>> \o Front(pra_list)
      /\ errors' = errors + 1
      /\ UNCHANGED <<phase, check_rp, pte, pra_vaddr, mem, disk, pgfault_num, fault, word, loads>>
  BY DEF SwapOutFails
<1>2. phase \in Accesses
  BY <1>1 DEF PagesInv, AccessInv
<1>3. SwapType /\ FreshInv /\ TableInv /\ OrderInv
  BY <1>2 DEF SwapInv
<1>4. pra_list \in Seq(Pages) /\ Distinct(pra_list)
  BY <1>2 DEF PagesInv, AccessInv
<1>5. PICK s, e : s = Front(pra_list) /\ e = Last(pra_list)
  OBVIOUS
<1>6. s \in Seq(Pages) /\ e \in Pages /\ e \in Range(pra_list) /\ Range(s) = Range(pra_list) \ {e}
  BY <1>1, <1>4, <1>5, FrontFacts
<1>7. Range(<<e>> \o s) = Range(s) \cup {e}
  BY <1>6, ConsFacts
<1>8. Range(pra_list') = Range(pra_list)
  BY <1>1, <1>5, <1>6, <1>7
<1>9. errors' \in Nat /\ errors' # 0
  BY <1>1, <1>3 DEF SwapType
<1>10. SwapType'
  BY <1>1, <1>3, <1>9 DEF SwapType
<1>11. FreshInv'
  BY <1>1, <1>2, <1>3 DEF FreshInv, Accesses
<1>12. TableInv'
  BY <1>1, <1>3, <1>8 DEF TableInv
<1>13. OrderInv'
  BY <1>1, <1>3, <1>9 DEF OrderInv
<1> QED BY <1>9, <1>10, <1>11, <1>12, <1>13 DEF SwapInv
\* The steps of check_swap before and after the accesses.
LEMMA BeginSwap ==
    ASSUME PagesInv, SwapInv, CheckBegin \/ TakePage \/ HideFree \/ GivePage \/ AccessDone
    PROVE  SwapInv'
<1>1. UNCHANGED <<pte, pra_list, pra_vaddr, mem, disk, pgfault_num, fault, errors, word, loads>>
  BY DEF CheckBegin, TakePage, HideFree, GivePage, AccessDone, tableVars
<1>2. /\ phase' \in {"take", "give", "restore"} /\ phase' \notin Accesses
      /\ phase' \in {"take", "give"} => phase \in {"boot", "take", "give"}
      /\ phase' = "give" => Len(check_rp') = N
  <2>1. CASE CheckBegin \/ TakePage
    BY <2>1 DEF CheckBegin, TakePage, Accesses
  <2>2. CASE HideFree
    BY <2>2 DEF HideFree, Accesses
  <2>3. CASE GivePage
    BY <2>3 DEF GivePage, Accesses, SwapInv, FreshInv
  <2>4. CASE AccessDone
    BY <2>4 DEF AccessDone, Accesses
  <2> QED BY <2>1, <2>2, <2>3, <2>4
<1>3. SwapType /\ FreshInv
  BY DEF SwapInv
<1>4. SwapType'
  BY <1>1, <1>3 DEF SwapType
<1>5. FreshInv'
  BY <1>1, <1>2, <1>3 DEF FreshInv
<1> QED BY <1>2, <1>4, <1>5 DEF SwapInv

LEMMA SetBeginSwap ==
    ASSUME PagesInv, SwapInv, SetBegin PROVE SwapInv'
<1>1. /\ phase = "give" /\ phase' = "set" /\ pgfault_num' = 0
      /\ UNCHANGED <<check_rp, pte, pra_list, pra_vaddr, mem, disk, fault, errors, word, loads>>
  BY DEF SetBegin, tableVars
<1>2. phase' \in Accesses /\ phase' \notin {"boot", "take", "give"}
  BY <1>1 DEF Accesses
<1>3. /\ loads = <<>> /\ Len(check_rp) = N /\ SwapType
      /\ \A v \in VPages : pte[v] = Absent /\ word[v] = Garbage
  BY <1>1 DEF SwapInv, FreshInv
<1>4. pra_list = <<>> /\ fault = 0
  BY <1>1 DEF PagesInv, TakeInv, GiveInv
<1>5. Len(<<>>) = 0 /\ 1..0 = {} /\ Range(<<>>) = {}
  BY DEF Range
<1>6. SwapType'
  BY <1>1, <1>3 DEF SwapType
<1>7. FreshInv'
  BY <1>1, <1>2, <1>3 DEF FreshInv
<1>8. TableInv'
  BY <1>1, <1>3, <1>4, <1>5, EntryOf DEF TableInv
<1>9. OrderInv'
  BY <1>1, <1>3, <1>4, <1>5 DEF OrderInv
<1>10. \A v \in VPages : Kept(v)'
  BY <1>1, <1>3 DEF Kept
<1> QED BY <1>6, <1>7, <1>8, <1>9, <1>10 DEF SwapInv

LEMMA SetDoneSwap ==
    ASSUME SwapInv, SetDone PROVE SwapInv'
<1>1. /\ phase = "set" /\ phase' \in {"access", "any"}
      /\ UNCHANGED <<check_rp, pte, pra_list, pra_vaddr, mem, disk, pgfault_num, fault, errors, word, loads>>
  BY DEF SetDone, tableVars
<1>2. /\ phase \in Accesses /\ phase' \in Accesses /\ phase' \notin {"boot", "take", "give"}
  BY <1>1 DEF Accesses
<1>3. SwapType /\ FreshInv /\ TableInv /\ OrderInv /\ (errors = 0 => \A v \in VPages : Kept(v))
  BY <1>2 DEF SwapInv
<1>4. SwapType'
  BY <1>1, <1>3 DEF SwapType
<1>5. FreshInv'
  BY <1>1, <1>2, <1>3 DEF FreshInv
<1>6. TableInv' /\ OrderInv' /\ (errors' = 0 => \A v \in VPages : Kept(v)')
  BY <1>1, <1>3 DEF TableInv, OrderInv, Kept
<1> QED BY <1>4, <1>5, <1>6 DEF SwapInv

LEMMA CheckEndSwap ==
    ASSUME SwapInv, CheckEnd PROVE SwapInv'
<1>1. /\ phase' = "done" /\ pte' = [v \in VPages |-> Absent]
      /\ pra_vaddr' = [p \in Pages |-> 0] /\ mem' = [p \in Pages |-> Garbage]
      /\ disk' = [s \in DOMAIN disk |-> Garbage] /\ word' = [v \in VPages |-> Garbage]
      /\ loads' = <<>> /\ pgfault_num' = 0 /\ errors' = 0
  BY DEF CheckEnd
<1>2. DOMAIN disk = Slots
  BY DEF SwapInv, SwapType
<1>3. SwapType'
  BY <1>1, <1>2, EntryOf DEF SwapType, Garbage
<1>4. phase' \notin Accesses \cup {"boot", "take", "give"}
  BY <1>1 DEF Accesses
<1> QED BY <1>3, <1>4 DEF SwapInv, FreshInv

LEMMA SameSwap ==
    ASSUME SwapInv, UNCHANGED swapVars PROVE SwapInv'
BY DEF SwapInv, SwapType, FreshInv, TableInv, OrderInv, Kept, swapVars, tableVars

LEMMA InitSwap == Init => SwapInv
<1> SUFFICES ASSUME Init PROVE SwapInv
  OBVIOUS
<1>1. /\ phase = "boot" /\ pte = [v \in VPages |-> Absent]
      /\ pra_vaddr = [p \in Pages |-> 0] /\ mem = [p \in Pages |-> Garbage]
      /\ disk = [s \in Slots |-> Garbage] /\ word = [v \in VPages |-> Garbage]
      /\ loads = <<>> /\ pgfault_num = 0 /\ errors = 0
  BY DEF Init, SwapInit, Slots
<1>2. SwapType
  BY <1>1, EntryOf DEF SwapType, Garbage
<1>3. FreshInv
  BY <1>1 DEF FreshInv, Accesses
<1> QED BY <1>1, <1>2, <1>3 DEF SwapInv, Accesses

LEMMA NextSwapInv ==
    ASSUME PagesInv, SwapInv, [Next]_vars PROVE SwapInv'
<1>1. CASE UNCHANGED swapVars
  BY <1>1, SameSwap
<1>2. CASE SwapStep
  <2>1. CASE CheckBegin \/ TakePage \/ HideFree \/ GivePage \/ AccessDone
    BY <2>1, BeginSwap
  <2>2. CASE SetBegin \/ SetDone \/ CheckEnd
    BY <2>2, SetBeginSwap, SetDoneSwap, CheckEndSwap
  <2>3. ASSUME NEW v \in VPages, Write(v) \/ PageFault(v) PROVE SwapInv'
    BY <2>3, WriteSwap, PageFaultSwap
  <2>4. CASE NewPage \/ SwapOut \/ SwapOutFails
    BY <2>4, NewPageSwap, SwapOutSwap, SwapOutFailsSwap
  <2>5. ASSUME NEW ok \in BOOLEAN, SwapIn(ok) PROVE SwapInv'
    BY <2>5, SwapInSwap
  <2> QED BY <1>2, <2>1, <2>2, <2>3, <2>4, <2>5 DEF SwapStep
<1>3. SwapStep \/ UNCHANGED swapVars
  BY DEF Next, vars, OutOfMemory
<1> QED BY <1>1, <1>2, <1>3

LEMMA SwapInvariant == Spec => []SwapInv
<1>1. PagesInv /\ SwapInv /\ [Next]_vars => SwapInv'
  BY NextSwapInv
<1> QED BY InitSwap, PagesInvariant, <1>1, PTL DEF Spec

\* For any number of pages, any accesses and any failures of the disk: as long as
\* the disk has not failed, what was last written to a virtual page is in its page,
\* or in its slot of the swap device, also between the steps of a page fault.
THEOREM SwapKeepsContent == Spec => []ContentKept
<1>1. SwapInv => ContentKept
  BY DEF SwapInv, Kept, ContentKept
<1> QED BY SwapInvariant, <1>1, PTL
LEMMA SwapInvFifo ==
    ASSUME PagesInv, SwapInv PROVE FifoExact
<1> SUFFICES ASSUME phase \in Accesses, op = Idle, fault = 0 PROVE FifoExact
  BY DEF FifoExact
<1>1. PICK m, n, resident, low :
        /\ m = Len(pra_list) /\ n = Len(loads)
        /\ resident = [i \in 1..Len(pra_list) |-> pra_vaddr[pra_list[i]]]
        /\ low = Max({1, n - N + 1})
  OBVIOUS
<1>2. SwapType /\ FreshInv /\ TableInv /\ OrderInv
  BY DEF SwapInv
<1>3. pra_list \in Seq(Pages) /\ m \in Nat /\ m <= N
  <2>1. Len(check_rp) = N
    BY <1>2 DEF FreshInv
  <2> QED BY <1>1, <2>1, FrameCount
<1>4. /\ \A i \in 1..m : pra_list[i] \in Range(pra_list)
      /\ \A p \in Range(pra_list) : \E i \in 1..m : p = pra_list[i]
      /\ Range(pra_list) \subseteq Pages
  BY <1>1, <1>3, RangeIs
<1>5. loads \in Seq(VPages) /\ n \in Nat /\ N \in Nat \ {0}
  BY <1>1, <1>2, SwapAssumption DEF SwapType
<1>6. /\ DOMAIN resident = 1..m /\ Len(resident) = m
      /\ \A i \in 1..m : resident[i] = pra_vaddr[pra_list[i]]
  BY <1>1, <1>3
<1>7. \A i \in 1..m : resident[i] \in VPages /\ pte[resident[i]] = InPage(pra_list[i])
  BY <1>2, <1>4, <1>6 DEF TableInv
<1>8. {v \in VPages : pte[v].at = "page"} = Range(resident)
  <2>1. ASSUME NEW v \in VPages, pte[v].at = "page" PROVE v \in Range(resident)
    <3>1. PICK p \in Range(pra_list) : pra_vaddr[p] = v
      BY <1>2, <2>1 DEF TableInv
    <3>2. PICK i \in 1..m : p = pra_list[i]
      BY <1>4
    <3> QED BY <1>6, <3>1, <3>2 DEF Range
  <2>2. ASSUME NEW v \in Range(resident) PROVE v \in VPages /\ pte[v].at = "page"
    <3>1. PICK i \in 1..m : v = resident[i]
      BY <1>6 DEF Range
    <3>2. v \in VPages /\ pte[v] = InPage(pra_list[i])
      BY <1>7, <3>1
    <3>3. pra_list[i] \in Nat
      BY <1>4, PagesFacts
    <3> QED BY <3>2, <3>3, EntryOf
  <2> QED BY <2>1, <2>2
<1>9. pgfault_num = n
  BY <1>1, <1>2, <1>5 DEF OrderInv
<1>10. low = IF n - N + 1 >= 1 THEN n - N + 1 ELSE 1
  <2>1. PICK k \in Int : k = n - N + 1
    BY <1>5
  <2>2. low \in {1, k} /\ \A y \in {1, k} : low >= y
    <3>1. \E x \in {1, k} : \A y \in {1, k} : x >= y
      OBVIOUS
    <3>2. low = CHOOSE x \in {1, k} : \A y \in {1, k} : x >= y
      BY <1>1, <2>1 DEF Max
    <3> QED BY <3>1, <3>2
  <2> QED BY <2>1, <2>2
<1>11. ASSUME errors = 0 PROVE resident = Reverse(SubSeq(loads, low, n))
  <2>1. /\ m <= n /\ (m = n \/ m = N)
        /\ \A i \in 1..m : pra_vaddr[pra_list[i]] = loads[n + 1 - i]
    BY <1>1, <1>2, <1>11 DEF OrderInv
  <2>2. low = n + 1 - m /\ low \in Nat /\ low >= 1
    BY <1>3, <1>5, <1>10, <2>1
  <2>3. PICK s : s = SubSeq(loads, low, n)
    OBVIOUS
  <2>4. Len(s) = m /\ \A i \in 1..m : s[i] = loads[low + i - 1]
    BY <1>3, <1>5, <2>1, <2>2, <2>3
  <2>5. Reverse(s) = [i \in 1..m |-> s[(m - i) + 1]]
    BY <2>4 DEF Reverse
  <2>6. ASSUME NEW i \in 1..m PROVE resident[i] = s[(m - i) + 1]
    <3>1. PICK j \in 1..m : j = (m - i) + 1
      BY <1>3
    <3>2. s[j] = loads[low + j - 1] /\ low + j - 1 = n + 1 - i
      BY <1>3, <1>5, <2>2, <2>4, <3>1
    <3> QED BY <1>6, <2>1, <3>1, <3>2
  <2>7. resident = [i \in 1..m |-> resident[i]]
    BY <1>1
  <2> QED BY <2>3, <2>5, <2>6, <2>7
<1>12. /\ {v \in VPages : pte[v].at = "page"} = Range(resident)
       /\ \A i \in 1..Len(resident) : pte[resident[i]] = InPage(pra_list[i])
       /\ errors = 0 => resident = Reverse(SubSeq(loads, Max({1, n - N + 1}), n))
       /\ pgfault_num = n
  BY <1>1, <1>6, <1>7, <1>8, <1>9, <1>11
<1> QED BY <1>1, <1>12 DEF FifoExact

\* First in, first out, for any number of pages and any accesses: between page
\* faults the pages in memory are those loaded last, in that order in the list, as
\* many as there are pages; after a failure of the disk, still those of the table.
THEOREM SwapIsFifo == Spec => []FifoExact
<1>1. PagesInv /\ SwapInv => FifoExact
  BY SwapInvFifo
<1> QED BY PagesInvariant, SwapInvariant, <1>1, PTL
-----------------------------------------------------------------------------
(* The heap: a circular list of free blocks, whose units, with those of the *)
(* blocks in use, are whole pages.                                          *)

Ahead(x, y) == x[1] + x[2] < y[1]

\* The list goes up from arena, all the way round; nothing touches.
RingAt(L, r) ==
    /\ r \in 1..Len(L) /\ L[r] = Arena
    /\ \A i \in 1..Len(L) : i # r => L[i][1] >= 0
    /\ \A i, j \in 1..Len(L) :
          i < j => IF i < r /\ r <= j THEN Ahead(L[j], L[i]) ELSE Ahead(L[i], L[j])

RingOK(L) == L \in Seq(Int \X (Nat \ {0})) /\ \E r \in 1..Len(L) : RingAt(L, r)

Spread(B) == UNION {Units(x[1], x[2]) : x \in B}
ListUnits(L) == Spread(Range(L) \ {Arena})

\* Blocks, each apart from the others.
Parted(B) ==
    /\ B \subseteq Nat \X (Nat \ {0})
    /\ \A x, y \in B : x # y => Units(x[1], x[2]) \cap Units(y[1], y[2]) = {}

\* The units C make up whole pages, which are pages of H.
WholePages(C, H) ==
    \A a \in C : /\ Units((a \div PAGE_SIZE) * PAGE_SIZE, PAGE_SIZE) \subseteq C
                 /\ <<a \div PAGE_SIZE, 1>> \in H

\* The blocks in use B and the free ones of L are pages of H, cut up.
Cut(B, L, H) ==
    /\ RingOK(L) /\ Parted(B) /\ Spread(B) \cap ListUnits(L) = {}
    /\ WholePages(Spread(B) \cup ListUnits(L), H)

\* The blocks in use, by their owners: what kmalloc has returned (lv), the list of
\* big blocks (bs) and the call under way (r).
SmallOf(lv) == {<<x.block - 1, x.units>> : x \in {y \in lv : y.units > 0}}
BbOf(bs) == {<<b.bb, BigUnits>> : b \in Range(bs)}
ReqOf(r) == IF r.at = "pages" THEN {<<r.bb, BigUnits>>} ELSE {}

\* Every block in use has one owner.
Owners(lv, bs, r) ==
    /\ \A x, y \in lv : x.block = y.block => x = y
    /\ \A i, j \in 1..Len(bs) : bs[i].bb = bs[j].bb => i = j
    /\ \A x \in lv, i \in 1..Len(bs) : x.units > 0 => x.block # bs[i].bb + 1
    /\ r.at = "pages" =>
          /\ \A i \in 1..Len(bs) : bs[i].bb # r.bb
          /\ \A x \in lv : x.units > 0 => x.block # r.bb + 1

\* What was handed out is as long as was asked for.
RecordOK(x, bs) ==
    /\ x.block \in Nat /\ x.size \in KSizes
    /\ \/ x.units = x.size + 1
       \/ /\ x.units = 0
          /\ \E i \in 1..Len(bs) :
                bs[i].pages * PAGE_SIZE = x.block /\ bs[i].order = find_order(x.size)
Records(lv, bs) == \A x \in lv : RecordOK(x, bs)

\* The pages that are cut up are the heap's and no big blocks.
HeapInv ==
    /\ Cut(LiveBlocks, slob, held \ BigPages)
    /\ Owners(live, bigblocks, req)
    /\ Records(live, bigblocks)
    /\ phase # "done" => slob = <<Arena>> /\ live = {}

\* The i-th block of a list seen from the k-th on.
Turn(n, k, i) == IF i <= n - k + 1 THEN k + i - 1 ELSE i - (n - k + 1)

LEMMA FromIs ==
    ASSUME NEW S, NEW L \in Seq(S), NEW k \in 1..Len(L)
    PROVE  /\ From(L, k) \in Seq(S) /\ Len(From(L, k)) = Len(L)
           /\ \A i \in 1..Len(L) : From(L, k)[i] = L[Turn(Len(L), k, i)]
<1>1. PICK n \in Nat : n = Len(L)
  OBVIOUS
<1>2. PICK A, B : A = SubSeq(L, k, n) /\ B = SubSeq(L, 1, k - 1)
  OBVIOUS
<1>3. /\ A \in Seq(S) /\ Len(A) = n - k + 1 /\ \A i \in 1..(n - k + 1) : A[i] = L[k + i - 1]
  BY <1>1, <1>2
<1>4. /\ B \in Seq(S) /\ Len(B) = k - 1 /\ \A i \in 1..(k - 1) : B[i] = L[i]
  BY <1>1, <1>2
<1>5. PICK R : R = A \o B
  OBVIOUS
<1>6. /\ R \in Seq(S) /\ Len(R) = n
      /\ \A i \in 1..n : R[i] = IF i <= n - k + 1 THEN A[i] ELSE B[i - (n - k + 1)]
  <2>1. R \in Seq(S)
    BY <1>3, <1>4, <1>5
  <2>2. /\ Len(R) = Len(A) + Len(B)
        /\ \A i \in 1..(Len(A) + Len(B)) : R[i] = IF i <= Len(A) THEN A[i] ELSE B[i - Len(A)]
    BY <1>3, <1>4, <1>5, ConcatProperties
  <2>3. Len(A) + Len(B) = n
    BY <1>1, <1>3, <1>4
  <2> QED BY <1>3, <2>1, <2>2, <2>3
<1>7. ASSUME NEW i \in 1..n PROVE R[i] = L[Turn(n, k, i)]
  <2>1. CASE i <= n - k + 1
    BY <1>1, <1>3, <1>6, <2>1 DEF Turn
  <2>2. CASE ~(i <= n - k + 1)
    <3>1. i - (n - k + 1) \in 1..(k - 1)
      BY <1>1, <2>2
    <3> QED BY <1>4, <1>6, <2>2, <3>1 DEF Turn
  <2> QED BY <2>1, <2>2
<1>8. From(L, k) = R
  BY <1>1, <1>2, <1>5 DEF From
<1> QED BY <1>1, <1>6, <1>7, <1>8

LEMMA TurnFacts ==
    ASSUME NEW n \in Nat, NEW k \in 1..n
    PROVE  /\ \A i \in 1..n : Turn(n, k, i) \in 1..n
           /\ \A i, j \in 1..n : Turn(n, k, i) = Turn(n, k, j) => i = j
           /\ \A m \in 1..n : \E i \in 1..n : Turn(n, k, i) = m
<1>1. \A i \in 1..n : Turn(n, k, i) \in 1..n
  BY DEF Turn
<1>2. \A i, j \in 1..n : Turn(n, k, i) = Turn(n, k, j) => i = j
  BY DEF Turn
<1>3. ASSUME NEW m \in 1..n PROVE \E i \in 1..n : Turn(n, k, i) = m
  <2>1. CASE m >= k
    <3>1. m - k + 1 \in 1..n /\ Turn(n, k, m - k + 1) = m
      BY <2>1 DEF Turn
    <3> QED BY <3>1
  <2>2. CASE m < k
    <3>1. m + (n - k + 1) \in 1..n /\ Turn(n, k, m + (n - k + 1)) = m
      BY <2>2 DEF Turn
    <3> QED BY <3>1
  <2> QED BY <2>1, <2>2
<1> QED BY <1>1, <1>2, <1>3

\* Seen from another block the list is still in order.
LEMMA TurnRing ==
    ASSUME NEW L, RingOK(L), NEW k \in 1..Len(L)
    PROVE  /\ RingOK(From(L, k)) /\ Range(From(L, k)) = Range(L)
           /\ Len(From(L, k)) = Len(L)
           /\ \A i \in 1..Len(L) : From(L, k)[i] = L[Turn(Len(L), k, i)]
<1>1. PICK S : S = Int \X (Nat \ {0})
  OBVIOUS
<1>2. L \in Seq(S) /\ \E r \in 1..Len(L) : RingAt(L, r)
  BY <1>1 DEF RingOK
<1>a. PICK R : R = From(L, k)
  OBVIOUS
<1>3. PICK n \in Nat : n = Len(L) /\ R = From(L, k)
  BY <1>2, <1>a
<1>4. R \in Seq(S) /\ Len(R) = n /\ \A i \in 1..n : R[i] = L[Turn(n, k, i)]
  BY <1>2, <1>3, FromIs
<1>5. PICK r \in 1..n : RingAt(L, r)
  BY <1>2, <1>3
<1>6. /\ L[r] = Arena /\ \A i \in 1..n : i # r => L[i][1] >= 0
      /\ \A i, j \in 1..n :
           i < j => IF i < r /\ r <= j THEN Ahead(L[j], L[i]) ELSE Ahead(L[i], L[j])
  BY <1>3, <1>5 DEF RingAt
<1>7. k \in 1..n
  BY <1>3
<1>8. PICK t \in 1..n : Turn(n, k, t) = r
  BY <1>7, TurnFacts
<1>9. RingAt(R, t)
  <2>1. R[t] = Arena
    BY <1>4, <1>6, <1>8
  <2>2. ASSUME NEW i \in 1..n, i # t PROVE R[i][1] >= 0
    <3>1. PICK m \in 1..n : m = Turn(n, k, i)
      BY <1>7, TurnFacts
    <3>2. m # r
      BY <1>7, <1>8, <2>2, <3>1, TurnFacts
    <3> QED BY <1>4, <1>6, <3>1, <3>2
  <2>3. ASSUME NEW i \in 1..n, NEW j \in 1..n, i < j
        PROVE  IF i < t /\ t <= j THEN Ahead(R[j], R[i]) ELSE Ahead(R[i], R[j])
    <3>1. PICK a \in 1..n, b \in 1..n : a = Turn(n, k, i) /\ b = Turn(n, k, j)
      BY <1>7, TurnFacts
    <3>2. R[i] = L[a] /\ R[j] = L[b]
      BY <1>4, <3>1
    <3>3. /\ a < b => IF a < r /\ r <= b THEN Ahead(L[b], L[a]) ELSE Ahead(L[a], L[b])
          /\ b < a => IF b < r /\ r <= a THEN Ahead(L[a], L[b]) ELSE Ahead(L[b], L[a])
      BY <1>6
    <3>4. CASE i < t /\ t <= j
      <4>1. (a < b /\ a < r /\ r <= b) \/ (b < a /\ ~(b < r /\ r <= a))
        BY <1>7, <1>8, <2>3, <3>1, <3>4 DEF Turn
      <4> QED BY <3>2, <3>3, <3>4, <4>1
    <3>5. CASE ~(i < t /\ t <= j)
      <4>1. (b < a /\ b < r /\ r <= a) \/ (a < b /\ ~(a < r /\ r <= b))
        BY <1>7, <1>8, <2>3, <3>1, <3>5 DEF Turn
      <4> QED BY <3>2, <3>3, <3>5, <4>1
    <3> QED BY <3>4, <3>5
  <2> QED BY <1>4, <2>1, <2>2, <2>3 DEF RingAt
<1>10. Range(R) = Range(L)
  <2>1. ASSUME NEW x \in Range(R) PROVE x \in Range(L)
    <3>1. PICK i \in 1..n : x = R[i]
      BY <1>4, RangeIs
    <3>2. PICK m \in 1..n : m = Turn(n, k, i)
      BY <1>7, TurnFacts
    <3> QED BY <1>2, <1>3, <1>4, <3>1, <3>2, RangeIs
  <2>2. ASSUME NEW x \in Range(L) PROVE x \in Range(R)
    <3>1. PICK m \in 1..n : x = L[m]
      BY <1>2, <1>3, RangeIs
    <3>2. PICK i \in 1..n : m = Turn(n, k, i)
      BY <1>7, TurnFacts
    <3> QED BY <1>4, <3>1, <3>2, RangeIs
  <2> QED BY <2>1, <2>2
<1>11. RingOK(R)
  BY <1>1, <1>4, <1>9 DEF RingOK
<1> QED BY <1>3, <1>4, <1>10, <1>11

SlobBlocks == Int \X (Nat \ {0})

LEMMA ArenaIs == Arena \in SlobBlocks /\ Arena[1] = -2 /\ Arena[2] = 1
BY DEF Arena, SlobBlocks

LEMMA BlockIs ==
    ASSUME NEW x \in SlobBlocks PROVE x[1] \in Int /\ x[2] \in Nat /\ x[2] > 0 /\ x = <<x[1], x[2]>>
BY DEF SlobBlocks

LEMMA AheadFacts ==
    ASSUME NEW x \in SlobBlocks, NEW y \in SlobBlocks, NEW z \in SlobBlocks
    PROVE  /\ Ahead(x, y) /\ Ahead(y, z) => Ahead(x, z)
           /\ Ahead(x, y) => ~Ahead(y, x) /\ x # y /\ x[1] < y[1]
<1>1. /\ x[1] \in Int /\ x[2] \in Nat /\ x[2] > 0
      /\ y[1] \in Int /\ y[2] \in Nat /\ y[2] > 0
      /\ z[1] \in Int /\ z[2] \in Nat /\ z[2] > 0
  BY DEF SlobBlocks
<1>2. PICK a, b, c, d, e, f : a = x[1] /\ b = x[2] /\ c = y[1] /\ d = y[2] /\ e = z[1] /\ f = z[2]
  OBVIOUS
<1>3. a + b < c /\ c + d < e => a + b < e
  BY <1>1, <1>2
<1>4. a + b < c => ~(c + d < a) /\ a < c
  BY <1>1, <1>2
<1>5. a < c => x # y
  BY <1>1, <1>2
<1> QED BY <1>2, <1>3, <1>4, <1>5 DEF Ahead

LEMMA RingIs ==
    ASSUME NEW L
    PROVE  RingOK(L) <=> L \in Seq(SlobBlocks) /\ \E r \in 1..Len(L) : RingAt(L, r)
BY DEF RingOK, SlobBlocks

\* No block is twice in the list.
LEMMA RingApart ==
    ASSUME NEW R, RingOK(R), NEW i \in 1..Len(R), NEW j \in 1..Len(R), i # j
    PROVE  R[i] # R[j] /\ (Ahead(R[i], R[j]) \/ Ahead(R[j], R[i]))
<1>1. R \in Seq(SlobBlocks) /\ Len(R) \in Nat
  BY RingIs
<1>2. PICK r \in 1..Len(R) : RingAt(R, r)
  BY RingIs
<1>3. Ahead(R[i], R[j]) \/ Ahead(R[j], R[i])
  <2>1. CASE i < j
    BY <1>2, <2>1 DEF RingAt
  <2>2. CASE j < i
    BY <1>2, <2>2 DEF RingAt
  <2> QED BY <1>1, <2>1, <2>2
<1>4. R[i] \in SlobBlocks /\ R[j] \in SlobBlocks
  BY <1>1
<1> QED BY <1>3, <1>4, AheadFacts

\* A block changes in its place.
LEMMA ReplaceRing ==
    ASSUME NEW R, RingOK(R), NEW i \in 1..Len(R), R[i] # Arena,
           NEW y \in SlobBlocks, y[1] >= 0,
           \A j \in 1..Len(R) : Ahead(R[j], R[i]) => Ahead(R[j], y),
           \A j \in 1..Len(R) : Ahead(R[i], R[j]) => Ahead(y, R[j])
    PROVE  /\ RingOK([R EXCEPT ![i] = y]) /\ Len([R EXCEPT ![i] = y]) = Len(R)
           /\ \A j \in 1..Len(R) : [R EXCEPT ![i] = y][j] = IF j = i THEN y ELSE R[j]
<1>1. PICK n \in Nat : n = Len(R)
  BY RingIs
<1>2. R \in Seq(SlobBlocks)
  BY RingIs
<1>3. PICK r \in 1..n : RingAt(R, r)
  BY <1>1, RingIs
<1>4. PICK S : S = [R EXCEPT ![i] = y]
  OBVIOUS
<1>5. S \in Seq(SlobBlocks) /\ Len(S) = n /\ \A j \in 1..n : S[j] = IF j = i THEN y ELSE R[j]
  BY <1>1, <1>2, <1>4
<1>6. i # r /\ i \in 1..n
  BY <1>1, <1>3 DEF RingAt
<1>7. S[r] = Arena
  BY <1>3, <1>5, <1>6 DEF RingAt
<1>8. ASSUME NEW j \in 1..n, j # r PROVE S[j][1] >= 0
  BY <1>1, <1>3, <1>5, <1>8 DEF RingAt
<1>9. ASSUME NEW a \in 1..n, NEW b \in 1..n, a < b
      PROVE  IF a < r /\ r <= b THEN Ahead(S[b], S[a]) ELSE Ahead(S[a], S[b])
  <2>1. IF a < r /\ r <= b THEN Ahead(R[b], R[a]) ELSE Ahead(R[a], R[b])
    BY <1>1, <1>3, <1>9 DEF RingAt
  <2>2. CASE a = i
    BY <1>1, <1>5, <1>9, <2>1, <2>2
  <2>3. CASE b = i
    BY <1>1, <1>5, <1>9, <2>1, <2>3
  <2>4. CASE a # i /\ b # i
    BY <1>5, <2>1, <2>4
  <2> QED BY <2>2, <2>3, <2>4
<1>10. RingAt(S, r)
  BY <1>5, <1>7, <1>8, <1>9 DEF RingAt
<1>11. RingOK(S)
  BY <1>5, <1>10, RingIs
<1> QED BY <1>1, <1>4, <1>5, <1>11

\* The second block goes.
LEMMA DropRing ==
    ASSUME NEW R, RingOK(R), Len(R) > 1, R[2] # Arena, NEW S, S \in Seq(SlobBlocks),
           Len(S) = Len(R) - 1,
           \A i \in 1..Len(S) : S[i] = IF i = 1 THEN R[1] ELSE R[i + 1]
    PROVE  RingOK(S)
<1>1. PICK n \in Nat : n = Len(R)
  BY RingIs
<1>2. PICK r \in 1..n : RingAt(R, r)
  BY <1>1, RingIs
<1>3. r # 2 /\ n > 1
  BY <1>1, <1>2 DEF RingAt
<1>4. PICK t \in 1..(n - 1) : t = IF r = 1 THEN 1 ELSE r - 1
  BY <1>3
<1>5. S[t] = Arena
  BY <1>1, <1>2, <1>3, <1>4 DEF RingAt
<1>6. ASSUME NEW i \in 1..(n - 1), i # t PROVE S[i][1] >= 0
  BY <1>1, <1>2, <1>3, <1>4, <1>6 DEF RingAt
<1>7. ASSUME NEW i \in 1..(n - 1), NEW j \in 1..(n - 1), i < j
      PROVE  IF i < t /\ t <= j THEN Ahead(S[j], S[i]) ELSE Ahead(S[i], S[j])
  <2>1. PICK a \in 1..n, b \in 1..n :
          a = (IF i = 1 THEN 1 ELSE i + 1) /\ b = j + 1
    BY <1>3, <1>7
  <2>2. S[i] = R[a] /\ S[j] = R[b] /\ a < b
    BY <1>1, <1>7, <2>1
  <2>3. IF a < r /\ r <= b THEN Ahead(R[b], R[a]) ELSE Ahead(R[a], R[b])
    BY <1>1, <1>2, <2>2 DEF RingAt
  <2>4. (a < r /\ r <= b) <=> (i < t /\ t <= j)
    BY <1>3, <1>4, <1>7, <2>1
  <2> QED BY <2>2, <2>3, <2>4
<1>8. Len(S) = n - 1
  BY <1>1
<1>9. RingAt(S, t)
  BY <1>4, <1>5, <1>6, <1>7, <1>8 DEF RingAt
<1> QED BY <1>4, <1>8, <1>9, RingIs

\* What follows the first block follows the second.
LEMMA SecondFacts ==
    ASSUME NEW R, RingOK(R), NEW j \in 2..Len(R)
    PROVE  /\ R[2] = Arena => Ahead(R[j], R[1])
           /\ (R[2] # Arena /\ j # 2) =>
                (Ahead(R[1], R[j]) /\ Ahead(R[2], R[j])) \/ (Ahead(R[j], R[1]) /\ Ahead(R[j], R[2]))
           /\ R[2] # Arena => Ahead(R[1], R[2])
<1>1. PICK n \in Nat : n = Len(R)
  BY RingIs
<1>2. PICK r \in 1..n : RingAt(R, r)
  BY <1>1, RingIs
<1>3. \A a, b \in 1..n :
          a < b => IF a < r /\ r <= b THEN Ahead(R[b], R[a]) ELSE Ahead(R[a], R[b])
  BY <1>1, <1>2 DEF RingAt
<1>4. /\ R \in Seq(SlobBlocks) /\ R[r] = Arena /\ \A i \in 1..n : i # r => R[i][1] >= 0
  BY <1>1, <1>2, RingIs DEF RingAt
<1>5. R[2] = Arena <=> r = 2
  BY <1>1, <1>4, ArenaIs
<1>6. CASE r = 2
  <2>1. Ahead(R[j], R[1])
    BY <1>1, <1>3, <1>6
  <2> QED BY <1>5, <1>6, <2>1
<1>7. CASE r # 2
  <2>1. Ahead(R[1], R[2])
    BY <1>1, <1>3, <1>7
  <2>2. CASE j = 2
    BY <1>5, <1>7, <2>1, <2>2
  <2>3. CASE j # 2 /\ 1 < r /\ r <= j
    <3>1. Ahead(R[j], R[1]) /\ Ahead(R[j], R[2])
      BY <1>1, <1>3, <1>7, <2>3
    <3> QED BY <1>5, <1>7, <2>1, <3>1
  <2>4. CASE j # 2 /\ ~(1 < r /\ r <= j)
    <3>1. Ahead(R[1], R[j]) /\ Ahead(R[2], R[j])
      BY <1>1, <1>3, <1>7, <2>4
    <3> QED BY <1>5, <1>7, <2>1, <3>1
  <2> QED BY <2>2, <2>3, <2>4
<1> QED BY <1>6, <1>7

\* A block goes between the first and the second.
LEMMA InsertRing ==
    ASSUME NEW R, RingOK(R), NEW y \in SlobBlocks, y[1] >= 0, Ahead(R[1], y),
           Len(R) > 1 /\ R[2] # Arena => Ahead(y, R[2]),
           NEW S, S \in Seq(SlobBlocks), Len(S) = Len(R) + 1,
           \A i \in 1..Len(S) : S[i] = IF i = 1 THEN R[1] ELSE IF i = 2 THEN y ELSE R[i - 1]
    PROVE  RingOK(S)
<1>1. PICK n \in Nat : n = Len(R)
  BY RingIs
<1>2. PICK r \in 1..n : RingAt(R, r)
  BY <1>1, RingIs
<1>3. /\ R \in Seq(SlobBlocks) /\ R[r] = Arena /\ \A i \in 1..n : i # r => R[i][1] >= 0
      /\ \A a, b \in 1..n :
           a < b => IF a < r /\ r <= b THEN Ahead(R[b], R[a]) ELSE Ahead(R[a], R[b])
  BY <1>1, <1>2, RingIs DEF RingAt
<1>4. PICK t \in 1..(n + 1) : t = IF r = 1 THEN 1 ELSE r + 1
  OBVIOUS
<1>5. Len(S) = n + 1 /\ \A i \in 1..(n + 1) : S[i] = IF i = 1 THEN R[1] ELSE IF i = 2 THEN y ELSE R[i - 1]
  BY <1>1
<1>6. S[t] = Arena
  BY <1>3, <1>4, <1>5
<1>7. ASSUME NEW i \in 1..(n + 1), i # t PROVE S[i][1] >= 0
  <2>1. CASE i = 1
    BY <1>3, <1>4, <1>5, <1>7, <2>1
  <2>2. CASE i = 2
    BY <1>5, <2>2
  <2>3. CASE i > 2
    <3>1. i - 1 \in 1..n /\ i - 1 # r /\ S[i] = R[i - 1]
      BY <1>4, <1>5, <1>7, <2>3
    <3> QED BY <1>3, <3>1
  <2> QED BY <2>1, <2>2, <2>3
<1>8. ASSUME NEW j \in 2..n
      PROVE  /\ 1 < r /\ r <= j => Ahead(R[j], y)
             /\ ~(1 < r /\ r <= j) => Ahead(y, R[j])
  <2>1. R[1] \in SlobBlocks /\ R[2] \in SlobBlocks /\ R[j] \in SlobBlocks
    BY <1>1, <1>3
  <2>3. CASE 1 < r /\ r <= j
    <3>1. Ahead(R[j], R[1])
      BY <1>3, <2>3
    <3> QED BY <2>1, <2>3, <3>1, AheadFacts
  <2>4. CASE ~(1 < r /\ r <= j)
    <3>1. R[2] # Arena
      <4>1. r # 2
        BY <2>4
      <4>2. R[2][1] >= 0
        BY <1>3, <4>1
      <4> QED BY <4>2, ArenaIs
    <3>2. Ahead(y, R[2])
      BY <1>1, <3>1
    <3>3. CASE j = 2
      BY <2>4, <3>2, <3>3
    <3>4. CASE j # 2
      <4>1. Ahead(R[2], R[j])
        BY <1>3, <2>4, <3>4
      <4> QED BY <2>1, <2>4, <3>2, <4>1, AheadFacts
    <3> QED BY <3>3, <3>4
  <2> QED BY <2>3, <2>4
<1>9. ASSUME NEW i \in 1..(n + 1), NEW j \in 1..(n + 1), i < j
      PROVE  IF i < t /\ t <= j THEN Ahead(S[j], S[i]) ELSE Ahead(S[i], S[j])
  <2>1. CASE i = 1 /\ j = 2
    <3>1. S[i] = R[1] /\ S[j] = y /\ ~(i < t /\ t <= j)
      BY <1>4, <1>5, <2>1
    <3> QED BY <3>1
  <2>2. CASE i = 2
    <3>1. j - 1 \in 2..n /\ S[i] = y /\ S[j] = R[j - 1]
      BY <1>5, <1>9, <2>2
    <3>2. (1 < r /\ r <= j - 1) <=> (i < t /\ t <= j)
      BY <1>4, <1>9, <2>2
    <3> QED BY <1>8, <3>1, <3>2
  <2>3. CASE i # 2 /\ j # 2
    <3>1. PICK a \in 1..n, b \in 1..n : a = (IF i = 1 THEN 1 ELSE i - 1) /\ b = j - 1
      BY <1>9, <2>3
    <3>2. S[i] = R[a] /\ S[j] = R[b] /\ a < b
      BY <1>5, <1>9, <2>3, <3>1
    <3>3. (a < r /\ r <= b) <=> (i < t /\ t <= j)
      BY <1>4, <1>9, <2>3, <3>1
    <3> QED BY <1>3, <3>2, <3>3
  <2> QED BY <1>9, <2>1, <2>2, <2>3
<1>10. RingAt(S, t)
  BY <1>4, <1>5, <1>6, <1>7, <1>9 DEF RingAt
<1> QED BY <1>4, <1>5, <1>10, RingIs

\* The first block grows, up to what follows it.
LEMMA GrowRing ==
    ASSUME NEW R, RingOK(R), R[1] # Arena, NEW y \in SlobBlocks, y[1] = R[1][1],
           Len(R) > 1 /\ R[2] # Arena => Ahead(y, R[2])
    PROVE  RingOK([R EXCEPT ![1] = y])
<1>1. PICK n \in Nat : n = Len(R)
  BY RingIs
<1>2. R \in Seq(SlobBlocks) /\ 1 \in 1..n
  BY <1>1, RingIs
<1>3. PICK r \in 1..n : RingAt(R, r)
  BY <1>1, RingIs
<1>4. r # 1 /\ R[1][1] >= 0
  BY <1>1, <1>2, <1>3 DEF RingAt
<1>5. y[1] \in Int /\ y[2] \in Nat /\ R[1][1] \in Int /\ R[1][2] \in Nat
  BY <1>1, <1>2, BlockIs
<1>6. ASSUME NEW j \in 1..n, Ahead(R[j], R[1]) PROVE Ahead(R[j], y)
  BY <1>6 DEF Ahead
<1>7. ASSUME NEW j \in 1..n, Ahead(R[1], R[j]) PROVE Ahead(y, R[j])
  <2>1. R[j] \in SlobBlocks
    BY <1>1, <1>2
  <2>2. R[1] \in SlobBlocks
    BY <1>1, <1>2
  <2>3. j # 1 /\ ~Ahead(R[j], R[1])
    BY <1>7, <2>1, <2>2, AheadFacts
  <2>4. j \in 2..Len(R) /\ n > 1
    BY <1>1, <2>3
  <2>5. R[2] # Arena
    BY <2>3, <2>4, SecondFacts
  <2>6. Ahead(y, R[2])
    BY <1>1, <2>4, <2>5
  <2>7. CASE j = 2
    BY <2>6, <2>7
  <2>8. CASE j # 2
    <3>1. Ahead(R[2], R[j])
      BY <2>3, <2>4, <2>5, <2>8, SecondFacts
    <3>2. R[2] \in SlobBlocks
      BY <1>1, <1>2, <2>4
    <3> QED BY <2>1, <2>6, <3>1, <3>2, AheadFacts
  <2> QED BY <2>7, <2>8
<1> QED BY <1>1, <1>2, <1>4, <1>6, <1>7, ReplaceRing

\* slob_free finds a place.
Fits(L, b, i) ==
    LET cur == L[i][1]
        next == L[(i % Len(L)) + 1][1]
    IN  \/ b > cur /\ b < next
        \/ cur >= next /\ (b > cur \/ b < next)

LEMMA NextPlace ==
    ASSUME NEW n \in Nat, NEW i \in 1..n
    PROVE  (i % n) + 1 = IF i = n THEN 1 ELSE i + 1
<1>1. CASE i = n
  <2>1. n % n = 0
    BY <1>1
  <2> QED BY <1>1, <2>1
<1>2. CASE i # n
  <2>1. i % n = i
    BY <1>2
  <2> QED BY <1>2, <2>1
<1> QED BY <1>1, <1>2

LEMMA FitsSome ==
    ASSUME NEW L, RingOK(L), NEW b \in Nat, \A i \in 1..Len(L) : L[i][1] # b
    PROVE  \E i \in 1..Len(L) : Fits(L, b, i)
<1>1. PICK n \in Nat : n = Len(L)
  BY RingIs
<1>2. L \in Seq(SlobBlocks)
  BY RingIs
<1>3. PICK r \in 1..n : RingAt(L, r)
  BY <1>1, RingIs
<1>4. PICK R : R = From(L, r)
  OBVIOUS
<1>5. /\ RingOK(R) /\ Len(R) = n /\ \A i \in 1..n : R[i] = L[Turn(n, r, i)]
  BY <1>1, <1>3, <1>4, TurnRing
<1>6. Turn(n, r, 1) = r /\ \A i \in 1..n : Turn(n, r, i) \in 1..n
  BY <1>3, TurnFacts DEF Turn
<1>7. R[1] = Arena
  <2>1. L[r] = Arena
    BY <1>3 DEF RingAt
  <2>2. 1 \in 1..n
    BY <1>3
  <2> QED BY <1>5, <1>6, <2>1, <2>2
<1>8. ASSUME NEW i \in 1..n PROVE R[i][1] \in Int /\ R[i][1] # b
  <2>1. PICK j \in 1..n : j = Turn(n, r, i)
    BY <1>6
  <2>2. R[i] = L[j] /\ L[j] \in SlobBlocks
    BY <1>1, <1>2, <1>5, <2>1
  <2>3. L[j][1] # b
    BY <1>1
  <2> QED BY <2>2, <2>3, BlockIs
<1>9. PICK m \in 1..n : R[m][1] < b /\ (m < n => b < R[m + 1][1])
  <2>1. PICK J : J = {j \in 2..n : R[j][1] > b}
    OBVIOUS
  <2>2. R[1][1] < b
    BY <1>7, ArenaIs
  <2>3. ASSUME NEW j \in 1..n, j \notin J PROVE R[j][1] < b
    <3>1. CASE j = 1
      BY <2>2, <3>1
    <3>2. CASE j # 1
      <4>1. ~(R[j][1] > b)
        BY <2>1, <2>3, <3>2
      <4> QED BY <1>8, <4>1
    <3> QED BY <3>1, <3>2
  <2>4. CASE J = {}
    <3>1. n \in 1..n /\ ~(n < n)
      BY <1>3
    <3>2. R[n][1] < b
      BY <2>3, <2>4, <3>1
    <3> QED BY <3>1, <3>2
  <2>5. CASE J # {}
    <3>1. J \subseteq Nat
      BY <2>1
    <3>2. PICK k \in J : \A j \in J : k <= j
      BY <2>5, <3>1, NatLeast
    <3>3. k \in 2..n /\ R[k][1] > b
      BY <2>1, <3>2
    <3>4. k - 1 \in 1..n /\ ~(k <= k - 1) /\ (k - 1) + 1 = k
      BY <3>3
    <3>5. k - 1 \notin J
      BY <3>2, <3>4
    <3>6. R[k - 1][1] < b
      BY <2>3, <3>4, <3>5
    <3>7. b < R[(k - 1) + 1][1]
      BY <1>8, <3>3, <3>4
    <3> QED BY <3>4, <3>6, <3>7
  <2> QED BY <2>4, <2>5
<1>10. PICK i \in 1..n : i = Turn(n, r, m)
  BY <1>6
<1>11. L[i] = R[m]
  BY <1>5, <1>10
<1>12. CASE m < n
  <2>1. (i % n) + 1 = Turn(n, r, m + 1)
    <3>1. (IF i = n THEN 1 ELSE i + 1) = Turn(n, r, m + 1)
      BY <1>3, <1>10, <1>12 DEF Turn
    <3> QED BY <3>1, NextPlace
  <2>2. L[(i % n) + 1] = R[m + 1]
    BY <1>5, <1>12, <2>1
  <2>3. b > L[i][1] /\ b < L[(i % n) + 1][1]
    BY <1>8, <1>9, <1>11, <1>12, <2>2
  <2> QED BY <1>1, <2>3 DEF Fits
<1>13. CASE m = n
  <2>1. (i % n) + 1 = r
    <3>1. (IF i = n THEN 1 ELSE i + 1) = r
      BY <1>3, <1>10, <1>13 DEF Turn
    <3> QED BY <3>1, NextPlace
  <2>2. L[(i % n) + 1][1] = -2
    BY <1>5, <1>6, <1>7, <2>1, ArenaIs
  <2>3. b > L[i][1] /\ L[i][1] \in Int
    BY <1>8, <1>9, <1>11
  <2>4. L[i][1] >= -2
    <3>1. CASE i = r
      BY <1>3, <3>1, ArenaIs DEF RingAt
    <3>2. CASE i # r
      BY <1>1, <1>3, <2>3, <3>2 DEF RingAt
    <3> QED BY <3>1, <3>2
  <2> QED BY <1>1, <2>2, <2>3, <2>4 DEF Fits
<1> QED BY <1>12, <1>13

\* The list seen from the block after which slob_free puts the units from b on.
LEMMA InsertionPlace ==
    ASSUME NEW L, RingOK(L), NEW b \in Nat, NEW u \in Nat \ {0},
           \A x \in Range(L) : x[1] + x[2] <= b \/ b + u <= x[1],
           NEW R, R = From(L, Insertion(L, b))
    PROVE  /\ RingOK(R) /\ Range(R) = Range(L) /\ R \in Seq(SlobBlocks) /\ Len(R) >= 1
           /\ R[1][1] + R[1][2] <= b
           /\ Len(R) > 1 /\ R[2] # Arena => b + u <= R[2][1]
<1>1. PICK n \in Nat : n = Len(L)
  BY RingIs
<1>2. L \in Seq(SlobBlocks)
  BY RingIs
<1>3. \A i \in 1..n : L[i] \in SlobBlocks /\ L[i] \in Range(L)
  BY <1>1, <1>2, RangeIs
<1>4. \A x \in Range(L) : x[1] \in Int /\ x[2] \in Nat /\ x[2] > 0
  BY <1>2, RangeIs, BlockIs
<1>5. \A i \in 1..Len(L) : L[i][1] # b
  <2> SUFFICES ASSUME NEW i \in 1..n PROVE L[i][1] # b
    BY <1>1
  <2>1. PICK x \in Range(L) : x = L[i]
    BY <1>3
  <2>2. x[1] \in Int /\ x[2] \in Nat /\ x[2] > 0 /\ (x[1] + x[2] <= b \/ b + u <= x[1])
    BY <1>4
  <2> QED BY <2>1, <2>2
<1>6. \E i \in 1..Len(L) : Fits(L, b, i)
  BY <1>5, FitsSome
<1>7. PICK k : k = Insertion(L, b)
  OBVIOUS
<1>8. k = CHOOSE i \in 1..Len(L) : Fits(L, b, i)
  BY <1>7 DEF Insertion, Fits
<1>9. k \in 1..n /\ Fits(L, b, k)
  BY <1>1, <1>6, <1>8
<1>10. /\ RingOK(R) /\ Range(R) = Range(L) /\ Len(R) = n
       /\ \A i \in 1..n : R[i] = L[Turn(n, k, i)]
  BY <1>1, <1>7, <1>9, TurnRing
<1>11. R \in Seq(SlobBlocks) /\ n >= 1
  BY <1>9, <1>10, RingIs
<1>12. R[1] = L[k] /\ (n > 1 => R[2] = L[(k % n) + 1]) /\ (n = 1 => R[1] = L[(k % n) + 1])
  <2>1. Turn(n, k, 1) = k
    BY <1>9 DEF Turn
  <2>2. n > 1 => Turn(n, k, 2) = (IF k = n THEN 1 ELSE k + 1)
    BY <1>9 DEF Turn
  <2>3. n = 1 => k = 1 /\ k = n
    BY <1>9
  <2>4. (k % n) + 1 = (IF k = n THEN 1 ELSE k + 1)
    BY <1>9, NextPlace
  <2>5. R[1] = L[k]
    BY <1>10, <1>11, <2>1
  <2>6. ASSUME n > 1 PROVE R[2] = L[(k % n) + 1]
    <3>1. 2 \in 1..n /\ Turn(n, k, 2) = (k % n) + 1
      BY <2>2, <2>4, <2>6
    <3> QED BY <1>10, <3>1
  <2>7. ASSUME n = 1 PROVE R[1] = L[(k % n) + 1]
    <3>1. (k % n) + 1 = k
      BY <2>3, <2>4, <2>7
    <3> QED BY <2>5, <3>1
  <2> QED BY <2>5, <2>6, <2>7
<1>13. PICK c : c = R[1]
  OBVIOUS
<1>14. c \in Range(L) /\ c[1] \in Int /\ c[2] \in Nat /\ c[2] > 0 /\ (c[1] + c[2] <= b \/ b + u <= c[1])
  BY <1>3, <1>4, <1>9, <1>12, <1>13
<1>15. CASE n = 1
  <2>0. (b > c[1] /\ b < c[1]) \/ (c[1] >= c[1] /\ (b > c[1] \/ b < c[1]))
    BY <1>1, <1>9, <1>12, <1>13, <1>15 DEF Fits
  <2>3. c = Arena
    <3>1. 1 \in 1..Len(R) /\ \A j \in 1..Len(R) : j = 1
      BY <1>10, <1>15
    <3> QED BY <1>10, <1>13, <3>1 DEF RingOK, RingAt
  <2>1. b > c[1]
    BY <2>0, <2>3, ArenaIs
  <2>2. c[1] + c[2] <= b
    BY <1>14, <2>1
  <2> QED BY <1>10, <1>11, <1>13, <1>15, <2>2
<1>16. CASE n > 1
  <2>1. PICK d : d = R[2]
    OBVIOUS
  <2>2. d \in Range(L) /\ d \in SlobBlocks /\ c \in SlobBlocks
    BY <1>10, <1>11, <1>13, <1>16, <2>1, RangeIs
  <2>3. d[1] \in Int /\ d[2] \in Nat /\ d[2] > 0 /\ (d[1] + d[2] <= b \/ b + u <= d[1])
    BY <1>4, <2>2
  <2>4. (b > c[1] /\ b < d[1]) \/ (c[1] >= d[1] /\ (b > c[1] \/ b < d[1]))
    BY <1>1, <1>9, <1>12, <1>13, <1>16, <2>1 DEF Fits
  <2>5. CASE d = Arena
    <3>1. ~(b < d[1])
      BY <2>5, ArenaIs
    <3>2. b > c[1]
      BY <2>4, <3>1
    <3>3. c[1] + c[2] <= b
      BY <1>14, <3>2
    <3> QED BY <1>10, <1>11, <1>13, <2>1, <2>5, <3>3
  <2>6. CASE d # Arena
    <3>1. Ahead(c, d)
      <4>1. 2 \in 2..Len(R)
        BY <1>10, <1>16
      <4> QED BY <1>10, <1>13, <2>1, <2>6, <4>1, SecondFacts
    <3>2. c[1] < d[1]
      BY <2>2, <3>1, AheadFacts
    <3>3. b > c[1] /\ b < d[1]
      BY <1>14, <2>3, <2>4, <3>2
    <3>4. c[1] + c[2] <= b /\ b + u <= d[1]
      BY <1>14, <2>3, <3>3
    <3> QED BY <1>10, <1>11, <1>13, <2>1, <3>4
  <2> QED BY <2>5, <2>6
<1> QED BY <1>11, <1>15, <1>16

\* Blocks that are replaced by one that has their units and others.
LEMMA SpreadReplace ==
    ASSUME NEW B, NEW D, D \subseteq B, NEW y, NEW U, Units(y[1], y[2]) = U \cup Spread(D)
    PROVE  Spread((B \ D) \cup {y}) = Spread(B) \cup U
BY DEF Spread

LEMMA UnitsJoin ==
    ASSUME NEW a \in Int, NEW m \in Nat, NEW n \in Nat
    PROVE  Units(a, m + n) = Units(a, m) \cup Units(a + m, n)
BY DEF Units

\* Units that no free block has are beside every one of them.
LEMMA BesideAll ==
    ASSUME NEW L, RingOK(L), NEW b \in Nat, NEW u \in Nat \ {0}, Units(b, u) \cap ListUnits(L) = {},
           NEW x \in Range(L)
    PROVE  x[1] + x[2] <= b \/ b + u <= x[1]
<1>1. x[1] \in Int /\ x[2] \in Nat /\ x[2] > 0
  BY RingIs, RangeIs, BlockIs
<1>2. CASE x = Arena
  BY <1>2, ArenaIs
<1>3. CASE x # Arena
  <2>1. Units(b, u) \cap Units(x[1], x[2]) = {}
    BY <1>3 DEF ListUnits, Spread
  <2>2. PICK p, q : p = x[1] /\ q = x[2]
    OBVIOUS
  <2>3. CASE p <= b
    <3>1. b \in Units(b, u)
      BY DEF Units
    <3>2. b \notin p..(p + q - 1)
      BY <2>1, <2>2, <3>1 DEF Units
    <3> QED BY <1>1, <2>2, <2>3, <3>2
  <2>4. CASE ~(p <= b)
    <3>1. p \in Units(p, q)
      BY <1>1, <2>2 DEF Units
    <3>2. p \notin b..(b + u - 1)
      BY <2>1, <2>2, <3>1 DEF Units
    <3> QED BY <1>1, <2>2, <2>4, <3>2
  <2> QED BY <2>3, <2>4
<1> QED BY <1>2, <1>3

\* The list without its second block, if that one begins where the new one ends.
LEMMA JoinUp ==
    ASSUME NEW R, RingOK(R), R \in Seq(SlobBlocks), Len(R) > 1, R[2] # Arena,
           NEW T, T = <<R[1]>> \o SubSeq(R, 3, Len(R))
    PROVE  /\ RingOK(T) /\ T \in Seq(SlobBlocks) /\ Len(T) = Len(R) - 1 /\ T[1] = R[1]
           /\ Range(T) = Range(R) \ {R[2]}
           /\ Len(T) > 1 /\ T[2] # Arena => Ahead(R[2], T[2])
<1>0. PICK n \in Nat : n = Len(R)
  OBVIOUS
<1>1. PICK s : n = Len(R) /\ s = SubSeq(R, 3, n)
  BY <1>0
<1>2. s \in Seq(SlobBlocks) /\ Len(s) = n - 2 /\ \A i \in 1..(n - 2) : s[i] = R[i + 2]
  BY <1>1
<1>3. R[1] \in SlobBlocks
  BY <1>1
<1>4. /\ T \in Seq(SlobBlocks) /\ Len(T) = n - 1
      /\ \A i \in 1..(n - 1) : T[i] = IF i = 1 THEN R[1] ELSE s[i - 1]
  BY <1>1, <1>2, <1>3, ConsFacts
<1>5. \A i \in 1..(n - 1) : T[i] = IF i = 1 THEN R[1] ELSE R[i + 1]
  BY <1>1, <1>2, <1>4
<1>6. RingOK(T)
  <2>1. /\ Len(T) = Len(R) - 1
        /\ \A i \in 1..Len(T) : T[i] = IF i = 1 THEN R[1] ELSE R[i + 1]
    BY <1>1, <1>4, <1>5
  <2> QED BY <1>4, <2>1, DropRing
<1>7. ASSUME n > 2, T[2] # Arena PROVE Ahead(R[2], T[2])
  <2>1. T[2] = R[3] /\ 3 \in 2..Len(R)
    BY <1>1, <1>5, <1>7
  <2>2. R[2] \in SlobBlocks /\ R[3] \in SlobBlocks /\ R[1] \in SlobBlocks
    BY <1>1, <1>7
  <2>3. \/ Ahead(R[1], R[3]) /\ Ahead(R[2], R[3])
        \/ Ahead(R[3], R[1]) /\ Ahead(R[3], R[2])
    BY <2>1, SecondFacts
  <2>4. ~Ahead(R[3], R[1])
    <3> SUFFICES ASSUME Ahead(R[3], R[1]) PROVE FALSE
      OBVIOUS
    <3>1. T[1] = R[1] /\ 2 \in 2..Len(T)
      BY <1>4, <1>5, <1>7
    <3>2. Ahead(T[1], T[2])
      BY <1>6, <1>7, <3>1, SecondFacts
    <3> QED BY <2>1, <2>2, <3>1, <3>2, AheadFacts
  <2> QED BY <2>1, <2>3, <2>4
<1>8. Range(T) = Range(R) \ {R[2]}
  <2>1. ASSUME NEW x \in Range(T) PROVE x \in Range(R) /\ x # R[2]
    <3>1. PICK i \in 1..(n - 1) : x = T[i]
      BY <1>4, RangeIs
    <3>2. PICK j \in 1..n : x = R[j] /\ j # 2
      <4>1. CASE i = 1
        BY <1>1, <1>5, <3>1, <4>1
      <4>2. CASE i # 1
        <5>1. i + 1 \in 1..n /\ i + 1 # 2
          BY <4>2
        <5> QED BY <1>5, <3>1, <4>2, <5>1
      <4> QED BY <4>1, <4>2
    <3>3. x \in Range(R)
      BY <1>1, <3>2, RangeIs
    <3>4. R[j] # R[2]
      BY <1>1, <3>2, RingApart
    <3> QED BY <3>2, <3>3, <3>4
  <2>2. ASSUME NEW x \in Range(R), x # R[2] PROVE x \in Range(T)
    <3>1. PICK j \in 1..n : x = R[j]
      BY <1>1, RangeIs
    <3>2. j # 2
      BY <2>2, <3>1
    <3>3. PICK i \in 1..(n - 1) : i = IF j = 1 THEN 1 ELSE j - 1
      BY <1>1, <3>2
    <3>4. T[i] = IF i = 1 THEN R[1] ELSE R[i + 1]
      BY <1>5
    <3>7. T[i] \in Range(T)
      <4>1. i \in 1..Len(T)
        BY <1>4
      <4>2. DOMAIN T = 1..Len(T)
        BY <1>4
      <4> QED BY <4>1, <4>2 DEF Range
    <3>5. CASE j = 1
      BY <3>1, <3>3, <3>4, <3>5, <3>7
    <3>6. CASE j # 1
      <4>1. i # 1 /\ i + 1 = j
        BY <3>2, <3>3, <3>6
      <4> QED BY <3>1, <3>4, <3>7, <4>1
    <3> QED BY <3>5, <3>6
  <2> QED BY <2>1, <2>2
<1> QED BY <1>1, <1>4, <1>5, <1>6, <1>7, <1>8, SMTT(20)

\* slob_free keeps the list in order, and the list has the units that are freed.
LEMMA SlobFreeKeeps ==
    ASSUME NEW L, RingOK(L), NEW b \in Nat, NEW u \in Nat \ {0}, Units(b, u) \cap ListUnits(L) = {}
    PROVE  /\ RingOK(SlobFree(L, b, u))
           /\ ListUnits(SlobFree(L, b, u)) = ListUnits(L) \cup Units(b, u)
<1>1. PICK R : R = From(L, Insertion(L, b))
  OBVIOUS
<1>2. \A x \in Range(L) : x[1] + x[2] <= b \/ b + u <= x[1]
  BY BesideAll
<1>3. /\ RingOK(R) /\ Range(R) = Range(L) /\ R \in Seq(SlobBlocks) /\ Len(R) >= 1 /\ Len(R) \in Nat
      /\ R[1][1] + R[1][2] <= b
      /\ (Len(R) > 1 /\ R[2] # Arena => b + u <= R[2][1])
  <2>1. /\ RingOK(R) /\ Range(R) = Range(L) /\ R \in Seq(SlobBlocks) /\ Len(R) >= 1
        /\ R[1][1] + R[1][2] <= b
        /\ (Len(R) > 1 /\ R[2] # Arena => b + u <= R[2][1])
    BY <1>1, <1>2, InsertionPlace
  <2>2. Len(R) \in Nat
    BY <2>1
  <2> QED BY <2>1, <2>2
<1>5. PICK rest : rest = IF Len(R) > 1 /\ b + u = R[2][1] THEN SubSeq(R, 3, Len(R)) ELSE Tail(R)
  OBVIOUS
<1>6. PICK all : all = IF Len(R) > 1 /\ b + u = R[2][1] THEN u + R[2][2] ELSE u
  OBVIOUS
<1>7. PICK c, y : c = R[1] /\ y = <<b, all>>
  OBVIOUS
<1>8. SlobFree(L, b, u) = IF c[1] + c[2] = b THEN <<<<c[1], c[2] + all>>>> \o rest
                          ELSE <<c, y>> \o rest
  BY <1>1, <1>5, <1>6, <1>7 DEF SlobFree
<1>9. PICK T, D : T = <<c>> \o rest /\ D = IF Len(R) > 1 /\ b + u = R[2][1] THEN {R[2]} ELSE {}
  OBVIOUS
\* The list without what y takes in.
<1>10. /\ RingOK(T) /\ T \in Seq(SlobBlocks) /\ Len(T) \in Nat /\ Len(T) >= 1 /\ T[1] = c
       /\ Range(T) = Range(R) \ D /\ D \subseteq Range(R) \ {Arena} /\ c \notin D
       /\ all \in Nat \ {0} /\ Units(b, all) = Units(b, u) \cup Spread(D)
       /\ (Len(T) > 1 /\ T[2] # Arena => b + all <= T[2][1] /\ (b + all = T[2][1] => FALSE))
       /\ rest \in Seq(SlobBlocks)
  <2>1. CASE Len(R) > 1 /\ b + u = R[2][1]
    <3>1. Len(R) > 1 /\ b + u = R[2][1] /\ R[2] \in SlobBlocks
      BY <1>3, <2>1
    <3>2. PICK p, k : p = R[2][1] /\ k = R[2][2]
      OBVIOUS
    <3>3. p \in Int /\ k \in Nat /\ k > 0 /\ p = b + u
      BY <3>1, <3>2, BlockIs
    <3>4. R[2] # Arena
      <4>1. p >= 0
        BY <3>3
      <4> QED BY <3>2, <4>1, ArenaIs
    <3>5. T = <<R[1]>> \o SubSeq(R, 3, Len(R)) /\ D = {R[2]} /\ all = u + k
      BY <1>5, <1>6, <1>7, <1>9, <2>1, <3>2
    <3>6. /\ RingOK(T) /\ T \in Seq(SlobBlocks) /\ Len(T) = Len(R) - 1 /\ T[1] = R[1]
          /\ Range(T) = Range(R) \ {R[2]}
          /\ (Len(T) > 1 /\ T[2] # Arena => Ahead(R[2], T[2]))
      BY <1>3, <3>1, <3>4, <3>5, JoinUp
    <3>7. R[2] \in Range(R) /\ R[1] # R[2]
      <4>1. 1 \in 1..Len(R) /\ 2 \in 1..Len(R)
        BY <1>3, <3>1
      <4>2. R[2] \in Range(R)
        BY <1>3, <4>1, RangeIs
      <4> QED BY <1>3, <4>1, <4>2, RingApart
    <3>8. Spread(D) = Units(p, k)
      BY <3>2, <3>5 DEF Spread
    <3>9. Units(b, all) = Units(b, u) \cup Spread(D)
      <4>1. Units(b, u + k) = Units(b, u) \cup Units(b + u, k)
        BY <3>3, UnitsJoin
      <4> QED BY <3>3, <3>5, <3>8, <4>1
    <3>10. ASSUME Len(T) > 1, T[2] # Arena PROVE b + all < T[2][1]
      <4>1. Ahead(R[2], T[2])
        BY <3>6, <3>10
      <4>2. p + k < T[2][1]
        BY <3>2, <4>1 DEF Ahead
      <4>3. b + all = p + k
        BY <3>3, <3>5
      <4> QED BY <4>2, <4>3
    <3>11. Len(T) > 1 /\ T[2] # Arena => T[2][1] \in Int
      BY <3>6, BlockIs
    <3>12. rest \in Seq(SlobBlocks)
      BY <1>3, <1>5, <2>1
    <3>13. all \in Nat \ {0}
      BY <3>3, <3>5
    <3>14. Len(T) > 1 /\ T[2] # Arena => b + all <= T[2][1] /\ (b + all = T[2][1] => FALSE)
      BY <3>10, <3>11, <3>13
    <3>15. Len(T) \in Nat /\ Len(T) >= 1
      BY <1>3, <3>1, <3>6
    <3>16. D \subseteq Range(R) \ {Arena} /\ c \notin D /\ Range(T) = Range(R) \ D /\ T[1] = c
      BY <1>7, <3>4, <3>5, <3>6, <3>7
    <3> QED BY <3>6, <3>9, <3>12, <3>13, <3>14, <3>15, <3>16
  <2>2. CASE ~(Len(R) > 1 /\ b + u = R[2][1])
    <3>1. rest = Tail(R) /\ all = u /\ D = {}
      BY <1>5, <1>6, <1>9, <2>2
    <3>2. rest \in Seq(SlobBlocks) /\ R = <<R[1]>> \o rest
      BY <1>3, <3>1
    <3>3. T = R
      BY <1>7, <1>9, <3>2
    <3>4. Spread(D) = {}
      BY <3>1 DEF Spread
    <3>5. ASSUME Len(R) > 1, R[2] # Arena PROVE b + u <= R[2][1] /\ b + u # R[2][1]
      BY <1>3, <2>2, <3>5
    <3> QED BY <1>3, <1>7, <3>1, <3>2, <3>3, <3>4, <3>5
  <2> QED BY <2>1, <2>2
<1>11. c \in SlobBlocks /\ c[1] \in Int /\ c[2] \in Nat /\ c[2] > 0 /\ c[1] + c[2] <= b /\ c \in Range(R)
  <2>1. 1 \in 1..Len(R)
    BY <1>3
  <2>2. c \in SlobBlocks /\ c \in Range(R)
    BY <1>3, <1>7, <2>1, RangeIs
  <2> QED BY <1>3, <1>7, <2>2, BlockIs
<1>12. y \in SlobBlocks /\ y[1] = b /\ y[2] = all
  BY <1>7, <1>10, SMTT(20) DEF SlobBlocks
<1>13. PICK B : B = Range(R) \ {Arena}
  OBVIOUS
<1>14. ListUnits(L) = Spread(B)
  BY <1>3, <1>13 DEF ListUnits
<1>15. ASSUME NEW S, RingOK(S), NEW E, NEW z, E \subseteq B, z # Arena, Units(z[1], z[2]) = Units(b, u) \cup Spread(E),
              Range(S) = (Range(R) \ E) \cup {z}
       PROVE  ListUnits(S) = ListUnits(L) \cup Units(b, u)
  <2>1. Range(S) \ {Arena} = (B \ E) \cup {z}
    BY <1>13, <1>15
  <2>2. Spread((B \ E) \cup {z}) = Spread(B) \cup Units(b, u)
    BY <1>15, SpreadReplace
  <2> QED BY <1>14, <2>1, <2>2 DEF ListUnits
<1>16. CASE c[1] + c[2] = b
  <2>1. PICK z : z = <<c[1], c[2] + all>>
    OBVIOUS
  <2>2. z \in SlobBlocks /\ z[1] = c[1] /\ z[2] = c[2] + all
    BY <1>10, <1>11, <2>1, SMTT(20) DEF SlobBlocks
  <2>3. c # Arena /\ z # Arena
    <3>1. c # Arena
      BY <1>16, ArenaIs
    <3>2. z # Arena
      BY <1>10, <1>11, <2>2, ArenaIs
    <3> QED BY <3>1, <3>2
  <2>4. PICK S : S = <<z>> \o rest
    OBVIOUS
  <2>5. SlobFree(L, b, u) = S
    BY <1>8, <1>16, <2>1, <2>4
  <2>6. S = [T EXCEPT ![1] = z]
    <3>1. PICK V : V = [T EXCEPT ![1] = z]
      OBVIOUS
    <3>2. V \in Seq(SlobBlocks) /\ Len(V) = Len(T) /\ \A i \in 1..Len(T) : V[i] = IF i = 1 THEN z ELSE T[i]
      BY <1>10, <2>2, <3>1
    <3>3. Len(T) = Len(rest) + 1 /\ \A i \in 1..(Len(rest) + 1) : T[i] = IF i = 1 THEN c ELSE rest[i - 1]
      BY <1>9, <1>10, <1>11, ConsFacts
    <3>4. /\ S \in Seq(SlobBlocks) /\ Len(S) = Len(rest) + 1
          /\ \A i \in 1..(Len(rest) + 1) : S[i] = IF i = 1 THEN z ELSE rest[i - 1]
      BY <1>10, <2>2, <2>4, ConsFacts
    <3>5. Len(S) = Len(V) /\ \A i \in 1..Len(S) : S[i] = V[i]
      BY <3>2, <3>3, <3>4
    <3>6. S = V
      BY <3>2, <3>4, <3>5, SeqEqual
    <3> QED BY <3>1, <3>6
  <2>7. RingOK(S)
    <3>1. ASSUME Len(T) > 1, T[2] # Arena PROVE Ahead(z, T[2])
      <4>1. b + all <= T[2][1] /\ b + all # T[2][1]
        BY <1>10, <3>1
      <4>2. z[1] + z[2] = b + all
        BY <1>10, <1>11, <1>16, <2>2, SMTT(20)
      <4>3. T[2][1] \in Int
        BY <1>10, <3>1, BlockIs
      <4> QED BY <1>10, <4>1, <4>2, <4>3 DEF Ahead
    <3> QED BY <1>10, <2>2, <2>3, <2>6, <3>1, GrowRing
  <2>8. Range(S) = (Range(R) \ (D \cup {c})) \cup {z}
    <3>1. Range(S) = Range(rest) \cup {z}
      BY <1>10, <2>2, <2>4, ConsFacts
    <3>2. Range(T) = Range(rest) \cup {c}
      BY <1>9, <1>10, <1>11, ConsFacts
    <3>3. c \notin Range(rest)
      <4> SUFFICES ASSUME c \in Range(rest) PROVE FALSE
        OBVIOUS
      <4>1. PICK i \in 1..Len(rest) : c = rest[i]
        BY <1>10, RangeIs
      <4>2. Len(rest) \in Nat /\ Len(T) = Len(rest) + 1 /\ T[i + 1] = rest[i]
        BY <1>9, <1>10, <1>11, <4>1, ConsFacts
      <4>3. i + 1 \in 1..Len(T) /\ 1 \in 1..Len(T) /\ i + 1 # 1
        BY <4>2
      <4>4. T[i + 1] # T[1]
        BY <1>10, <4>3, RingApart
      <4> QED BY <1>10, <4>1, <4>2, <4>4
    <3> QED BY <1>10, <3>1, <3>2, <3>3
  <2>9. Units(z[1], z[2]) = Units(b, u) \cup Spread(D \cup {c})
    <3>1. Units(z[1], z[2]) = Units(c[1], c[2]) \cup Units(b, all)
      <4>1. PICK p, k : p = c[1] /\ k = c[2]
        OBVIOUS
      <4>2. Units(p, k + all) = Units(p, k) \cup Units(p + k, all)
        <5>1. p \in Int /\ k \in Nat /\ all \in Nat
          BY <1>10, <1>11, <4>1
        <5> QED BY <5>1, UnitsJoin
      <4> QED BY <1>16, <2>2, <4>1, <4>2
    <3>2. Spread(D \cup {c}) = Spread(D) \cup Units(c[1], c[2])
      BY DEF Spread
    <3> QED BY <1>10, <3>1, <3>2
  <2>10. D \cup {c} \subseteq B
    BY <1>10, <1>11, <1>13, <2>3
  <2> QED BY <1>15, <2>3, <2>5, <2>7, <2>8, <2>9, <2>10
<1>17. CASE c[1] + c[2] # b
  <2>1. PICK S : S = <<c, y>> \o rest
    OBVIOUS
  <2>2. SlobFree(L, b, u) = S
    BY <1>8, <1>17, <2>1
  <2>3. /\ S \in Seq(SlobBlocks) /\ Len(S) = Len(rest) + 2 /\ Len(rest) \in Nat
        /\ \A i \in 1..(Len(rest) + 2) : S[i] = IF i = 1 THEN c ELSE IF i = 2 THEN y ELSE rest[i - 2]
    BY <1>10, <1>11, <1>12, <2>1
  <2>4. /\ Len(T) = Len(rest) + 1
        /\ \A i \in 1..(Len(rest) + 1) : T[i] = IF i = 1 THEN c ELSE rest[i - 1]
    BY <1>9, <1>10, <1>11, ConsFacts
  <2>5. \A i \in 1..Len(S) : S[i] = IF i = 1 THEN T[1] ELSE IF i = 2 THEN y ELSE T[i - 1]
    <3> SUFFICES ASSUME NEW i \in 1..(Len(rest) + 2)
                 PROVE  S[i] = IF i = 1 THEN T[1] ELSE IF i = 2 THEN y ELSE T[i - 1]
      BY <2>3
    <3>1. CASE i = 1 \/ i = 2
      BY <1>10, <2>3, <3>1
    <3>2. CASE i > 2
      <4>1. i - 1 \in 1..(Len(rest) + 1) /\ i - 1 # 1 /\ (i - 1) - 1 = i - 2
        BY <2>3, <3>2
      <4>2. T[i - 1] = rest[i - 2]
        BY <2>4, <4>1
      <4> QED BY <2>3, <3>2, <4>2
    <3> QED BY <2>3, <3>1, <3>2
  <2>6. RingOK(S)
    <3>1. ASSUME Len(T) > 1, T[2] # Arena PROVE Ahead(y, T[2])
      <4>1. b + all <= T[2][1] /\ b + all # T[2][1]
        BY <1>10, <3>1
      <4>2. T[2][1] \in Int
        BY <1>10, <3>1, BlockIs
      <4> QED BY <1>10, <1>12, <4>1, <4>2 DEF Ahead
    <3>2. Ahead(T[1], y)
      BY <1>10, <1>11, <1>12, <1>17 DEF Ahead
    <3>3. y[1] >= 0 /\ Len(S) = Len(T) + 1
      BY <1>12, <2>3, <2>4
    <3>4. Len(T) > 1 /\ T[2] # Arena => Ahead(y, T[2])
      BY <3>1
    <3> QED BY <1>10, <1>12, <2>3, <2>5, <3>2, <3>3, <3>4, InsertRing
  <2>7. y # Arena
    BY <1>12, ArenaIs
  <2>8. Range(S) = (Range(R) \ D) \cup {y}
    <3>1. PICK s : s = <<y>> \o rest
      OBVIOUS
    <3>2. s \in Seq(SlobBlocks) /\ Range(s) = Range(rest) \cup {y}
      BY <1>10, <1>12, <3>1, ConsFacts
    <3>3. S = <<c>> \o s
      <4>1. PICK V : V = <<c>> \o s
        OBVIOUS
      <4>2. /\ V \in Seq(SlobBlocks) /\ Len(V) = Len(s) + 1
            /\ \A i \in 1..(Len(s) + 1) : V[i] = IF i = 1 THEN c ELSE s[i - 1]
        BY <1>11, <3>2, <4>1, ConsFacts
      <4>3. Len(s) = Len(rest) + 1 /\ \A i \in 1..(Len(rest) + 1) : s[i] = IF i = 1 THEN y ELSE rest[i - 1]
        BY <1>10, <1>12, <3>1, ConsFacts
      <4>4. Len(S) = Len(V)
        BY <2>3, <4>2, <4>3
      <4>5. ASSUME NEW i \in 1..Len(S) PROVE S[i] = V[i]
        <5>1. i \in 1..(Len(rest) + 2) /\ i \in 1..(Len(s) + 1)
          BY <2>3, <4>3
        <5>2. CASE i = 1
          BY <2>3, <4>2, <5>1, <5>2
        <5>3. CASE i # 1
          <6>1. i - 1 \in 1..(Len(rest) + 1) /\ (i - 1) - 1 = i - 2 /\ (i - 1 = 1 <=> i = 2)
            BY <2>3, <5>1, <5>3
          <6>2. V[i] = s[i - 1] /\ s[i - 1] = (IF i - 1 = 1 THEN y ELSE rest[(i - 1) - 1])
            BY <4>2, <4>3, <5>1, <5>3, <6>1
          <6> QED BY <2>3, <5>1, <5>3, <6>1, <6>2
        <5> QED BY <5>2, <5>3
      <4> QED BY <2>3, <4>1, <4>2, <4>4, <4>5, SeqEqual
    <3>4. Range(S) = Range(s) \cup {c}
      BY <1>11, <3>2, <3>3, ConsFacts
    <3>5. Range(T) = Range(rest) \cup {c}
      BY <1>9, <1>10, <1>11, ConsFacts
    <3> QED BY <1>10, <3>2, <3>4, <3>5
  <2>9. Units(y[1], y[2]) = Units(b, u) \cup Spread(D)
    BY <1>10, <1>12
  <2>10. D \subseteq B
    BY <1>10, <1>13
  <2> QED BY <1>15, <2>2, <2>6, <2>7, <2>8, <2>9, <2>10
<1> QED BY <1>16, <1>17

\* slob_alloc takes the first units of a block that is long enough.
LEMMA TakenKeeps ==
    ASSUME NEW L, RingOK(L), NEW i \in 1..Len(L), NEW w \in Nat, w > 1,
           NEW x, x = L[(i % Len(L)) + 1], x[2] >= w
    PROVE  /\ RingOK(Taken(L, i, w)) /\ x[1] \in Nat
           /\ Units(x[1], w) \subseteq ListUnits(L)
           /\ ListUnits(Taken(L, i, w)) = ListUnits(L) \ Units(x[1], w)
<1>1. PICK n \in Nat : n = Len(L)
  BY RingIs
<1>2. PICK R : R = From(L, i)
  OBVIOUS
<1>3. /\ RingOK(R) /\ Range(R) = Range(L) /\ Len(R) = n /\ i \in 1..n
      /\ \A j \in 1..n : R[j] = L[Turn(n, i, j)]
  BY <1>1, <1>2, TurnRing
<1>4. R \in Seq(SlobBlocks) /\ L \in Seq(SlobBlocks)
  BY <1>3, RingIs
<1>5. (i % n) + 1 = (IF i = n THEN 1 ELSE i + 1)
  BY <1>3, NextPlace
<1>6. x \in SlobBlocks /\ x \in Range(L)
  <2>1. PICK k \in 1..n : k = (i % n) + 1
    BY <1>3, <1>5
  <2>2. x = L[k]
    BY <1>1, <2>1
  <2> QED BY <1>1, <1>4, <2>2, RangeIs
<1>7. PICK p, q : p = x[1] /\ q = x[2]
  OBVIOUS
<1>8. p \in Int /\ q \in Nat /\ q >= w /\ x = <<p, q>>
  BY <1>6, <1>7, BlockIs
<1>9. x # Arena
  BY <1>7, <1>8, ArenaIs
<1>10. n > 1
  <2> SUFFICES ASSUME n = 1 PROVE FALSE
    BY <1>3
  <2>1. Len(L) = 1 /\ (i % n) + 1 = 1
    BY <1>1, <1>3, <1>5
  <2>2. L[1] = Arena
    BY <2>1 DEF RingOK, RingAt
  <2> QED BY <1>1, <1>9, <2>1, <2>2
<1>11. R[2] = x
  <2>1. 2 \in 1..n /\ Turn(n, i, 2) = (i % n) + 1
    BY <1>3, <1>5, <1>10 DEF Turn
  <2> QED BY <1>1, <1>3, <2>1
<1>12. p >= 0
  <2>1. PICK r \in 1..n : RingAt(R, r)
    BY <1>3, RingIs
  <2>2. 2 # r /\ 2 \in 1..n
    BY <1>9, <1>10, <1>11, <2>1 DEF RingAt
  <2>3. R[2][1] >= 0
    BY <1>3, <2>1, <2>2 DEF RingAt
  <2> QED BY <1>7, <1>11, <2>3
<1>13. PICK B : B = Range(L) \ {Arena}
  OBVIOUS
<1>14. ListUnits(L) = Spread(B) /\ x \in B
  BY <1>6, <1>9, <1>13 DEF ListUnits
<1>15. Units(p, w) \subseteq Units(p, q)
  BY <1>8 DEF Units
<1>16. Units(p, q) \subseteq ListUnits(L)
  BY <1>7, <1>14 DEF Spread
<1>17. ASSUME NEW y \in B, y # x PROVE Units(y[1], y[2]) \cap Units(p, q) = {}
  <2>1. y \in Range(R) /\ x \in Range(R)
    BY <1>3, <1>6, <1>13
  <2>2. PICK a \in 1..n, b \in 1..n : y = R[a] /\ x = R[b]
    BY <1>3, <1>4, <2>1, RangeIs
  <2>3. a # b
    BY <1>17, <2>2
  <2>4. Ahead(x, y) \/ Ahead(y, x)
    BY <1>3, <2>2, <2>3, RingApart
  <2>5. y \in SlobBlocks
    BY <1>3, <1>4, <2>2
  <2>6. PICK c, d : c = y[1] /\ d = y[2]
    OBVIOUS
  <2>7. c \in Int /\ d \in Nat /\ (p + q < c \/ c + d < p)
    BY <1>7, <2>4, <2>5, <2>6, BlockIs DEF Ahead
  <2>8. Units(c, d) \cap Units(p, q) = {}
    BY <1>8, <2>7 DEF Units
  <2> QED BY <2>6, <2>8
<1>18. Spread(B \ {x}) = ListUnits(L) \ Units(p, q)
  <2>1. \A a : a \in Spread(B \ {x}) => a \in ListUnits(L) /\ a \notin Units(p, q)
    BY <1>14, <1>17 DEF Spread
  <2>2. \A a : a \in ListUnits(L) /\ a \notin Units(p, q) => a \in Spread(B \ {x})
    BY <1>7, <1>14 DEF Spread
  <2> QED BY <2>1, <2>2
<1>19. CASE q = w
  <2>1. PICK S : S = RemoveAt(R, 2)
    OBVIOUS
  <2>2. 2 \in 1..Len(R)
    BY <1>3, <1>10
  <2>3. /\ S \in Seq(SlobBlocks) /\ Len(S) = Len(R) - 1
        /\ \A j \in 1..(Len(R) - 1) : S[j] = IF j < 2 THEN R[j] ELSE R[j + 1]
    BY <1>4, <2>1, <2>2, RemoveAtFacts
  <2>4. \A j \in 1..Len(S) : S[j] = IF j = 1 THEN R[1] ELSE R[j + 1]
    BY <1>3, <2>3
  <2>5. RingOK(S)
    BY <1>3, <1>9, <1>10, <1>11, <2>3, <2>4, DropRing
  <2>6. Range(S) = Range(R) \ {R[2]}
    <3>1. PICK T : T = <<R[1]>> \o SubSeq(R, 3, Len(R))
      OBVIOUS
    <3>2. /\ T \in Seq(SlobBlocks) /\ Len(T) = Len(R) - 1 /\ Range(T) = Range(R) \ {R[2]}
      BY <1>3, <1>4, <1>9, <1>10, <1>11, <3>1, JoinUp
    <3>3. S = T
      BY <1>4, <1>3, <1>10, <2>1, <3>1 DEF RemoveAt
    <3> QED BY <3>2, <3>3
  <2>7. Taken(L, i, w) = S
    BY <1>2, <1>7, <1>11, <1>19, <2>1 DEF Taken
  <2>8. ListUnits(S) = Spread(B \ {x})
    <3>1. Range(S) \ {Arena} = B \ {x}
      BY <1>3, <1>11, <1>13, <2>6
    <3> QED BY <3>1 DEF ListUnits
  <2>9. ListUnits(S) = ListUnits(L) \ Units(p, w)
    BY <1>18, <1>19, <2>8
  <2>10. p \in Nat /\ Units(p, w) \subseteq ListUnits(L)
    BY <1>8, <1>12, <1>15, <1>16
  <2> QED BY <1>7, <2>5, <2>7, <2>9, <2>10
<1>20. CASE q # w
  <2>1. PICK y : y = <<p + w, q - w>>
    OBVIOUS
  <2>2. y \in SlobBlocks /\ y[1] = p + w /\ y[2] = q - w /\ y[1] >= 0
    BY <1>8, <1>12, <1>20, <2>1 DEF SlobBlocks
  <2>3. PICK S : S = [R EXCEPT ![2] = y]
    OBVIOUS
  <2>4. Taken(L, i, w) = S
    BY <1>2, <1>7, <1>11, <1>20, <2>1, <2>3 DEF Taken
  <2>5. 2 \in 1..Len(R) /\ R[2] # Arena
    BY <1>3, <1>9, <1>10, <1>11
  <2>6. \A j \in 1..Len(R) : Ahead(R[j], R[2]) => Ahead(R[j], y)
    <3> SUFFICES ASSUME NEW j \in 1..Len(R), Ahead(R[j], R[2]) PROVE Ahead(R[j], y)
      OBVIOUS
    <3>1. R[j][1] \in Int /\ R[j][2] \in Nat /\ R[j][1] + R[j][2] < p
      BY <1>4, <1>7, <1>11, BlockIs DEF Ahead
    <3> QED BY <1>8, <2>2, <3>1 DEF Ahead
  <2>7. \A j \in 1..Len(R) : Ahead(R[2], R[j]) => Ahead(y, R[j])
    <3> SUFFICES ASSUME NEW j \in 1..Len(R), Ahead(R[2], R[j]) PROVE Ahead(y, R[j])
      OBVIOUS
    <3>1. p + q < R[j][1]
      BY <1>7, <1>11 DEF Ahead
    <3>2. y[1] + y[2] = p + q
      BY <1>8, <2>2
    <3> QED BY <3>1, <3>2 DEF Ahead
  <2>8. RingOK(S) /\ Len(S) = n /\ \A j \in 1..n : S[j] = IF j = 2 THEN y ELSE R[j]
    <3>1. PICK k \in 1..Len(R) : k = 2
      BY <2>5
    <3>2. R[k] # Arena /\ y \in SlobBlocks /\ y[1] >= 0
      BY <2>2, <2>5, <3>1
    <3>3. \A j \in 1..Len(R) : Ahead(R[j], R[k]) => Ahead(R[j], y)
      BY <2>6, <3>1
    <3>4. \A j \in 1..Len(R) : Ahead(R[k], R[j]) => Ahead(y, R[j])
      BY <2>7, <3>1
    <3>5. /\ RingOK([R EXCEPT ![k] = y]) /\ Len([R EXCEPT ![k] = y]) = Len(R)
          /\ \A j \in 1..Len(R) : [R EXCEPT ![k] = y][j] = IF j = k THEN y ELSE R[j]
      <4>1. RingOK(R) /\ k \in 1..Len(R) /\ R[k] # Arena /\ y \in SlobBlocks /\ y[1] >= 0
        BY <1>3, <3>2
      <4> QED BY ONLY <4>1, <3>3, <3>4, ReplaceRing
    <3>6. S = [R EXCEPT ![k] = y]
      BY <2>3, <3>1
    <3>7. RingOK(S) /\ Len(S) = Len(R) /\ \A j \in 1..Len(R) : S[j] = IF j = k THEN y ELSE R[j]
      BY <3>5, <3>6
    <3> QED BY <1>3, <3>1, <3>7
  <2>9. S \in Seq(SlobBlocks)
    BY <2>8, RingIs
  <2>10. Range(S) = (Range(R) \ {x}) \cup {y}
    <3>1. ASSUME NEW z \in Range(S) PROVE z = y \/ (z \in Range(R) /\ z # x)
      <4>1. PICK j \in 1..n : z = S[j]
        BY <2>8, <2>9, RangeIs
      <4>2. CASE j = 2
        BY <2>8, <4>1, <4>2
      <4>3. CASE j # 2
        <5>1. z = R[j] /\ R[j] # R[2]
          BY <1>3, <2>5, <2>8, <4>1, <4>3, RingApart
        <5> QED BY <1>3, <1>4, <1>11, <5>1, RangeIs
      <4> QED BY <4>2, <4>3
    <3>2. ASSUME NEW z \in Range(R), z # x PROVE z \in Range(S)
      <4>1. PICK j \in 1..n : z = R[j]
        BY <1>3, <1>4, RangeIs
      <4>2. z = S[j]
        BY <1>11, <2>8, <3>2, <4>1
      <4> QED BY <2>8, <2>9, <4>1, <4>2, RangeIs
    <3>3. y \in Range(S)
      <4>1. 2 \in 1..Len(S) /\ S[2] = y
        BY <1>10, <2>8
      <4> QED BY <2>9, <4>1, RangeIs
    <3> QED BY <3>1, <3>2, <3>3
  <2>11. y # Arena
    BY <2>2, ArenaIs
  <2>12. Range(S) \ {Arena} = (B \ {x}) \cup {y}
    BY <1>3, <1>13, <2>10, <2>11
  <2>13. ListUnits(S) = Spread(B \ {x}) \cup Units(p + w, q - w)
    <3>1. Spread((B \ {x}) \cup {y}) = Spread(B \ {x}) \cup Units(y[1], y[2])
      BY DEF Spread
    <3> QED BY <2>2, <2>12, <3>1 DEF ListUnits
  <2>14. Units(p + w, q - w) = Units(p, q) \ Units(p, w)
    BY <1>8 DEF Units
  <2>15. ListUnits(S) = ListUnits(L) \ Units(p, w)
    BY <1>15, <1>16, <1>18, <2>13, <2>14
  <2>16. p \in Nat /\ Units(p, w) \subseteq ListUnits(L)
    BY <1>8, <1>12, <1>15, <1>16
  <2> QED BY <1>7, <2>4, <2>8, <2>15, <2>16
<1> QED BY <1>19, <1>20

-----------------------------------------------------------------------------
(* What the steps of the heap do to the blocks in use and to the units of   *)
(* its pages.                                                               *)

LEMMA SpreadMore ==
    ASSUME NEW B, NEW y PROVE Spread(B \cup {y}) = Spread(B) \cup Units(y[1], y[2])
BY DEF Spread

LEMMA PartedMore ==
    ASSUME NEW B, Parted(B), NEW p \in Nat, NEW w \in Nat \ {0}, Units(p, w) \cap Spread(B) = {}
    PROVE  Parted(B \cup {<<p, w>>})
<1>1. PICK y : y = <<p, w>>
  OBVIOUS
<1>2. y \in Nat \X (Nat \ {0}) /\ y[1] = p /\ y[2] = w
  BY <1>1
<1>3. \A x \in B : Units(x[1], x[2]) \subseteq Spread(B)
  BY DEF Spread
<1>4. \A x \in B : Units(x[1], x[2]) \cap Units(y[1], y[2]) = {}
  BY <1>2, <1>3
<1>5. Parted(B \cup {y})
  BY <1>2, <1>4 DEF Parted
<1> QED BY <1>1, <1>5

LEMMA PartedLess ==
    ASSUME NEW B, Parted(B), NEW y \in B
    PROVE  Parted(B \ {y}) /\ Spread(B \ {y}) = Spread(B) \ Units(y[1], y[2])
<1>1. Parted(B \ {y})
  BY DEF Parted
<1>2. \A x \in B \ {y} : Units(x[1], x[2]) \cap Units(y[1], y[2]) = {}
  BY DEF Parted
<1>3. \A a : a \in Spread(B \ {y}) => a \in Spread(B) /\ a \notin Units(y[1], y[2])
  BY <1>2 DEF Spread
<1>4. \A a : a \in Spread(B) /\ a \notin Units(y[1], y[2]) => a \in Spread(B \ {y})
  BY DEF Spread
<1> QED BY <1>1, <1>3, <1>4

\* slob_alloc takes a block.
LEMMA CutTake ==
    ASSUME NEW B, NEW L, NEW H, Cut(B, L, H), NEW i \in 1..Len(L), NEW w \in Nat, w > 1,
           NEW x, x = L[(i % Len(L)) + 1], x[2] >= w
    PROVE  /\ x[1] \in Nat /\ Cut(B \cup {<<x[1], w>>}, Taken(L, i, w), H)
           /\ Units(x[1], w) \cap Spread(B) = {} /\ Units(x[1], w) \subseteq ListUnits(L)
<1>1. PICK p, M : p = x[1] /\ M = Taken(L, i, w)
  OBVIOUS
<1>2. /\ RingOK(M) /\ p \in Nat /\ Units(p, w) \subseteq ListUnits(L)
      /\ ListUnits(M) = ListUnits(L) \ Units(p, w)
  <2>1. RingOK(L)
    BY DEF Cut
  <2> QED BY <1>1, <2>1, TakenKeeps
<1>3. Parted(B) /\ Spread(B) \cap ListUnits(L) = {}
  BY DEF Cut
<1>4. Units(p, w) \cap Spread(B) = {}
  BY <1>2, <1>3
<1>5. Parted(B \cup {<<p, w>>})
  BY <1>2, <1>3, <1>4, PartedMore
<1>6. Spread(B \cup {<<p, w>>}) = Spread(B) \cup Units(p, w)
  <2>1. PICK y : y = <<p, w>>
    OBVIOUS
  <2>2. y[1] = p /\ y[2] = w /\ Spread(B \cup {y}) = Spread(B) \cup Units(y[1], y[2])
    BY <2>1, SpreadMore
  <2> QED BY <2>1, <2>2
<1>7. PICK D : D = B \cup {<<p, w>>}
  OBVIOUS
<1>8. Spread(D) \cap ListUnits(M) = {} /\ Spread(D) \cup ListUnits(M) = Spread(B) \cup ListUnits(L)
  BY <1>2, <1>3, <1>6, <1>7
<1>9. Cut(D, M, H)
  BY <1>2, <1>5, <1>7, <1>8 DEF Cut
<1> QED BY <1>1, <1>2, <1>4, <1>7, <1>9

\* slob_free gives one back.
LEMMA CutGive ==
    ASSUME NEW B, NEW L, NEW H, Cut(B, L, H), NEW b, NEW u, <<b, u>> \in B,
           NEW J, H \subseteq J
    PROVE  Cut(B \ {<<b, u>>}, SlobFree(L, b, u), J)
<1>1. PICK y, M : y = <<b, u>> /\ M = SlobFree(L, b, u)
  OBVIOUS
<1>2. y \in B /\ y[1] = b /\ y[2] = u /\ Parted(B) /\ RingOK(L) /\ Spread(B) \cap ListUnits(L) = {}
  BY <1>1 DEF Cut
<1>3. b \in Nat /\ u \in Nat \ {0}
  BY <1>1, <1>2 DEF Parted
<1>4. Units(b, u) \subseteq Spread(B)
  BY <1>2 DEF Spread
<1>5. Parted(B \ {y}) /\ Spread(B \ {y}) = Spread(B) \ Units(b, u)
  BY <1>2, PartedLess
<1>6. Units(b, u) \cap ListUnits(L) = {}
  BY <1>2, <1>4
<1>7. RingOK(M) /\ ListUnits(M) = ListUnits(L) \cup Units(b, u)
  BY <1>1, <1>2, <1>3, <1>6, SlobFreeKeeps
<1>8. PICK D : D = B \ {y}
  OBVIOUS
<1>9. Spread(D) \cap ListUnits(M) = {} /\ Spread(D) \cup ListUnits(M) = Spread(B) \cup ListUnits(L)
  BY <1>2, <1>4, <1>5, <1>7, <1>8
<1>10. WholePages(Spread(B) \cup ListUnits(L), J)
  BY DEF Cut, WholePages
<1>11. Cut(D, M, J)
  BY <1>5, <1>7, <1>8, <1>9, <1>10 DEF Cut
<1> QED BY <1>1, <1>8, <1>11

LEMMA PageUnits ==
    ASSUME NEW p \in Nat, NEW a
    PROVE  a \in Units(p * PAGE_SIZE, PAGE_SIZE) <=> a \in Nat /\ a \div PAGE_SIZE = p
<1>1. PICK z \in Nat \ {0} : z = PAGE_SIZE
  BY KmallocAssumption
<1>2. PICK m : m = p * z
  OBVIOUS
<1>3. m \in Nat
  BY <1>1, <1>2
<1>4. ASSUME a \in m..(m + z - 1) PROVE a \in Nat /\ a \div z = p
  <2>1. a \in Nat /\ m <= a /\ a < m + z
    BY <1>1, <1>3, <1>4
  <2>2. PICK k : k = a - m
    OBVIOUS
  <2>3. k \in 0..(z - 1) /\ a = p * z + k
    BY <1>1, <1>2, <1>3, <2>1, <2>2
  <2>4. a \div z = p
    BY <1>1, <2>3
  <2> QED BY <2>1, <2>4
<1>5. ASSUME a \in Nat, a \div z = p PROVE a \in m..(m + z - 1)
  <2>1. a = z * p + (a % z) /\ a % z \in 0..(z - 1)
    BY <1>1, <1>5
  <2> QED BY <1>1, <1>2, <1>3, <2>1, <1>5
<1> QED BY <1>1, <1>2, <1>4, <1>5 DEF Units

\* slob_alloc gives itself a page that the heap does not have.
LEMMA CutMore ==
    ASSUME NEW B, NEW L, NEW H, Cut(B, L, H), NEW p \in Nat, <<p, 1>> \notin H,
           NEW J, H \subseteq J, <<p, 1>> \in J
    PROVE  Cut(B, SlobFree(L, p * PAGE_SIZE, PAGE_SIZE), J)
<1>1. PICK b, u : b = p * PAGE_SIZE /\ u = PAGE_SIZE
  OBVIOUS
<1>2. b \in Nat /\ u \in Nat \ {0}
  BY <1>1, KmallocAssumption
<1>3. PICK M : M = SlobFree(L, b, u)
  OBVIOUS
<1>4. RingOK(L) /\ Parted(B) /\ Spread(B) \cap ListUnits(L) = {}
  BY DEF Cut
<1>5. PICK C : C = Spread(B) \cup ListUnits(L)
  OBVIOUS
<1>6. \A a \in C : Units((a \div PAGE_SIZE) * PAGE_SIZE, PAGE_SIZE) \subseteq C /\ <<a \div PAGE_SIZE, 1>> \in H
  BY <1>5 DEF Cut, WholePages
<1>7. \A a \in Units(b, u) : a \in Nat /\ a \div PAGE_SIZE = p
  BY <1>1, PageUnits
<1>8. Units(b, u) \cap C = {}
  BY <1>6, <1>7
<1>9. RingOK(M) /\ ListUnits(M) = ListUnits(L) \cup Units(b, u)
  <2>1. Units(b, u) \cap ListUnits(L) = {}
    BY <1>5, <1>8
  <2> QED BY <1>2, <1>3, <1>4, <2>1, SlobFreeKeeps
<1>10. Spread(B) \cap ListUnits(M) = {}
  BY <1>4, <1>5, <1>8, <1>9
<1>11. Spread(B) \cup ListUnits(M) = C \cup Units(b, u)
  BY <1>5, <1>9
<1>12. WholePages(C \cup Units(b, u), J)
  <2> SUFFICES ASSUME NEW a \in C \cup Units(b, u)
               PROVE  /\ Units((a \div PAGE_SIZE) * PAGE_SIZE, PAGE_SIZE) \subseteq C \cup Units(b, u)
                      /\ <<a \div PAGE_SIZE, 1>> \in J
    BY DEF WholePages
  <2>1. CASE a \in C
    BY <1>6, <2>1
  <2>2. CASE a \in Units(b, u)
    <3>1. a \div PAGE_SIZE = p
      BY <1>7, <2>2
    <3> QED BY <1>1, <3>1
  <2> QED BY <2>1, <2>2
<1>13. Cut(B, M, J)
  BY <1>4, <1>9, <1>10, <1>11, <1>12 DEF Cut
<1> QED BY <1>1, <1>3, <1>13

-----------------------------------------------------------------------------
(* The heap and the page allocator.                                         *)

LEMMA LiveIs ==
    /\ LiveBlocks = SmallOf(live) \cup BbOf(bigblocks) \cup ReqOf(req)
    /\ LiveBlocks' = SmallOf(live') \cup BbOf(bigblocks') \cup ReqOf(req')
BY DEF LiveBlocks, SmallOf, BbOf, ReqOf

\* A page that the heap cuts up is no first page of a big block.
LEMMA BigApart ==
    ASSUME PagesInv, NEW p, <<p, 1>> \in held \ BigPages, NEW i \in 1..Len(bigblocks)
    PROVE  bigblocks[i].pages # p
<1>1. PICK c : c = bigblocks[i]
  OBVIOUS
<1>2. BigInv /\ PmmInv(Managed)
  BY DEF PagesInv
<1>3. /\ c \in Range(bigblocks) /\ c.pages \in Pages /\ c.order \in Nat
      /\ BigPages \subseteq held
  BY <1>1, <1>2, RangeIs DEF BigInv
<1>4. PICK x, y : x = <<c.pages, 2^c.order>> /\ y = <<p, 1>>
  OBVIOUS
<1>5. x \in BigPages /\ x \in held /\ y \in held /\ x # y
  BY <1>3, <1>4 DEF BigPages
<1>6. held \subseteq Pages \X (Nat \ {0})
  BY <1>2 DEF PmmInv, PmmTypeOK
<1>7. x[1] + x[2] <= y[1] \/ y[1] + y[2] <= x[1]
  BY <1>2, <1>5 DEF PmmInv, PartitionOf
<1>8. x[1] \in Nat /\ x[2] \in Nat \ {0} /\ y[1] \in Nat /\ y[2] \in Nat \ {0}
  BY <1>5, <1>6, InHeld
<1>9. x[1] # y[1]
  BY <1>7, <1>8
<1> QED BY <1>1, <1>4, <1>9

\* A unit of a page the heap cuts up is not the address of a big block.
LEMMA UnitApart ==
    ASSUME PagesInv, NEW B, NEW L, Cut(B, L, held \ BigPages), NEW a \in Spread(B) \cup ListUnits(L),
           a \in Nat, NEW i \in 1..Len(bigblocks)
    PROVE  bigblocks[i].pages * PAGE_SIZE # a
<1>1. PICK p : p = bigblocks[i].pages
  OBVIOUS
<1>2. p \in Nat
  BY <1>1, PagesFacts DEF PagesInv, BigInv
<1>3. PICK q : q = a \div PAGE_SIZE
  OBVIOUS
<1>4. <<q, 1>> \in held \ BigPages
  BY <1>3 DEF Cut, WholePages
<1>5. p # q
  BY <1>1, <1>4, BigApart
<1>6. ASSUME p * PAGE_SIZE = a PROVE FALSE
  <2>1. a \in Units(p * PAGE_SIZE, PAGE_SIZE)
    BY <1>6, KmallocAssumption DEF Units
  <2>2. a \div PAGE_SIZE = p
    BY <1>2, <2>1, PageUnits
  <2> QED BY <1>3, <1>5, <2>2
<1> QED BY <1>1, <1>6

\* What the invariant says of one block that kmalloc has returned.
LEMMA LiveFacts ==
    ASSUME PagesInv, HeapInv, NEW x \in live
    PROVE  /\ x.block \in Nat /\ x.size \in KSizes /\ x.size \in Nat \ {0}
           /\ x.units > 0 => /\ x.units = x.size + 1 /\ x.units \in Nat \ {0}
                             /\ x.block \in Spread(LiveBlocks) /\ BigOf(x.block) = {}
                             /\ <<x.block - 1, x.units>> \in LiveBlocks
           /\ ~(x.units > 0) =>
                /\ x.units = 0
                /\ \E i \in BigOf(x.block) : bigblocks[i].order = find_order(x.size)
<1>1. RecordOK(x, bigblocks)
  BY DEF HeapInv, Records
<1>2. x.block \in Nat /\ x.size \in KSizes /\ x.size \in Nat \ {0}
  BY <1>1, KmallocAssumption DEF RecordOK
<1>3. ASSUME x.units > 0
      PROVE  /\ x.units = x.size + 1 /\ x.units \in Nat \ {0}
             /\ x.block \in Spread(LiveBlocks) /\ BigOf(x.block) = {}
             /\ <<x.block - 1, x.units>> \in LiveBlocks
  <2>1. x.units = x.size + 1
    BY <1>1, <1>3 DEF RecordOK
  <2>2. PICK y : y = <<x.block - 1, x.units>>
    OBVIOUS
  <2>3. y \in LiveBlocks
    BY <1>3, <2>2, LiveIs DEF SmallOf
  <2>4. y[1] = x.block - 1 /\ y[2] = x.size + 1
    BY <2>1, <2>2
  <2>5. x.block \in Units(y[1], y[2])
    BY <1>2, <2>4 DEF Units
  <2>6. x.block \in Spread(LiveBlocks)
    BY <2>3, <2>5 DEF Spread
  <2>7. Cut(LiveBlocks, slob, held \ BigPages)
    BY DEF HeapInv
  <2>8. PICK a, B, L : a = x.block /\ B = LiveBlocks /\ L = slob
    OBVIOUS
  <2>9. a \in Nat /\ a \in Spread(B) \cup ListUnits(L) /\ Cut(B, L, held \ BigPages)
    BY <1>2, <2>6, <2>7, <2>8
  <2>10. \A i \in 1..Len(bigblocks) : bigblocks[i].pages * PAGE_SIZE # a
    BY <2>9, UnitApart
  <2>11. BigOf(x.block) = {}
    BY <2>8, <2>10 DEF BigOf
  <2>12. x.units \in Nat \ {0}
    BY <1>2, <2>1
  <2> QED BY <2>1, <2>2, <2>3, <2>6, <2>11, <2>12
<1>4. ASSUME ~(x.units > 0)
      PROVE  x.units = 0 /\ \E i \in BigOf(x.block) : bigblocks[i].order = find_order(x.size)
  <2>1. x.units # x.size + 1
    BY <1>2, <1>4
  <2>2. PICK i \in 1..Len(bigblocks) :
           bigblocks[i].pages * PAGE_SIZE = x.block /\ bigblocks[i].order = find_order(x.size)
    BY <1>1, <2>1 DEF RecordOK
  <2>3. x.block % PAGE_SIZE = 0
    <3>1. PICK p \in Nat : p = bigblocks[i].pages
      BY PagesFacts DEF PagesInv, BigInv
    <3>2. PICK z \in Nat \ {0} : z = PAGE_SIZE
      BY KmallocAssumption
    <3>3. PICK a \in Nat : a = p * z
      BY <3>1, <3>2
    <3>4. a \in Units(p * PAGE_SIZE, PAGE_SIZE)
      BY <3>2, <3>3 DEF Units
    <3>5. a \div z = p
      BY <3>2, <3>4, PageUnits
    <3>6. a = z * (a \div z) + (a % z) /\ a % z \in Nat
      BY <3>2
    <3>7. PICK m \in Nat : m = a % z
      BY <3>6
    <3>8. m = 0
      BY <3>2, <3>3, <3>5, <3>6, <3>7
    <3> QED BY <2>2, <3>1, <3>2, <3>3, <3>7, <3>8
  <2>4. i \in BigOf(x.block)
    BY <2>2, <2>3 DEF BigOf
  <2> QED BY <1>1, <2>1, <2>2, <2>4 DEF RecordOK
<1> QED BY <1>2, <1>3, <1>4

-----------------------------------------------------------------------------
(* The steps that leave the heap alone.                                     *)

LEMMA SlobPagesIs ==
    SlobPages = {<<a \div PAGE_SIZE, 1>> : a \in Spread(LiveBlocks) \cup ListUnits(slob)}
<1>1. UNION {Units(x[1], x[2]) : x \in LiveBlocks \cup FreeBlocks} = Spread(LiveBlocks) \cup ListUnits(slob)
  BY DEF Spread, ListUnits, FreeBlocks
<1> QED BY <1>1 DEF SlobPages

LEMMA HeapSame ==
    ASSUME HeapInv, UNCHANGED <<slob, live, bigblocks>>, ReqOf(req') = ReqOf(req),
           req'.at = "pages" => req' = req, SlobPages \subseteq held',
           phase = "done" => phase' = "done"
    PROVE  HeapInv'
<1>1. LiveBlocks' = LiveBlocks /\ BigPages' = BigPages
  BY LiveIs DEF BigPages
<1>2. PICK C : C = Spread(LiveBlocks) \cup ListUnits(slob)
  OBVIOUS
<1>3. WholePages(C, held \ BigPages)
  BY <1>2 DEF HeapInv, Cut
<1>4. \A a \in C : <<a \div PAGE_SIZE, 1>> \in held'
  BY <1>2, SlobPagesIs
<1>5. WholePages(C, held' \ BigPages)
  BY <1>3, <1>4 DEF WholePages
<1>6. Cut(LiveBlocks, slob, held' \ BigPages)
  BY <1>2, <1>5 DEF HeapInv, Cut
<1>7. Cut(LiveBlocks', slob', held' \ BigPages')
  BY <1>1, <1>6
<1>8. Owners(live', bigblocks', req')
  BY DEF HeapInv, Owners
<1>9. Records(live', bigblocks')
  BY DEF HeapInv
<1> QED BY <1>7, <1>8, <1>9 DEF HeapInv

\* The pages of the heap are held.
LEMMA SlobHeld ==
    ASSUME HeapInv PROVE SlobPages \subseteq held \ BigPages
<1>1. \A a \in Spread(LiveBlocks) \cup ListUnits(slob) : <<a \div PAGE_SIZE, 1>> \in held \ BigPages
  BY DEF HeapInv, Cut, WholePages
<1> QED BY <1>1, SlobPagesIs

\* Up to the end of the boot the heap has nothing.
LEMMA NoHeap ==
    ASSUME PagesInv, HeapInv, phase # "done" PROVE SlobPages = {}
<1>1. slob = <<Arena>> /\ live = {} /\ bigblocks = <<>> /\ req = NoReq
  BY DEF PagesInv, BigInv, HeapInv
<1>2. LiveBlocks = {}
  <2>1. Range(bigblocks) = {}
    BY <1>1 DEF Range
  <2>2. SmallOf(live) = {} /\ BbOf(bigblocks) = {} /\ ReqOf(req) = {}
    BY <1>1, <2>1 DEF SmallOf, BbOf, ReqOf, NoReq
  <2> QED BY <2>2, LiveIs
<1>3. Range(slob) \ {Arena} = {}
  BY <1>1 DEF Range
<1>4. Spread(LiveBlocks) = {} /\ ListUnits(slob) = {}
  BY <1>2, <1>3 DEF Spread, ListUnits
<1> QED BY <1>4, SlobPagesIs

LEMMA SwapNotDone ==
    ASSUME PagesInv, SwapStep PROVE phase # "done"
<1>1. fault # 0 => phase \in Accesses
  BY DEF PagesInv, AccessInv
<1>2. phase \in Accesses => phase # "done"
  BY DEF Accesses
<1>3. CASE CheckBegin \/ TakePage \/ HideFree \/ GivePage
  BY <1>3 DEF CheckBegin, TakePage, HideFree, GivePage
<1>4. CASE SetBegin \/ SetDone \/ AccessDone \/ CheckEnd
  BY <1>4 DEF SetBegin, SetDone, AccessDone, CheckEnd
<1>5. ASSUME NEW v \in VPages, Write(v) \/ PageFault(v) PROVE phase # "done"
  BY <1>2, <1>5 DEF Write, PageFault, Accessing
<1>6. CASE NewPage \/ SwapOut \/ SwapOutFails
  BY <1>1, <1>2, <1>6 DEF NewPage, SwapOut, SwapOutFails
<1>7. ASSUME NEW ok \in BOOLEAN, SwapIn(ok) PROVE phase # "done"
  BY <1>1, <1>2, <1>7 DEF SwapIn
<1> QED BY <1>3, <1>4, <1>5, <1>6, <1>7 DEF SwapStep

\* A call of alloc_pages gives a page that was free.
LEMMA FreshPage ==
    ASSUME PagesInv, NEW n \in Nat \ {0}, Alloc(n), NEW p, p = FirstFitPage(n)
    PROVE  /\ p \in Pages /\ p \in Nat /\ held' = held \cup {<<p, n>>}
           /\ \A x \in held : x[1] # p
<1>1. PICK P : P = Managed
  OBVIOUS
<1>2. PmmInv(P)
  BY <1>1 DEF PagesInv
<1>3. Allocated(P, n)
  BY <1>2, AllocKeeps
<1>4. p \in Pages /\ Run(p, n) \subseteq FreePages /\ held' = held \cup {<<p, n>>}
  BY <1>3 DEF Allocated
<1>5. p \in Nat /\ p \in Run(p, n)
  BY <1>4, PagesFacts, InRun
<1>6. held \subseteq Pages \X (Nat \ {0}) /\ FreePages \cap HeldOf(held) = {}
  BY <1>2, PmmFacts DEF Split
<1>7. \A x \in held : x[1] \in HeldOf(held)
  BY <1>6, InHeld
<1> QED BY <1>4, <1>5, <1>6, <1>7

LEMMA HeapOthers ==
    ASSUME PagesInv, HeapInv, [Next]_vars,
           ~(phase = "done" /\ KmallocStep /\ UNCHANGED swapVars)
    PROVE  HeapInv'
<1>1. SlobPages \subseteq held
  BY SlobHeld
<1>2. CASE UNCHANGED vars
  <2>1. UNCHANGED <<slob, live, bigblocks, req, held, phase>>
    BY <1>2 DEF vars, heapVars, swapVars
  <2> QED BY <1>1, <2>1, HeapSame
<1>3. CASE PmmStep /\ UNCHANGED <<swapVars, heapVars>>
  <2>1. held' = held
    BY <1>3, PmmStepPages
  <2>2. UNCHANGED <<slob, live, bigblocks, req, phase>>
    BY <1>3 DEF heapVars, swapVars
  <2> QED BY <1>1, <2>1, <2>2, HeapSame
<1>4. CASE SwapStep /\ UNCHANGED heapVars
  <2>1. phase # "done"
    BY <1>4, SwapNotDone
  <2>2. UNCHANGED <<slob, live, bigblocks, req>>
    BY <1>4 DEF heapVars
  <2> QED BY <2>1, <2>2, NoHeap, HeapSame
<1>5. ASSUME NEW n \in Sizes, Alloc(n) \/ AllocFails(n), UNCHANGED <<swapVars, heapVars>>
      PROVE  HeapInv'
  <2>1. UNCHANGED <<slob, live, bigblocks, req, phase>>
    BY <1>5 DEF heapVars, swapVars
  <2>2. held \subseteq held'
    BY <1>5 DEF Alloc, AllocFails
  <2> QED BY <1>1, <2>1, <2>2, HeapSame
<1>6. ASSUME NEW x \in held \ (HeapPages \cup {<<p, 1>> : p \in CheckPages}),
             FreeBegin(x[1], x[2]), UNCHANGED <<swapVars, heapVars>>
      PROVE  HeapInv'
  <2>1. UNCHANGED <<slob, live, bigblocks, req, phase>>
    BY <1>6 DEF heapVars, swapVars
  <2>2. held' = held \ {<<x[1], x[2]>>}
    BY <1>6 DEF FreeBegin
  <2>3. held \subseteq Pages \X (Nat \ {0})
    BY DEF PagesInv, PmmInv, PmmTypeOK
  <2>4. <<x[1], x[2]>> = x /\ x \notin SlobPages
    BY <1>6, <2>3, InHeld DEF HeapPages
  <2>5. SlobPages \subseteq held'
    BY <1>1, <2>2, <2>4
  <2> QED BY <2>1, <2>5, HeapSame
<1>7. CASE OutOfMemory
  <2>1. UNCHANGED <<slob, live, bigblocks, req, phase, held>>
    BY <1>7 DEF heapVars, swapVars, OutOfMemory
  <2> QED BY <1>1, <2>1, HeapSame
<1> QED BY <1>2, <1>3, <1>4, <1>5, <1>6, <1>7 DEF Next

-----------------------------------------------------------------------------
(* The steps of kmalloc.                                                    *)

LEMMA KmallocBeginHeap ==
    ASSUME PagesInv, HeapInv, phase = "done", UNCHANGED swapVars, NEW size \in KSizes, KmallocBegin(size)
    PROVE  HeapInv'
<1>1. UNCHANGED <<slob, live, bigblocks, held>> /\ req = NoReq /\ req'.at \in {"small", "bb"}
  BY DEF KmallocBegin
<1>2. ReqOf(req') = {} /\ ReqOf(req) = {}
  BY <1>1 DEF ReqOf, NoReq
<1>3. phase' = phase /\ req'.at # "pages"
  BY <1>1 DEF swapVars
<1> QED BY <1>1, <1>2, <1>3, SlobHeld, HeapSame

\* Blocks that slob_alloc takes from the list are not in use.
LEMMA FreshBlock ==
    ASSUME PagesInv, HeapInv, NEW m \in Nat, NEW w \in Nat, w > 1,
           Units(m, w) \cap Spread(LiveBlocks) = {}, Units(m, w) \subseteq ListUnits(slob)
    PROVE  /\ \A i \in 1..Len(bigblocks) : bigblocks[i].bb # m
           /\ \A y \in live : y.block # m + 1
<1>1. m \in Units(m, w) /\ m + 1 \in Units(m, w)
  BY DEF Units
<1>2. ASSUME NEW i \in 1..Len(bigblocks) PROVE bigblocks[i].bb # m
  <2>1. PICK c : c = bigblocks[i]
    OBVIOUS
  <2>2. c \in Range(bigblocks)
    BY <2>1, RangeIs DEF PagesInv, BigInv
  <2>3. PICK y : y = <<c.bb, BigUnits>>
    OBVIOUS
  <2>4. y \in LiveBlocks
    BY <2>2, <2>3, LiveIs DEF BbOf
  <2>5. y[1] \in Nat /\ y[2] = 2 /\ y[1] = c.bb
    BY <2>3, <2>4 DEF HeapInv, Cut, Parted, BigUnits
  <2>6. c.bb \in Units(y[1], y[2])
    BY <2>5 DEF Units
  <2>7. c.bb \in Spread(LiveBlocks)
    BY <2>4, <2>6 DEF Spread
  <2> QED BY <1>1, <2>1, <2>7
<1>3. ASSUME NEW y \in live, y.block = m + 1 PROVE FALSE
  <2>1. CASE y.units > 0
    <3>1. y.block \in Spread(LiveBlocks)
      BY <2>1, LiveFacts
    <3> QED BY <1>1, <1>3, <3>1
  <2>2. CASE ~(y.units > 0)
    <3>1. PICK i \in BigOf(y.block) : TRUE
      BY <2>2, LiveFacts
    <3>2. i \in 1..Len(bigblocks) /\ bigblocks[i].pages * PAGE_SIZE = m + 1
      BY <1>3, <3>1 DEF BigOf
    <3>3. PICK a, B, L : a = m + 1 /\ B = LiveBlocks /\ L = slob
      OBVIOUS
    <3>4. a \in Spread(B) \cup ListUnits(L) /\ a \in Nat /\ Cut(B, L, held \ BigPages)
      BY <1>1, <3>3 DEF HeapInv
    <3>5. bigblocks[i].pages * PAGE_SIZE # a
      BY <3>2, <3>4, UnitApart
    <3> QED BY <3>2, <3>3, <3>5
  <2> QED BY <2>1, <2>2
<1> QED BY <1>2, <1>3

LEMMA SlobAllocHeap ==
    ASSUME PagesInv, HeapInv, phase = "done", UNCHANGED swapVars, SlobAlloc PROVE HeapInv'
<1>1. PICK i \in Room(slob, Wanted) :
        LET m == slob[Scan(slob)[i]][1]
        IN  /\ req.at \in {"small", "bb"}
            /\ slob' = Taken(slob, i, Wanted)
            /\ IF req.at = "small"
               THEN /\ live' = live \cup {[block |-> m + 1, size |-> req.size, units |-> Wanted]}
                    /\ req' = NoReq
               ELSE /\ req' = [req EXCEPT !.at = "pages", !.bb = m]
                    /\ UNCHANGED live
            /\ UNCHANGED <<held, bigblocks>>
  BY DEF SlobAlloc
<1>2. PICK L, B, H, w : L = slob /\ B = LiveBlocks /\ H = held \ BigPages /\ w = Wanted
  OBVIOUS
<1>3. Cut(B, L, H)
  BY <1>2 DEF HeapInv
<1>4. i \in 1..Len(L) /\ L[Scan(L)[i]][2] >= w /\ Scan(L)[i] = (i % Len(L)) + 1
  BY <1>1, <1>2 DEF Room, Scan
<1>5. req \in [at : {"small", "bb"}, size : KSizes, bb : {req.bb}]
  BY <1>1 DEF PagesInv, BigInv, ReqOK, NoReq
<1>6. w \in Nat /\ w > 1 /\ (req.at = "small" => w = req.size + 1) /\ req.size \in KSizes
  BY <1>2, <1>5, KmallocAssumption DEF Wanted, BigUnits
<1>7. PICK x : x = L[(i % Len(L)) + 1]
  OBVIOUS
<1>8. PICK m : m = x[1]
  OBVIOUS
<1>9. x[2] >= w
  BY <1>4, <1>7
<1>10. /\ m \in Nat /\ Cut(B \cup {<<m, w>>}, Taken(L, i, w), H)
       /\ Units(m, w) \cap Spread(B) = {} /\ Units(m, w) \subseteq ListUnits(L)
  BY <1>3, <1>4, <1>6, <1>7, <1>8, <1>9, CutTake
<1>11. /\ \A j \in 1..Len(bigblocks) : bigblocks[j].bb # m
       /\ \A y \in live : y.block # m + 1
  BY <1>2, <1>6, <1>10, FreshBlock
<1>12. /\ slob' = Taken(L, i, w) /\ UNCHANGED <<held, bigblocks>> /\ m = slob[Scan(slob)[i]][1]
  BY <1>1, <1>2, <1>4, <1>7, <1>8
<1>13. BigPages' = BigPages /\ phase' = "done"
  BY <1>12 DEF BigPages, swapVars
<1>14. ReqOf(req) = {}
  BY <1>1 DEF ReqOf
<1>15. CASE req.at = "small"
  <2>1. PICK r : r = [block |-> m + 1, size |-> req.size, units |-> w]
    OBVIOUS
  <2>2. live' = live \cup {r} /\ req' = NoReq
    BY <1>1, <1>2, <1>12, <1>15, <2>1
  <2>3. r.block = m + 1 /\ r.size = req.size /\ r.units = w
    BY <2>1
  <2>4. SmallOf(live') = SmallOf(live) \cup {<<m, w>>}
    <3>1. <<r.block - 1, r.units>> = <<m, w>> /\ r.units > 0
      BY <1>6, <1>10, <2>3
    <3>2. \A y \in live' : y \in live \/ y = r
      BY <2>2
    <3>3. live \subseteq live' /\ r \in live'
      BY <2>2
    <3> QED BY <3>1, <3>2, <3>3 DEF SmallOf
  <2>5. ReqOf(req') = {}
    BY <2>2 DEF ReqOf, NoReq
  <2>6. LiveBlocks' = B \cup {<<m, w>>}
    BY <1>2, <1>12, <1>14, <2>4, <2>5, LiveIs
  <2>7. Cut(LiveBlocks', slob', held' \ BigPages')
    BY <1>2, <1>10, <1>12, <1>13, <2>6
  <2>8. Owners(live', bigblocks', req')
    <3>1. Owners(live, bigblocks, req)
      BY DEF HeapInv
    <3>2. \A y, z \in live' : y.block = z.block => y = z
      BY <1>11, <2>2, <2>3, <3>1 DEF Owners
    <3>3. \A j \in 1..Len(bigblocks) : r.block # bigblocks[j].bb + 1
      <4> SUFFICES ASSUME NEW j \in 1..Len(bigblocks), m + 1 = bigblocks[j].bb + 1 PROVE FALSE
        BY <2>3
      <4>1. PICK c : c = bigblocks[j]
        OBVIOUS
      <4>2. c \in Range(bigblocks)
        BY <4>1, RangeIs DEF PagesInv, BigInv
      <4>3. <<c.bb, BigUnits>> \in LiveBlocks
        BY <4>2, LiveIs DEF BbOf
      <4>4. c.bb \in Nat
        BY <1>2, <1>3, <4>3 DEF Cut, Parted
      <4>5. c.bb = m
        BY <1>10, <4>1, <4>4
      <4> QED BY <1>11, <4>1, <4>5
    <3>4. \A y \in live', j \in 1..Len(bigblocks) : y.units > 0 => y.block # bigblocks[j].bb + 1
      BY <2>2, <3>1, <3>3 DEF Owners
    <3> QED BY <1>12, <2>2, <3>1, <3>2, <3>4 DEF Owners, NoReq
  <2>9. Records(live', bigblocks')
    <3>1. RecordOK(r, bigblocks)
      BY <1>6, <1>10, <1>15, <2>3 DEF RecordOK
    <3> QED BY <1>12, <2>2, <3>1 DEF HeapInv, Records
  <2> QED BY <1>13, <2>7, <2>8, <2>9 DEF HeapInv
<1>16. CASE req.at = "bb"
  <2>1. req' = [req EXCEPT !.at = "pages", !.bb = m] /\ live' = live
    BY <1>1, <1>2, <1>12, <1>16
  <2>2. req'.at = "pages" /\ req'.bb = m
    BY <1>5, <2>1
  <2>3. w = BigUnits
    BY <1>2, <1>16 DEF Wanted
  <2>4. ReqOf(req') = {<<m, w>>}
    BY <2>2, <2>3 DEF ReqOf
  <2>5. LiveBlocks' = B \cup {<<m, w>>}
    BY <1>2, <1>12, <1>14, <2>1, <2>4, LiveIs
  <2>6. Cut(LiveBlocks', slob', held' \ BigPages')
    BY <1>2, <1>10, <1>12, <1>13, <2>5
  <2>7. Owners(live', bigblocks', req')
    BY <1>11, <1>12, <2>1, <2>2 DEF HeapInv, Owners
  <2>8. Records(live', bigblocks')
    BY <1>12, <2>1 DEF HeapInv
  <2> QED BY <1>13, <2>6, <2>7, <2>8 DEF HeapInv
<1> QED BY <1>1, <1>15, <1>16

LEMMA SlobMoreHeap ==
    ASSUME PagesInv, HeapInv, phase = "done", UNCHANGED swapVars, SlobMore PROVE HeapInv'
<1>1. PICK p : p = FirstFitPage(1)
  OBVIOUS
<1>2. PICK n \in Nat \ {0} : n = 1
  OBVIOUS
<1>3. /\ Alloc(n) /\ slob' = SlobFree(slob, p * PAGE_SIZE, PAGE_SIZE)
      /\ UNCHANGED <<bigblocks, live, req>>
  BY <1>1, <1>2 DEF SlobMore
<1>4. p \in Nat /\ held' = held \cup {<<p, 1>>} /\ \A x \in held : x[1] # p
  BY <1>1, <1>2, <1>3, FreshPage
<1>5. PICK H, J : H = held \ BigPages /\ J = held' \ BigPages
  OBVIOUS
<1>6. <<p, 1>> \notin held
  <2>1. PICK x : x = <<p, 1>>
    OBVIOUS
  <2> QED BY <1>4, <2>1
<1>7. BigPages \subseteq held
  BY DEF PagesInv, BigInv
<1>8. <<p, 1>> \notin H /\ H \subseteq J /\ <<p, 1>> \in J
  BY <1>4, <1>5, <1>6, <1>7
<1>9. PICK B, L : B = LiveBlocks /\ L = slob
  OBVIOUS
<1>10. Cut(B, L, H)
  BY <1>5, <1>9 DEF HeapInv
<1>11. Cut(B, SlobFree(L, p * PAGE_SIZE, PAGE_SIZE), J)
  BY <1>4, <1>8, <1>10, CutMore
<1>12. LiveBlocks' = LiveBlocks /\ BigPages' = BigPages /\ phase' = "done"
  BY <1>3, LiveIs DEF BigPages, swapVars
<1>13. Cut(LiveBlocks', slob', held' \ BigPages')
  BY <1>3, <1>5, <1>9, <1>11, <1>12
<1> QED BY <1>3, <1>12, <1>13 DEF HeapInv, Owners, Records

-----------------------------------------------------------------------------
(* Big blocks.                                                              *)

\* What kmalloc has returned lies in a page that is held, or begins it.
LEMMA LivePageHeld ==
    ASSUME PagesInv, HeapInv, NEW y \in live
    PROVE  \E x \in held : x[1] = y.block \div PAGE_SIZE
<1>1. y.block \in Nat
  BY LiveFacts
<1>2. CASE y.units > 0
  <2>1. y.block \in Spread(LiveBlocks)
    BY <1>2, LiveFacts
  <2>2. PICK x : x = <<y.block \div PAGE_SIZE, 1>>
    OBVIOUS
  <2>3. x \in SlobPages
    BY <2>1, <2>2, SlobPagesIs
  <2>4. x \in held
    BY <2>3, SlobHeld
  <2> QED BY <2>2, <2>4
<1>3. CASE ~(y.units > 0)
  <2>1. PICK i \in BigOf(y.block) : TRUE
    BY <1>3, LiveFacts
  <2>2. i \in 1..Len(bigblocks) /\ bigblocks[i].pages * PAGE_SIZE = y.block
    BY <2>1 DEF BigOf
  <2>3. PICK c : c = bigblocks[i]
    OBVIOUS
  <2>4. c \in Range(bigblocks) /\ c.pages \in Nat
    BY <2>2, <2>3, RangeIs, PagesFacts DEF PagesInv, BigInv
  <2>5. y.block \in Units(c.pages * PAGE_SIZE, PAGE_SIZE)
    BY <1>1, <2>2, <2>3, KmallocAssumption DEF Units
  <2>6. y.block \div PAGE_SIZE = c.pages
    BY <2>4, <2>5, PageUnits
  <2>7. PICK x : x = <<c.pages, 2^c.order>>
    OBVIOUS
  <2>8. x \in held
    BY <2>4, <2>7 DEF PagesInv, BigInv, BigPages
  <2> QED BY <2>6, <2>7, <2>8
<1> QED BY <1>2, <1>3

LEMMA BigAllocHeap ==
    ASSUME PagesInv, HeapInv, phase = "done", UNCHANGED swapVars, BigAlloc PROVE HeapInv'
<1>1. PICK o, n, page : o = find_order(req.size) /\ n = 2^o /\ page = FirstFitPage(n)
  OBVIOUS
<1>2. PICK b, r : /\ b = [order |-> o, pages |-> page, bb |-> req.bb]
                  /\ r = [block |-> page * PAGE_SIZE, size |-> req.size, units |-> 0]
  OBVIOUS
<1>3. /\ req.at = "pages" /\ Alloc(n) /\ bigblocks' = <<b>> \o bigblocks
      /\ live' = live \cup {r} /\ req' = NoReq /\ slob' = slob
  BY <1>1, <1>2 DEF BigAlloc
<1>4. req.size \in KSizes /\ BigInv /\ BigPages \subseteq held
  BY <1>3 DEF PagesInv, BigInv, ReqOK, NoReq
<1>5. n \in Nat \ {0}
  <2>1. PICK size : size = req.size
    OBVIOUS
  <2>2. 2^find_order(size) \in Nat \ {0}
    BY <1>4, <2>1, OrderFacts
  <2> QED BY <1>1, <2>1, <2>2
<1>6. page \in Nat /\ held' = held \cup {<<page, n>>} /\ \A x \in held : x[1] # page
  BY <1>1, <1>3, <1>5, FreshPage
<1>7. b.order = o /\ b.pages = page /\ b.bb = req.bb
  BY <1>2
<1>8. r.block = page * PAGE_SIZE /\ r.size = req.size /\ r.units = 0
  BY <1>2
<1>9. PICK S : S = Range(bigblocks) \cup {b}
  OBVIOUS
<1>10. bigblocks \in Seq(S) /\ b \in S /\ Len(bigblocks) \in Nat
  BY <1>4, <1>9, SeqMonotonic DEF BigInv
<1>11. PICK s : s = bigblocks'
  OBVIOUS
<1>12. /\ Len(s) = Len(bigblocks) + 1
       /\ \A i \in 1..(Len(bigblocks) + 1) : s[i] = IF i = 1 THEN b ELSE bigblocks[i - 1]
       /\ Range(s) = Range(bigblocks) \cup {b}
  BY <1>3, <1>10, <1>11, ConsFacts
<1>13. LiveBlocks' = LiveBlocks
  <2>1. SmallOf(live') = SmallOf(live)
    BY <1>3, <1>8 DEF SmallOf
  <2>2. BbOf(bigblocks') = BbOf(bigblocks) \cup {<<req.bb, BigUnits>>}
    <3>1. BbOf(s) = BbOf(bigblocks) \cup {<<b.bb, BigUnits>>}
      BY <1>12 DEF BbOf
    <3> QED BY <1>7, <1>11, <3>1
  <2>3. ReqOf(req) = {<<req.bb, BigUnits>>} /\ ReqOf(req') = {}
    BY <1>3 DEF ReqOf, NoReq
  <2> QED BY <2>1, <2>2, <2>3, LiveIs
<1>14. BigPages' = BigPages \cup {<<page, n>>}
  <2>1. <<b.pages, 2^b.order>> = <<page, n>>
    BY <1>1, <1>7
  <2>2. BigPages' = {<<c.pages, 2^c.order>> : c \in Range(s)}
    BY <1>11 DEF BigPages
  <2> QED BY <1>12, <2>1, <2>2 DEF BigPages
<1>15. Cut(LiveBlocks', slob', held' \ BigPages')
  <2>1. PICK x : x = <<page, n>>
    OBVIOUS
  <2>2. x \notin held
    BY <1>6, <2>1
  <2>3. held \ BigPages \subseteq held' \ BigPages'
    BY <1>6, <1>14, <2>1, <2>2
  <2>4. Cut(LiveBlocks, slob, held' \ BigPages')
    BY <2>3 DEF HeapInv, Cut, WholePages
  <2> QED BY <1>3, <1>13, <2>4
<1>16. \A y \in live : y.block # r.block
  <2> SUFFICES ASSUME NEW y \in live, y.block = page * PAGE_SIZE PROVE FALSE
    BY <1>8
  <2>1. PICK x \in held : x[1] = y.block \div PAGE_SIZE
    BY LivePageHeld
  <2>2. y.block \in Units(page * PAGE_SIZE, PAGE_SIZE)
    BY <1>6, KmallocAssumption DEF Units
  <2>3. y.block \div PAGE_SIZE = page
    BY <1>6, <2>2, PageUnits
  <2> QED BY <1>6, <2>1, <2>3
<1>17. ASSUME NEW k \in 1..Len(s), k # 1
       PROVE  k - 1 \in 1..Len(bigblocks) /\ s[k] = bigblocks[k - 1]
  BY <1>10, <1>12, <1>17
<1>18. s[1] = b /\ 1 \in 1..Len(s)
  BY <1>10, <1>12
<1>19. Owners(live', bigblocks', req')
  <2>1. Owners(live, bigblocks, req)
    BY DEF HeapInv
  <2>2. /\ \A i \in 1..Len(bigblocks) : bigblocks[i].bb # b.bb
        /\ \A x \in live : x.units > 0 => x.block # b.bb + 1
    BY <1>3, <1>7, <2>1 DEF Owners
  <2>3. \A x, y \in live' : x.block = y.block => x = y
    BY <1>3, <1>16, <2>1 DEF Owners
  <2>4. \A i, j \in 1..Len(s) : s[i].bb = s[j].bb => i = j
    <3> SUFFICES ASSUME NEW i \in 1..Len(s), NEW j \in 1..Len(s), s[i].bb = s[j].bb PROVE i = j
      OBVIOUS
    <3>1. CASE i = 1 \/ j = 1
      BY <1>17, <1>18, <2>2, <3>1
    <3>2. CASE i # 1 /\ j # 1
      <4>1. PICK k \in 1..Len(bigblocks), l \in 1..Len(bigblocks) : k = i - 1 /\ l = j - 1
        BY <1>17, <3>2
      <4>2. s[i] = bigblocks[k] /\ s[j] = bigblocks[l]
        BY <1>17, <3>2, <4>1
      <4>3. k = l
        BY <2>1, <4>2 DEF Owners
      <4> QED BY <1>10, <1>12, <4>1, <4>3
    <3> QED BY <3>1, <3>2
  <2>5. \A x \in live', i \in 1..Len(s) : x.units > 0 => x.block # s[i].bb + 1
    <3> SUFFICES ASSUME NEW x \in live', NEW i \in 1..Len(s), x.units > 0 PROVE x.block # s[i].bb + 1
      OBVIOUS
    <3>1. x \in live
      BY <1>3, <1>8
    <3>2. CASE i = 1
      BY <1>18, <2>2, <3>1, <3>2
    <3>3. CASE i # 1
      <4>1. PICK k \in 1..Len(bigblocks) : k = i - 1 /\ s[i] = bigblocks[k]
        BY <1>17, <3>3
      <4> QED BY <2>1, <3>1, <4>1 DEF Owners
    <3> QED BY <3>2, <3>3
  <2> QED BY <1>3, <1>11, <2>3, <2>4, <2>5 DEF Owners, NoReq
<1>20. Records(live', bigblocks')
  <2>1. ASSUME NEW x \in live PROVE RecordOK(x, s)
    <3>1. RecordOK(x, bigblocks)
      BY DEF HeapInv, Records
    <3>2. ASSUME NEW i \in 1..Len(bigblocks),
                 bigblocks[i].pages * PAGE_SIZE = x.block, bigblocks[i].order = find_order(x.size)
          PROVE  \E j \in 1..Len(s) : s[j].pages * PAGE_SIZE = x.block /\ s[j].order = find_order(x.size)
      <4>1. i + 1 \in 1..Len(s) /\ s[i + 1] = bigblocks[i]
        BY <1>10, <1>12
      <4> QED BY <3>2, <4>1
    <3> QED BY <3>1, <3>2 DEF RecordOK
  <2>2. RecordOK(r, s)
    <3>1. r.block \in Nat
      BY <1>6, <1>8, KmallocAssumption
    <3>2. s[1].pages * PAGE_SIZE = r.block /\ s[1].order = find_order(r.size)
      BY <1>1, <1>7, <1>8, <1>18
    <3> QED BY <1>4, <1>8, <1>18, <3>1, <3>2 DEF RecordOK
  <2> QED BY <1>3, <1>11, <2>1, <2>2 DEF Records
<1>21. phase' = "done"
  BY DEF swapVars
<1> QED BY <1>15, <1>19, <1>20, <1>21 DEF HeapInv

-----------------------------------------------------------------------------
(* Blocks that come back: kfree, and kmalloc without pages.                 *)

\* bb in its units.
LEMMA BbFacts ==
    ASSUME HeapInv
    PROVE  /\ \A c \in Range(bigblocks) : c.bb \in Nat /\ <<c.bb, BigUnits>> \in LiveBlocks
           /\ req.at = "pages" => req.bb \in Nat /\ <<req.bb, BigUnits>> \in LiveBlocks
<1>1. LiveBlocks \subseteq Nat \X (Nat \ {0})
  BY DEF HeapInv, Cut, Parted
<1>2. \A c \in Range(bigblocks) : <<c.bb, BigUnits>> \in LiveBlocks
  BY LiveIs DEF BbOf
<1>3. req.at = "pages" => <<req.bb, BigUnits>> \in LiveBlocks
  BY LiveIs DEF ReqOf
<1> QED BY <1>1, <1>2, <1>3

LEMMA BigFailsHeap ==
    ASSUME PagesInv, HeapInv, phase = "done", UNCHANGED swapVars, BigFails PROVE HeapInv'
<1>1. /\ req.at = "pages" /\ slob' = SlobFree(slob, req.bb, BigUnits) /\ req' = NoReq
      /\ UNCHANGED <<bigblocks, live, held>>
  BY DEF BigFails, AllocFails
<1>2. PICK B, L, H, b, u : /\ B = LiveBlocks /\ L = slob /\ H = held \ BigPages
                           /\ b = req.bb /\ u = BigUnits
  OBVIOUS
<1>3. Cut(B, L, H) /\ Owners(live, bigblocks, req)
  BY <1>2 DEF HeapInv
<1>4. b \in Nat /\ <<b, u>> \in B
  BY <1>1, <1>2, BbFacts
<1>5. Cut(B \ {<<b, u>>}, SlobFree(L, b, u), H)
  BY <1>3, <1>4, CutGive
<1>6. <<b, u>> \notin SmallOf(live)
  <2> SUFFICES ASSUME NEW x \in live, x.units > 0, b = x.block - 1 PROVE FALSE
    BY DEF SmallOf
  <2>1. x.block \in Nat /\ x.block # b + 1
    BY <1>1, <1>2, <1>3, LiveFacts DEF Owners
  <2> QED BY <1>4, <2>1
<1>7. <<b, u>> \notin BbOf(bigblocks)
  <2> SUFFICES ASSUME NEW c \in Range(bigblocks), b = c.bb PROVE FALSE
    BY DEF BbOf
  <2>1. PICK i \in 1..Len(bigblocks) : c = bigblocks[i]
    BY RangeIs DEF PagesInv, BigInv
  <2> QED BY <1>1, <1>2, <1>3, <2>1 DEF Owners
<1>8. ReqOf(req) = {<<b, u>>} /\ ReqOf(req') = {}
  BY <1>1, <1>2 DEF ReqOf, NoReq
<1>9. LiveBlocks' = B \ {<<b, u>>}
  BY <1>1, <1>2, <1>6, <1>7, <1>8, LiveIs
<1>10. BigPages' = BigPages /\ phase' = "done"
  BY <1>1 DEF BigPages, swapVars
<1>11. Cut(LiveBlocks', slob', held' \ BigPages')
  BY <1>1, <1>2, <1>5, <1>9, <1>10
<1>12. Owners(live', bigblocks', req')
  BY <1>1, <1>3 DEF Owners, NoReq
<1> QED BY <1>1, <1>10, <1>11, <1>12 DEF HeapInv

LEMMA KfreeSmallHeap ==
    ASSUME PagesInv, HeapInv, phase = "done", UNCHANGED swapVars, NEW x \in live, KfreeSmall(x)
    PROVE  HeapInv'
<1>1. /\ req = NoReq /\ BigOf(x.block) = {} /\ slob' = SlobFree(slob, x.block - 1, x.units)
      /\ live' = live \ {x} /\ UNCHANGED <<bigblocks, req, held>>
  BY DEF KfreeSmall
<1>2. x.units > 0
  BY <1>1, LiveFacts
<1>3. PICK B, L, H, b, u : /\ B = LiveBlocks /\ L = slob /\ H = held \ BigPages
                           /\ b = x.block - 1 /\ u = x.units
  OBVIOUS
<1>4. Cut(B, L, H) /\ Owners(live, bigblocks, req)
  BY <1>3 DEF HeapInv
<1>5. <<b, u>> \in B /\ x.block \in Nat
  BY <1>2, <1>3, LiveFacts
<1>6. Cut(B \ {<<b, u>>}, SlobFree(L, b, u), H)
  BY <1>4, <1>5, CutGive
<1>7. SmallOf(live') = SmallOf(live) \ {<<b, u>>}
  <2>1. ASSUME NEW y \in live, y # x, y.units > 0 PROVE y.block - 1 # b
    <3>1. y.block \in Nat /\ y.block # x.block
      BY <1>4, <2>1, LiveFacts DEF Owners
    <3> QED BY <1>3, <1>5, <3>1
  <2>2. ASSUME NEW z \in SmallOf(live') PROVE z \in SmallOf(live) \ {<<b, u>>}
    <3>1. PICK y \in live' : y.units > 0 /\ z = <<y.block - 1, y.units>>
      BY <2>2 DEF SmallOf
    <3>2. y \in live /\ y # x
      BY <1>1, <3>1
    <3>3. z \in SmallOf(live)
      BY <3>1, <3>2 DEF SmallOf
    <3> QED BY <2>1, <3>1, <3>2, <3>3
  <2>3. ASSUME NEW z \in SmallOf(live), z # <<b, u>> PROVE z \in SmallOf(live')
    <3>1. PICK y \in live : y.units > 0 /\ z = <<y.block - 1, y.units>>
      BY <2>3 DEF SmallOf
    <3>2. y # x
      BY <1>3, <2>3, <3>1
    <3>3. y \in live'
      BY <1>1, <3>2
    <3> QED BY <3>1, <3>3 DEF SmallOf
  <2> QED BY <2>2, <2>3
<1>8. <<b, u>> \notin BbOf(bigblocks)
  <2> SUFFICES ASSUME NEW c \in Range(bigblocks), b = c.bb PROVE FALSE
    BY DEF BbOf
  <2>1. PICK i \in 1..Len(bigblocks) : c = bigblocks[i]
    BY RangeIs DEF PagesInv, BigInv
  <2>2. x.block # c.bb + 1 /\ c.bb \in Nat
    BY <1>2, <1>4, <2>1, BbFacts DEF Owners
  <2> QED BY <1>3, <1>5, <2>2
<1>9. ReqOf(req) = {} /\ ReqOf(req') = {}
  BY <1>1 DEF ReqOf, NoReq
<1>10. LiveBlocks' = B \ {<<b, u>>}
  BY <1>1, <1>3, <1>7, <1>8, <1>9, LiveIs
<1>11. BigPages' = BigPages /\ phase' = "done"
  BY <1>1 DEF BigPages, swapVars
<1>12. Cut(LiveBlocks', slob', held' \ BigPages')
  BY <1>1, <1>3, <1>6, <1>10, <1>11
<1>13. Owners(live', bigblocks', req')
  BY <1>1, <1>4 DEF Owners, NoReq
<1>14. Records(live', bigblocks')
  BY <1>1 DEF HeapInv, Records
<1> QED BY <1>11, <1>12, <1>13, <1>14 DEF HeapInv

\* A sequence without its i-th element.
LEMMA RemoveAtIs ==
    ASSUME NEW S, NEW s \in Seq(S), NEW i \in 1..Len(s), NEW t, t = RemoveAt(s, i)
    PROVE  \E at \in [1..Len(t) -> (1..Len(s)) \ {i}] :
              /\ \A j \in 1..Len(t) : t[j] = s[at[j]]
              /\ \A j, k \in 1..Len(t) : at[j] = at[k] => j = k
              /\ \A k \in (1..Len(s)) \ {i} : \E j \in 1..Len(t) : at[j] = k
<1>1. PICK n \in Nat : n = Len(s)
  OBVIOUS
<1>2. i \in 1..n /\ Len(t) = n - 1 /\ \A j \in 1..(n - 1) : t[j] = IF j < i THEN s[j] ELSE s[j + 1]
  BY <1>1, RemoveAtFacts
<1>3. PICK at : at = [j \in 1..(n - 1) |-> IF j < i THEN j ELSE j + 1]
  OBVIOUS
<1>4. \A j \in 1..(n - 1) : at[j] = IF j < i THEN j ELSE j + 1
  BY <1>3
<1>5. at \in [1..(n - 1) -> (1..n) \ {i}]
  BY <1>2, <1>3
<1>6. \A j \in 1..(n - 1) : t[j] = s[at[j]]
  BY <1>2, <1>4
<1>7. \A j, k \in 1..(n - 1) : at[j] = at[k] => j = k
  <2> SUFFICES ASSUME NEW j \in 1..(n - 1), NEW k \in 1..(n - 1), at[j] = at[k] PROVE j = k
    OBVIOUS
  <2>1. PICK u, v : u = at[j] /\ v = at[k]
    OBVIOUS
  <2>2. u = (IF j < i THEN j ELSE j + 1) /\ v = (IF k < i THEN k ELSE k + 1) /\ u = v
    BY <1>4, <2>1
  <2> QED BY <1>2, <2>2
<1>8. \A k \in (1..n) \ {i} : \E j \in 1..(n - 1) : at[j] = k
  <2> SUFFICES ASSUME NEW k \in (1..n) \ {i} PROVE \E j \in 1..(n - 1) : at[j] = k
    OBVIOUS
  <2>1. CASE k < i
    <3>1. k \in 1..(n - 1)
      BY <1>2, <2>1
    <3>2. at[k] = k
      BY <1>4, <2>1, <3>1
    <3> QED BY <3>1, <3>2
  <2>2. CASE ~(k < i)
    <3>1. PICK j \in 1..(n - 1) : j = k - 1
      BY <1>2, <2>2
    <3>2. at[j] = k
      BY <1>2, <1>4, <2>2, <3>1
    <3> QED BY <3>2
  <2> QED BY <2>1, <2>2
<1>9. Len(t) = n - 1 /\ Len(s) = n
  BY <1>1, <1>2
<1>10. at \in [1..Len(t) -> (1..Len(s)) \ {i}]
  BY <1>5, <1>9
<1>11. /\ \A j \in 1..Len(t) : t[j] = s[at[j]]
       /\ \A j, k \in 1..Len(t) : at[j] = at[k] => j = k
  BY <1>6, <1>7, <1>9
<1>12. \A k \in (1..Len(s)) \ {i} : \E j \in 1..Len(t) : at[j] = k
  BY <1>8, <1>9
<1> QED BY <1>10, <1>11, <1>12, Zenon

LEMMA KfreeBigHeap ==
    ASSUME PagesInv, HeapInv, phase = "done", UNCHANGED swapVars, NEW x \in live, KfreeBig(x)
    PROVE  HeapInv'
<1>1. PICK i \in BigOf(x.block) :
        /\ req = NoReq /\ bigblocks' = RemoveAt(bigblocks, i)
        /\ FreeBegin(bigblocks[i].pages, 2^bigblocks[i].order)
        /\ slob' = SlobFree(slob, bigblocks[i].bb, BigUnits)
        /\ live' = live \ {x} /\ req' = req
  BY DEF KfreeBig
<1>2. i \in 1..Len(bigblocks) /\ bigblocks[i].pages * PAGE_SIZE = x.block
  BY <1>1 DEF BigOf
<1>3. ~(x.units > 0)
  BY <1>1, LiveFacts
<1>4. PICK c, S : c = bigblocks[i] /\ S = Range(bigblocks)
  OBVIOUS
<1>5. bigblocks \in Seq(S) /\ c \in S /\ BigInv
  BY <1>2, <1>4, RangeIs DEF PagesInv, BigInv
<1>6. PICK s : s = bigblocks'
  OBVIOUS
<1>7. PICK at \in [1..Len(s) -> (1..Len(bigblocks)) \ {i}] :
        /\ \A j \in 1..Len(s) : s[j] = bigblocks[at[j]]
        /\ \A j, k \in 1..Len(s) : at[j] = at[k] => j = k
        /\ \A k \in (1..Len(bigblocks)) \ {i} : \E j \in 1..Len(s) : at[j] = k
  BY <1>1, <1>2, <1>5, <1>6, RemoveAtIs
<1>8. s \in Seq(S)
  BY <1>1, <1>2, <1>5, <1>6, RemoveAtFacts
<1>9. Owners(live, bigblocks, req)
  BY DEF HeapInv
<1>10. \A j \in 1..Len(s) : at[j] \in 1..Len(bigblocks) /\ at[j] # i
  BY <1>7
<1>11. PICK B, L, H, b, u : /\ B = LiveBlocks /\ L = slob /\ H = held \ BigPages
                            /\ b = c.bb /\ u = BigUnits
  OBVIOUS
<1>12. Cut(B, L, H) /\ b \in Nat /\ <<b, u>> \in B
  BY <1>4, <1>5, <1>11, BbFacts DEF HeapInv
<1>13. \A d \in Range(s) : d \in Range(bigblocks) /\ d.bb # b
  <2> SUFFICES ASSUME NEW d \in Range(s) PROVE d \in Range(bigblocks) /\ d.bb # b
    OBVIOUS
  <2>1. PICK j \in 1..Len(s) : d = s[j]
    BY <1>8, RangeIs
  <2>2. PICK k \in 1..Len(bigblocks) : k = at[j] /\ k # i
    BY <1>10
  <2>3. d = bigblocks[k]
    BY <1>7, <2>1, <2>2
  <2>4. d.bb # b
    BY <1>2, <1>4, <1>9, <1>11, <2>2, <2>3 DEF Owners
  <2> QED BY <1>5, <1>4, <2>3, <2>4, RangeIs
<1>14. \A d \in Range(bigblocks) : d \in Range(s) \/ d = c
  <2> SUFFICES ASSUME NEW d \in Range(bigblocks), d # c PROVE d \in Range(s)
    OBVIOUS
  <2>1. PICK k \in 1..Len(bigblocks) : d = bigblocks[k]
    BY <1>5, RangeIs
  <2>2. k # i
    BY <1>4, <2>1
  <2>3. PICK j \in 1..Len(s) : at[j] = k
    BY <1>7, <2>2
  <2>4. d = s[j]
    BY <1>7, <2>1, <2>3
  <2> QED BY <1>8, <2>4, RangeIs
<1>15. BbOf(s) = BbOf(bigblocks) \ {<<b, u>>}
  <2>1. ASSUME NEW z \in BbOf(s) PROVE z \in BbOf(bigblocks) \ {<<b, u>>}
    <3>1. PICK d \in Range(s) : z = <<d.bb, BigUnits>>
      BY <2>1 DEF BbOf
    <3> QED BY <1>13, <3>1 DEF BbOf
  <2>2. ASSUME NEW z \in BbOf(bigblocks), z # <<b, u>> PROVE z \in BbOf(s)
    <3>1. PICK d \in Range(bigblocks) : z = <<d.bb, BigUnits>>
      BY <2>2 DEF BbOf
    <3>2. d # c
      BY <1>11, <2>2, <3>1
    <3> QED BY <1>14, <3>1, <3>2 DEF BbOf
  <2> QED BY <2>1, <2>2
<1>16. SmallOf(live') = SmallOf(live)
  BY <1>1, <1>3 DEF SmallOf
<1>17. <<b, u>> \notin SmallOf(live)
  <2> SUFFICES ASSUME NEW y \in live, y.units > 0, b = y.block - 1 PROVE FALSE
    BY DEF SmallOf
  <2>1. y.block # bigblocks[i].bb + 1
    BY <1>2, <1>9 DEF Owners
  <2>2. y.block \in Nat
    BY LiveFacts
  <2>3. b = bigblocks[i].bb
    BY <1>4, <1>11
  <2> QED BY <1>12, <2>1, <2>2, <2>3
<1>18. ReqOf(req) = {} /\ ReqOf(req') = {}
  BY <1>1 DEF ReqOf, NoReq
<1>19. LiveBlocks' = B \ {<<b, u>>}
  BY <1>6, <1>11, <1>15, <1>16, <1>17, <1>18, LiveIs
<1>20. held' = held \ {<<c.pages, 2^c.order>>}
  BY <1>1, <1>4 DEF FreeBegin
<1>21. BigPages' \subseteq BigPages /\ <<c.pages, 2^c.order>> \in BigPages
  <2>1. BigPages' = {<<d.pages, 2^d.order>> : d \in Range(s)}
    BY <1>6 DEF BigPages
  <2> QED BY <1>4, <1>5, <1>13, <2>1 DEF BigPages
<1>22. PICK J : J = held' \ BigPages'
  OBVIOUS
<1>23. H \subseteq J
  BY <1>11, <1>20, <1>21, <1>22
<1>24. Cut(B \ {<<b, u>>}, SlobFree(L, b, u), J)
  BY <1>12, <1>23, CutGive
<1>25. Cut(LiveBlocks', slob', held' \ BigPages')
  BY <1>1, <1>4, <1>11, <1>19, <1>22, <1>24
<1>26. Owners(live', bigblocks', req')
  <2>1. \A y, z \in live' : y.block = z.block => y = z
    BY <1>1, <1>9 DEF Owners
  <2>2. \A j, k \in 1..Len(s) : s[j].bb = s[k].bb => j = k
    <3> SUFFICES ASSUME NEW j \in 1..Len(s), NEW k \in 1..Len(s), s[j].bb = s[k].bb PROVE at[j] = at[k]
      BY <1>7
    <3>1. PICK p, q : p = at[j] /\ q = at[k]
      OBVIOUS
    <3>2. /\ p \in 1..Len(bigblocks) /\ q \in 1..Len(bigblocks)
          /\ s[j] = bigblocks[p] /\ s[k] = bigblocks[q]
      BY <1>7, <1>10, <3>1
    <3>3. bigblocks[p].bb = bigblocks[q].bb
      BY <3>2
    <3> QED BY <1>9, <3>1, <3>2, <3>3 DEF Owners
  <2>3. \A y \in live', j \in 1..Len(s) : y.units > 0 => y.block # s[j].bb + 1
    <3> SUFFICES ASSUME NEW y \in live', NEW j \in 1..Len(s), y.units > 0 PROVE y.block # s[j].bb + 1
      OBVIOUS
    <3>1. PICK p \in 1..Len(bigblocks) : p = at[j]
      BY <1>10
    <3>2. s[j] = bigblocks[p] /\ y \in live
      BY <1>1, <1>7, <3>1
    <3> QED BY <1>9, <3>2 DEF Owners
  <2> QED BY <1>1, <1>6, <2>1, <2>2, <2>3 DEF Owners, NoReq
<1>27. Records(live', bigblocks')
  <2> SUFFICES ASSUME NEW y \in live' PROVE RecordOK(y, s)
    BY <1>6 DEF Records
  <2>1. y \in live /\ y # x
    BY <1>1
  <2>2. RecordOK(y, bigblocks) /\ y.block # x.block
    BY <1>9, <2>1 DEF HeapInv, Records, Owners
  <2>3. ASSUME NEW k \in 1..Len(bigblocks),
               bigblocks[k].pages * PAGE_SIZE = y.block, bigblocks[k].order = find_order(y.size)
        PROVE  \E j \in 1..Len(s) : s[j].pages * PAGE_SIZE = y.block /\ s[j].order = find_order(y.size)
    <3>1. k # i
      BY <1>2, <2>2, <2>3
    <3>2. PICK j \in 1..Len(s) : at[j] = k
      BY <1>7, <3>1
    <3>3. s[j] = bigblocks[k]
      BY <1>7, <3>2
    <3> QED BY <2>3, <3>3
  <2> QED BY <2>2, <2>3 DEF RecordOK
<1>28. phase' = "done"
  BY DEF swapVars
<1> QED BY <1>25, <1>26, <1>27, <1>28 DEF HeapInv

LEMMA NextHeapInv ==
    ASSUME PagesInv, HeapInv, [Next]_vars PROVE HeapInv'
<1>1. CASE ~(phase = "done" /\ KmallocStep /\ UNCHANGED swapVars)
  BY <1>1, HeapOthers
<1>2. CASE phase = "done" /\ KmallocStep /\ UNCHANGED swapVars
  <2>1. ASSUME NEW size \in KSizes, KmallocBegin(size) PROVE HeapInv'
    BY <1>2, <2>1, KmallocBeginHeap
  <2>2. CASE SlobAlloc \/ SlobMore \/ BigAlloc \/ BigFails
    BY <1>2, <2>2, SlobAllocHeap, SlobMoreHeap, BigAllocHeap, BigFailsHeap
  <2>3. ASSUME NEW x \in live, KfreeBig(x) \/ KfreeSmall(x) PROVE HeapInv'
    BY <1>2, <2>3, KfreeBigHeap, KfreeSmallHeap
  <2> QED BY <1>2, <2>1, <2>2, <2>3 DEF KmallocStep
<1> QED BY <1>1, <1>2

-----------------------------------------------------------------------------
(* What the invariant says of the heap.                                     *)

LEMMA InitHeapInv ==
    ASSUME Init PROVE HeapInv
<1>1. slob = <<Arena>> /\ live = {} /\ bigblocks = <<>> /\ req = NoReq
  BY DEF Init, KmallocInit
<1>2. LiveBlocks = {}
  <2>1. Range(bigblocks) = {}
    BY <1>1 DEF Range
  <2>2. SmallOf(live) = {} /\ BbOf(bigblocks) = {} /\ ReqOf(req) = {}
    BY <1>1, <2>1 DEF SmallOf, BbOf, ReqOf, NoReq
  <2> QED BY <2>2, LiveIs
<1>3. Range(slob) \ {Arena} = {}
  BY <1>1 DEF Range
<1>4. Spread(LiveBlocks) = {} /\ ListUnits(slob) = {}
  BY <1>2, <1>3 DEF Spread, ListUnits
<1>5. RingOK(slob)
  <2>1. PICK L : L = <<Arena>>
    OBVIOUS
  <2>2. L \in Seq(SlobBlocks) /\ Len(L) = 1 /\ L[1] = Arena
    BY <2>1, ArenaIs
  <2>3. RingAt(L, 1)
    BY <2>2 DEF RingAt
  <2>4. RingOK(L)
    <3>1. 1 \in 1..Len(L)
      BY <2>2
    <3>2. \E r \in 1..Len(L) : RingAt(L, r)
      BY <2>3, <3>1
    <3> QED BY <2>2, <3>2, RingIs
  <2> QED BY <1>1, <2>1, <2>4
<1>6. Cut(LiveBlocks, slob, held \ BigPages)
  BY <1>2, <1>4, <1>5 DEF Cut, Parted, WholePages
<1>7. Owners(live, bigblocks, req) /\ Records(live, bigblocks)
  BY <1>1 DEF Owners, Records, NoReq
<1> QED BY <1>1, <1>6, <1>7 DEF HeapInv

\* The list is in order, seen from arena.
LEMMA RingSorted ==
    ASSUME NEW L, RingOK(L)
    PROVE  \E i \in 1..Len(L) :
             LET R == From(L, i)
             IN  /\ R[1] = Arena
                 /\ \A j \in 1..(Len(R) - 1) : R[j][1] + R[j][2] < R[j + 1][1]
<1>1. PICK n \in Nat : n = Len(L)
  BY RingIs
<1>2. PICK r \in 1..Len(L) : RingAt(L, r)
  BY RingIs
<1>3. PICK R : R = From(L, r)
  OBVIOUS
<1>4. RingOK(R) /\ Len(R) = n /\ \A i \in 1..n : R[i] = L[Turn(n, r, i)]
  BY <1>1, <1>3, TurnRing
<1>5. R[1] = Arena
  <2>1. r \in 1..n /\ 1 \in 1..n
    BY <1>1, <1>2
  <2>2. Turn(n, r, 1) = r
    BY <2>1 DEF Turn
  <2> QED BY <1>2, <1>4, <2>1, <2>2 DEF RingAt
<1>6. PICK t \in 1..n : RingAt(R, t)
  BY <1>4, RingIs
<1>7. t = 1
  <2> SUFFICES ASSUME t # 1 PROVE FALSE
    OBVIOUS
  <2>1. 1 \in 1..Len(R) /\ t \in 1..Len(R)
    BY <1>4, <1>6
  <2>2. R[t] # R[1]
    BY <1>4, <2>1, RingApart
  <2> QED BY <1>5, <1>6, <2>2 DEF RingAt
<1>8. ASSUME NEW j \in 1..(Len(R) - 1) PROVE R[j][1] + R[j][2] < R[j + 1][1]
  <2>1. j \in 1..Len(R) /\ j + 1 \in 1..Len(R) /\ j < j + 1 /\ ~(j < t)
    BY <1>4, <1>7
  <2>2. Ahead(R[j], R[j + 1])
    BY <1>6, <2>1 DEF RingAt
  <2> QED BY <2>2 DEF Ahead
<1> QED BY <1>3, <1>5, <1>8

LEMMA HeapUnits ==
    ASSUME HeapInv
    PROVE  /\ LiveBlocks \cup FreeBlocks \subseteq Nat \X (Nat \ {0})
           /\ \A x, y \in LiveBlocks \cup FreeBlocks :
                x # y => Units(x[1], x[2]) \cap Units(y[1], y[2]) = {}
<1>1. RingOK(slob) /\ Parted(LiveBlocks) /\ Spread(LiveBlocks) \cap ListUnits(slob) = {}
  BY DEF HeapInv, Cut
<1>2. PICK L : L = slob
  OBVIOUS
<1>3. RingOK(L) /\ L \in Seq(SlobBlocks) /\ FreeBlocks = Range(L) \ {Arena}
  BY <1>1, <1>2, RingIs DEF FreeBlocks
<1>4. FreeBlocks \subseteq Nat \X (Nat \ {0})
  <2> SUFFICES ASSUME NEW x \in FreeBlocks PROVE x \in Nat \X (Nat \ {0})
    OBVIOUS
  <2>1. PICK i \in 1..Len(L) : x = L[i]
    BY <1>3, RangeIs
  <2>2. PICK r \in 1..Len(L) : RingAt(L, r)
    BY <1>3, RingIs
  <2>3. i # r
    BY <1>3, <2>1, <2>2 DEF RingAt
  <2>4. x[1] >= 0
    BY <2>1, <2>2, <2>3 DEF RingAt
  <2>5. x \in SlobBlocks
    BY <1>3, <2>1
  <2> QED BY <2>4, <2>5 DEF SlobBlocks
<1>5. ASSUME NEW x \in FreeBlocks, NEW y \in FreeBlocks, x # y
      PROVE  Units(x[1], x[2]) \cap Units(y[1], y[2]) = {}
  <2>1. PICK i \in 1..Len(L), j \in 1..Len(L) : x = L[i] /\ y = L[j]
    BY <1>3, RangeIs
  <2>2. i # j
    BY <1>5, <2>1
  <2>3. Ahead(x, y) \/ Ahead(y, x)
    BY <1>3, <2>1, <2>2, RingApart
  <2>4. PICK a, m, b, k : a = x[1] /\ m = x[2] /\ b = y[1] /\ k = y[2]
    OBVIOUS
  <2>5. a \in Nat /\ m \in Nat /\ b \in Nat /\ k \in Nat /\ (a + m < b \/ b + k < a)
    BY <1>4, <2>3, <2>4 DEF Ahead
  <2>6. Units(a, m) \cap Units(b, k) = {}
    BY <2>5 DEF Units
  <2> QED BY <2>4, <2>6
<1>6. \A x \in LiveBlocks : Units(x[1], x[2]) \subseteq Spread(LiveBlocks)
  BY DEF Spread
<1>7. \A x \in FreeBlocks : Units(x[1], x[2]) \subseteq ListUnits(slob)
  BY DEF Spread, ListUnits, FreeBlocks
<1>8. \A x \in LiveBlocks, y \in FreeBlocks : Units(x[1], x[2]) \cap Units(y[1], y[2]) = {}
  BY <1>1, <1>6, <1>7
<1>9. \A x, y \in LiveBlocks : x # y => Units(x[1], x[2]) \cap Units(y[1], y[2]) = {}
  BY <1>1 DEF Parted
<1>10. LiveBlocks \subseteq Nat \X (Nat \ {0})
  BY <1>1 DEF Parted
<1> QED BY <1>4, <1>5, <1>8, <1>9, <1>10

\* The units are those of whole pages.
LEMMA HeapWhole ==
    ASSUME HeapInv
    PROVE  UNION {Units(x[1], x[2]) : x \in LiveBlocks \cup FreeBlocks}
             = UNION {Units(p[1] * PAGE_SIZE, PAGE_SIZE) : p \in SlobPages}
<1>1. PICK C : C = Spread(LiveBlocks) \cup ListUnits(slob)
  OBVIOUS
<1>2. UNION {Units(x[1], x[2]) : x \in LiveBlocks \cup FreeBlocks} = C
  BY <1>1 DEF Spread, ListUnits, FreeBlocks
<1>3. C \subseteq Nat
  <2> SUFFICES ASSUME NEW a \in C PROVE a \in Nat
    OBVIOUS
  <2>1. PICK x \in LiveBlocks \cup FreeBlocks : a \in Units(x[1], x[2])
    BY <1>2
  <2>2. x[1] \in Nat /\ x[2] \in Nat
    BY HeapUnits
  <2> QED BY <2>1, <2>2 DEF Units
<1>4. \A a \in C : Units((a \div PAGE_SIZE) * PAGE_SIZE, PAGE_SIZE) \subseteq C
  BY <1>1 DEF HeapInv, Cut, WholePages
<1>5. ASSUME NEW a \in C
      PROVE  \E p \in SlobPages : a \in Units(p[1] * PAGE_SIZE, PAGE_SIZE)
  <2>1. PICK q, p : q = a \div PAGE_SIZE /\ p = <<a \div PAGE_SIZE, 1>>
    OBVIOUS
  <2>2. p \in SlobPages /\ p[1] = q
    BY <1>1, <2>1, SlobPagesIs
  <2>3. a \in Nat /\ q \in Nat
    BY <1>3, <2>1, DivFacts, KmallocAssumption
  <2>4. a \in Units(q * PAGE_SIZE, PAGE_SIZE)
    BY <2>1, <2>3, PageUnits
  <2> QED BY <2>2, <2>4
<1>6. ASSUME NEW p \in SlobPages PROVE Units(p[1] * PAGE_SIZE, PAGE_SIZE) \subseteq C
  <2>1. PICK a \in C : p = <<a \div PAGE_SIZE, 1>>
    BY <1>1, SlobPagesIs
  <2>2. p[1] = a \div PAGE_SIZE
    BY <2>1
  <2> QED BY <1>4, <2>2
<1>7. C = UNION {Units(p[1] * PAGE_SIZE, PAGE_SIZE) : p \in SlobPages}
  BY <1>5, <1>6
<1> QED BY <1>2, <1>7

\* kmalloc has given what was asked for.
LEMMA HeapSizes ==
    ASSUME PagesInv, HeapInv, NEW x \in live
    PROVE  ksize(x) >= x.size + (IF x.units = 0 THEN 0 ELSE 1) \/ CutOff(x.size)
<1>1. x.size \in KSizes /\ x.size \in Nat
  BY LiveFacts
<1>2. CASE x.units > 0
  <2>1. x.units = x.size + 1
    BY <1>2, LiveFacts
  <2>2. x.units # 0
    BY <1>1, <2>1
  <2>3. ksize(x) = x.units
    BY <2>2 DEF ksize
  <2> QED BY <1>1, <2>1, <2>2, <2>3
<1>3. CASE ~(x.units > 0)
  <2>1. x.units = 0
    BY <1>3, LiveFacts
  <2>2. PICK i \in BigOf(x.block) : bigblocks[i].order = find_order(x.size)
    BY <1>3, LiveFacts
  <2>3. PICK k : k = CHOOSE j \in BigOf(x.block) : TRUE
    OBVIOUS
  <2>4. k \in BigOf(x.block)
    BY <2>2, <2>3
  <2>5. /\ i \in 1..Len(bigblocks) /\ bigblocks[i].pages * PAGE_SIZE = x.block
        /\ k \in 1..Len(bigblocks) /\ bigblocks[k].pages * PAGE_SIZE = x.block
    BY <2>2, <2>4 DEF BigOf
  <2>6. PICK p \in Nat, q \in Nat : p = bigblocks[i].pages /\ q = bigblocks[k].pages
    BY <2>5, PagesFacts DEF PagesInv, BigInv
  <2>7. p = q
    <3>1. p * PAGE_SIZE = q * PAGE_SIZE /\ p * PAGE_SIZE \in Units(p * PAGE_SIZE, PAGE_SIZE)
      BY <2>5, <2>6, KmallocAssumption, SMTT(20) DEF Units
    <3>2. PICK a : a = p * PAGE_SIZE
      OBVIOUS
    <3>3. a \in Units(p * PAGE_SIZE, PAGE_SIZE) /\ a \in Units(q * PAGE_SIZE, PAGE_SIZE)
      BY <3>1, <3>2
    <3>4. a \div PAGE_SIZE = p /\ a \div PAGE_SIZE = q
      BY <3>3, PageUnits
    <3> QED BY <3>4
  <2>8. i = k
    BY <2>5, <2>6, <2>7 DEF PagesInv, BigInv
  <2>9. PICK d : d = 2^find_order(x.size)
    OBVIOUS
  <2>10. d \in Nat
    <3>1. PICK size : size = x.size
      OBVIOUS
    <3>2. 2^find_order(size) \in Nat
      BY <1>1, <3>1, OrderFacts
    <3> QED BY <2>9, <3>1, <3>2
  <2>11. ksize(x) = PAGE_SIZE * d
    BY <2>1, <2>2, <2>3, <2>8, <2>9 DEF ksize
  <2>12. CutOff(x.size) <=> x.size > PAGE_SIZE * d
    BY <2>9 DEF CutOff
  <2>13. PICK m \in Nat : m = PAGE_SIZE * d
    BY <2>10, KmallocAssumption
  <2> QED BY <1>1, <2>1, <2>11, <2>12, <2>13
<1> QED BY <1>2, <1>3

LEMMA HeapInvExact ==
    ASSUME PagesInv, HeapInv PROVE HeapExact
<1>1. RingOK(slob)
  BY DEF HeapInv, Cut
<1>2. \E i \in 1..Len(slob) :
        LET R == From(slob, i)
        IN  /\ R[1] = Arena
            /\ \A j \in 1..(Len(R) - 1) : R[j][1] + R[j][2] < R[j + 1][1]
  <2>1. PICK L : L = slob
    OBVIOUS
  <2> QED BY <1>1, <2>1, RingSorted
<1>3. HeapPages \subseteq held
  BY SlobHeld DEF HeapPages, PagesInv, BigInv
<1>4. \A x, y \in live : x # y => x.block # y.block
  BY DEF HeapInv, Owners
<1>5. \A x, y \in LiveBlocks \cup FreeBlocks :
        x # y => Units(x[1], x[2]) \cap Units(y[1], y[2]) = {}
  BY HeapUnits
<1>6. \A x \in live : ksize(x) >= x.size + (IF x.units = 0 THEN 0 ELSE 1) \/ CutOff(x.size)
  BY HeapSizes
<1> QED BY <1>2, <1>3, <1>4, <1>5, <1>6, HeapWhole, Zenon DEF HeapExact

\* HeapExact for every memory map and every sequence of calls of kmalloc, kfree,
\* alloc_pages and free_pages: the circular list of slob_alloc and slob_free is
\* sorted and joined, each unit of the pages the heap cuts up is in one free block
\* or in one block in use, these pages and those of big blocks are its own, and a
\* block is as long as was asked for (but for what find_order cuts off).
THEOREM HeapIsExact == Spec => []HeapExact
<1>1. Init => HeapInv
  BY InitHeapInv
<1>2. PagesInv /\ HeapInv /\ [Next]_vars => HeapInv'
  BY NextHeapInv
<1>3. PagesInv /\ HeapInv => HeapExact
  BY HeapInvExact
<1>4. Spec => []PagesInv
  BY PagesInvariant
<1> QED BY <1>1, <1>2, <1>3, <1>4, PTL DEF Spec

-----------------------------------------------------------------------------
(* The assertions of check_swap and _fifo_check_swap.                       *)

\* alloc_page takes the lowest page: check_rp goes up.
RisingInv ==
    /\ \A i, j \in 1..Len(check_rp) : i < j => check_rp[i] < check_rp[j]
    /\ phase = "take" => \A i \in 1..Len(check_rp), p \in FreePages : check_rp[i] < p

\* What is left of a script after j of its steps.
LeftOf(script, j) ==
    /\ Len(todo) = Len(script) - j
    /\ \A i \in 1..Len(todo) : todo[i] = script[j + i]

\* check_content_set has loaded m pages, which got the m lowest of check_rp.
SetAt(m, j) ==
    /\ j \in {2 * m - 2, 2 * m - 1, 2 * m} /\ LeftOf(SetScript, j)
    /\ Len(loads) = m /\ \A i \in 1..m : loads[i] = i
    /\ \A v \in VPages : pte[v] = IF v <= m THEN InPage(check_rp[v]) ELSE Absent
    /\ FreePages = {check_rp[i] : i \in (m + 1)..N}
    /\ fault # 0 => fault = m + 1 /\ j = 2 * m
SetInv ==
    phase = "set" /\ panic = "none" =>
        /\ op = Idle /\ todo \in Seq(Nat \X Nat)
        /\ \E m \in 0..N, j \in 0..(2 * N) : SetAt(m, j)

\* _fifo_check_swap: the pages are loaded in turn, one too few for all, and the
\* faults are those the script counts.
Faults(j) == IF j = 0 THEN 4 ELSE CodeScript[j][2]
ScriptAt(j) ==
    /\ LeftOf(CodeScript, j)
    /\ \A i \in 1..Len(loads) : loads[i] = ((i - 1) % 5) + 1
    /\ Len(loads) = Faults(j) \/ (j < 12 /\ Len(loads) = Faults(j + 1))
    /\ fault # 0 => /\ j < 12 /\ fault = CodeScript[j + 1][1]
                    /\ Len(loads) = Faults(j) /\ Faults(j + 1) = Faults(j) + 1
ScriptInv ==
    phase = "access" /\ panic = "none" /\ errors = 0 =>
        todo \in Seq(Nat \X Nat) /\ \E j \in 0..12 : ScriptAt(j)

ChecksInv ==
    /\ RisingInv /\ SetInv /\ ScriptInv
    /\ panic = "assert" /\ phase # "done" => errors > 0

\* alloc_page gives the lowest page.
LEMMA LowestPage ==
    ASSUME NEW P, PmmInv(P), Alloc(1), NEW p, p = FirstFitPage(1)
    PROVE  /\ p \in Pages /\ p \in FreePages /\ FreePages' = FreePages \ {p} /\ op' = Idle
           /\ \A c \in FreePages : p <= c
<1>1. PICK n \in Nat \ {0} : n = 1
  OBVIOUS
<1>2. Allocated(P, n) /\ Alloc(n)
  BY <1>1, AllocKeeps
<1>3. p \in Pages /\ FreePages' = FreePages \ Run(p, n) /\ op' = Idle
  BY <1>1, <1>2 DEF Allocated
<1>4. p \in FreePages /\ \A c \in FreePages : c < p => ~(Run(c, n) \subseteq FreePages)
  BY <1>1, <1>2, LowestFit
<1>5. \A c \in Nat : Run(c, n) = {c}
  BY <1>1 DEF Run
<1>6. FreePages \subseteq Nat /\ p \in Nat
  BY <1>3, PmmFacts, PagesFacts DEF Split
<1>7. \A c \in FreePages : c \in Nat /\ ~(c < p)
  BY <1>4, <1>5, <1>6
<1> QED BY <1>3, <1>4, <1>5, <1>6, <1>7

LEMMA RisingKept ==
    ASSUME RisingInv, check_rp' = check_rp,
           phase' = "take" => phase = "take" /\ FreePages' = FreePages
    PROVE  RisingInv'
BY DEF RisingInv

LEMMA TakePageRising ==
    ASSUME PagesInv, RisingInv, TakePage PROVE RisingInv'
<1>1. PICK p, P : p = FirstFitPage(1) /\ P = Managed
  OBVIOUS
<1>2. phase = "take" /\ Alloc(1) /\ check_rp' = Append(check_rp, p)
  BY <1>1 DEF TakePage
<1>3. PmmInv(P)
  BY <1>1 DEF PagesInv
<1>4. /\ p \in Pages /\ p \in FreePages /\ FreePages' = FreePages \ {p}
      /\ \A c \in FreePages : p <= c
  BY <1>1, <1>2, <1>3, LowestPage
<1>5. FreePages \subseteq Nat /\ p \in Nat
  BY <1>3, <1>4, PmmFacts, PagesFacts DEF Split
<1>6. check_rp \in Seq(Nat)
  BY CheckFacts, PagesFacts, SeqMonotonic
<1>7. PICK s, n : s = check_rp' /\ n = Len(check_rp)
  OBVIOUS
<1>8. /\ n \in Nat /\ Len(s) = n + 1
      /\ \A i \in 1..(n + 1) : s[i] = IF i = n + 1 THEN p ELSE check_rp[i]
  BY <1>2, <1>5, <1>6, <1>7
<1>9. \A i \in 1..n : check_rp[i] < p /\ check_rp[i] \in Nat
  BY <1>2, <1>4, <1>6, <1>7 DEF RisingInv
<1>10. ASSUME NEW i \in 1..Len(s), NEW j \in 1..Len(s), i < j PROVE s[i] < s[j]
  <2>1. i \in 1..n /\ s[i] = check_rp[i]
    BY <1>8, <1>10
  <2>2. CASE j = n + 1
    BY <1>8, <1>9, <2>1, <2>2
  <2>3. CASE j # n + 1
    <3>1. j \in 1..n /\ s[j] = check_rp[j]
      BY <1>8, <2>3
    <3> QED BY <1>7, <1>10, <2>1, <3>1 DEF RisingInv
  <2> QED BY <2>2, <2>3
<1>11. ASSUME NEW i \in 1..Len(s), NEW c \in FreePages' PROVE s[i] < c
  <2>1. c \in FreePages /\ c # p /\ c \in Nat /\ p <= c
    BY <1>4, <1>5
  <2>2. p < c
    BY <1>5, <2>1
  <2>3. s[i] = p \/ (s[i] < p /\ s[i] \in Nat)
    BY <1>8, <1>9
  <2> QED BY <1>5, <2>1, <2>2, <2>3
<1> QED BY <1>7, <1>10, <1>11 DEF RisingInv

LEMMA CheckBeginRising ==
    ASSUME PagesInv, CheckBegin PROVE RisingInv'
<1>1. check_rp' = <<>>
  BY DEF CheckBegin, PagesInv, TakeInv
<1>2. Len(<<>>) = 0 /\ 1..0 = {}
  OBVIOUS
<1> QED BY <1>1, <1>2 DEF RisingInv

\* Pages that were taken and given back: all that check_swap has.
LEMMA AllFree ==
    ASSUME PagesInv, SwapInv, phase = "give", todo = <<>>, op = Idle
    PROVE  FreePages = Range(check_rp) /\ nr_free = N
<1>1. HidesFree /\ phase # "boot" /\ op.at # "merge"
  BY DEF HidesFree, Idle
<1>2. /\ pt \notin Range(check_rp) /\ pt \in Pages /\ held = Singles({pt})
  <2>1. Range(<<>>) = {}
    BY DEF Range
  <2> QED BY <1>1, <2>1 DEF PagesInv, TakeInv, GiveInv
<1>3. check_rp \in Seq(Pages) /\ Distinct(check_rp) /\ CheckPages = Range(check_rp) \cup {pt}
  BY <1>1, CheckFacts
<1>4. PICK P : P = CheckPages
  OBVIOUS
<1>5. PmmInv(P)
  BY <1>1, <1>4, CheckFacts
<1>6. /\ FreePages \cap HeldOf(held) = {} /\ FreePages \cup HeldOf(held) = P
      /\ nr_free = Cardinality(FreePages)
  BY <1>1, <1>5, PmmFacts DEF Split
<1>7. HeldOf(held) = {pt}
  <2>1. {pt} \subseteq Pages
    BY <1>2
  <2> QED BY <1>2, <2>1, SinglesHeld
<1>8. FreePages = Range(check_rp)
  BY <1>2, <1>3, <1>4, <1>6, <1>7
<1>9. Cardinality(Range(check_rp)) = Len(check_rp)
  BY <1>3, CardDistinct
<1>10. Len(check_rp) = N
  BY DEF SwapInv, FreshInv
<1> QED BY <1>6, <1>8, <1>9, <1>10

\* The pages in memory are those loaded last.
LEMMA Resident ==
    ASSUME PagesInv, SwapInv, phase \in Accesses, errors = 0, fault = 0, Len(loads) >= N,
           NEW v \in VPages
    PROVE  /\ Len(loads) \in Nat
           /\ pte[v].at = "page" <=> \E k \in 1..Len(loads) : k > Len(loads) - N /\ loads[k] = v
<1>1. TableInv /\ OrderInv /\ SwapType /\ Len(check_rp) = N
  BY DEF SwapInv, FreshInv
<1>2. pra_list \in Seq(Pages) /\ Len(pra_list) \in Nat /\ Len(pra_list) <= N
  BY <1>1, FrameCount
<1>3. PICK n \in Nat : n = Len(loads)
  BY <1>1 DEF SwapType
<1>4. N \in Nat \ {0}
  BY SwapAssumption
<1>5. Len(pra_list) = N
  BY <1>1, <1>2, <1>3, <1>4 DEF OrderInv
<1>6. \A i \in 1..N : pra_vaddr[pra_list[i]] = loads[n + 1 - i]
  BY <1>1, <1>3, <1>5 DEF OrderInv
<1>7. ASSUME pte[v].at = "page" PROVE \E k \in 1..n : k > n - N /\ loads[k] = v
  <2>1. PICK p \in Range(pra_list) : pra_vaddr[p] = v
    BY <1>1, <1>7 DEF TableInv
  <2>2. PICK i \in 1..N : p = pra_list[i]
    BY <1>2, <1>5, <2>1, RangeIs
  <2>3. PICK k : k = n + 1 - i
    OBVIOUS
  <2>4. k \in 1..n /\ k > n - N
    BY <1>3, <1>4, <2>3
  <2>5. loads[k] = v
    BY <1>6, <2>1, <2>2, <2>3
  <2> QED BY <2>4, <2>5
<1>8. ASSUME NEW k \in 1..n, k > n - N, loads[k] = v PROVE pte[v].at = "page"
  <2>1. PICK i \in 1..N : i = n + 1 - k
    BY <1>3, <1>4, <1>8
  <2>2. n + 1 - i = k
    BY <1>3, <2>1
  <2>3. PICK p : p = pra_list[i]
    OBVIOUS
  <2>4. p \in Range(pra_list) /\ p \in Nat
    BY <1>2, <1>5, <2>3, RangeIs, PagesFacts
  <2>5. pra_vaddr[p] = v
    BY <1>6, <1>8, <2>1, <2>2, <2>3
  <2>6. pte[v] = InPage(p)
    BY <1>1, <2>4, <2>5 DEF TableInv
  <2> QED BY <2>4, <2>6, EntryOf
<1> QED BY <1>3, <1>7, <1>8

-----------------------------------------------------------------------------
(* check_content_set.                                                       *)

LEMMA SetScriptIs ==
    /\ Len(SetScript) = 2 * N /\ SetScript \in Seq(Nat \X Nat)
    /\ \A i \in 1..(2 * N) : SetScript[i] = <<(i + 1) \div 2, (i + 1) \div 2>>
<1>1. PICK k \in Nat : k = 2 * N
  BY SwapAssumption
<1>2. \A i \in 1..k : (i + 1) \div 2 \in Nat
  OBVIOUS
<1>3. SetScript = [i \in 1..k |-> <<(i + 1) \div 2, (i + 1) \div 2>>]
  BY <1>1 DEF SetScript
<1>4. SetScript \in [1..k -> Nat \X Nat]
  BY <1>2, <1>3
<1>5. SetScript \in Seq(Nat \X Nat) /\ Len(SetScript) = k
  BY <1>1, <1>4
<1> QED BY <1>1, <1>3, <1>5

\* The first of what is left, and the rest.
LEMMA LeftNext ==
    ASSUME NEW script \in Seq(Nat \X Nat), NEW j \in Nat, LeftOf(script, j), todo \in Seq(Nat \X Nat),
           todo # <<>>
    PROVE  /\ j < Len(script) /\ Head(todo) = script[j + 1] /\ j + 1 \in 1..Len(script)
           /\ todo' = Tail(todo) => todo' \in Seq(Nat \X Nat) /\ LeftOf(script, j + 1)'
<1>1. PICK n \in Nat, k \in Nat : n = Len(script) /\ k = Len(todo)
  OBVIOUS
<1>2. k = n - j /\ k > 0 /\ \A i \in 1..k : todo[i] = script[j + i]
  BY <1>1 DEF LeftOf
<1>3. j < n /\ j + 1 \in 1..n /\ 1 \in 1..k
  BY <1>2
<1>4. Head(todo) = script[j + 1]
  BY <1>2, <1>3
<1>5. ASSUME todo' = Tail(todo) PROVE todo' \in Seq(Nat \X Nat) /\ LeftOf(script, j + 1)'
  <2>1. PICK t : t = Tail(todo)
    OBVIOUS
  <2>2. t \in Seq(Nat \X Nat) /\ Len(t) = k - 1 /\ \A i \in 1..(k - 1) : t[i] = todo[i + 1]
    BY <1>1, <2>1, HeadTailProperties
  <2>3. Len(t) = n - (j + 1)
    BY <1>2, <2>2
  <2>4. \A i \in 1..Len(t) : t[i] = script[(j + 1) + i]
    <3> SUFFICES ASSUME NEW i \in 1..Len(t) PROVE t[i] = script[(j + 1) + i]
      OBVIOUS
    <3>1. i \in 1..(k - 1) /\ i + 1 \in 1..k /\ j + (i + 1) = (j + 1) + i
      BY <1>2, <2>2
    <3>2. t[i] = todo[i + 1]
      BY <2>2, <3>1
    <3>3. todo[i + 1] = script[j + (i + 1)]
      BY <1>2, <3>1
    <3> QED BY <3>1, <3>2, <3>3
  <2>5. todo' = t
    BY <1>5, <2>1
  <2> QED BY <1>1, <2>2, <2>3, <2>4, <2>5 DEF LeftOf
<1> QED BY <1>1, <1>3, <1>4, <1>5

\* The page that the next access is to.
LEMMA SetNext ==
    ASSUME PagesInv, SwapInv, NEW m \in 0..N, NEW j \in 0..(2 * N), SetAt(m, j),
           todo \in Seq(Nat \X Nat), todo # <<>>
    PROVE  /\ j < 2 * N /\ Head(todo)[1] = (j + 2) \div 2 /\ Head(todo)[2] = (j + 2) \div 2
           /\ j = 2 * m => Head(todo)[1] = m + 1 /\ m < N
           /\ j # 2 * m => Head(todo)[1] = m /\ Head(todo)[2] = m
           /\ todo' = Tail(todo) => todo' \in Seq(Nat \X Nat) /\ LeftOf(SetScript, j + 1)'
<1>1. N \in Nat /\ m \in Nat /\ j \in Nat /\ 2 * N \in Nat
  BY SwapAssumption
<1>2. PICK s : s = SetScript
  OBVIOUS
<1>3. s \in Seq(Nat \X Nat) /\ Len(s) = 2 * N /\ LeftOf(s, j)
  BY <1>2, SetScriptIs DEF SetAt
<1>4. /\ j < 2 * N /\ Head(todo) = s[j + 1] /\ j + 1 \in 1..(2 * N)
      /\ todo' = Tail(todo) => todo' \in Seq(Nat \X Nat) /\ LeftOf(s, j + 1)'
  <2>1. /\ j < Len(s) /\ Head(todo) = s[j + 1] /\ j + 1 \in 1..Len(s)
        /\ todo' = Tail(todo) => todo' \in Seq(Nat \X Nat) /\ LeftOf(s, j + 1)'
    BY <1>1, <1>3, LeftNext
  <2> QED BY <1>3, <2>1
<1>5. s[j + 1] = <<((j + 1) + 1) \div 2, ((j + 1) + 1) \div 2>>
  BY <1>2, <1>4, SetScriptIs
<1>6. Head(todo)[1] = (j + 2) \div 2 /\ Head(todo)[2] = (j + 2) \div 2
  <2>1. (j + 1) + 1 = j + 2
    BY <1>1
  <2> QED BY <1>4, <1>5, <2>1
<1>7. j \in {2 * m - 2, 2 * m - 1, 2 * m}
  BY DEF SetAt
<1>8. j = 2 * m => (j + 2) \div 2 = m + 1 /\ m < N
  BY <1>1, <1>4
<1>9. j # 2 * m => (j + 2) \div 2 = m
  BY <1>1, <1>7
<1>10. todo' = Tail(todo) => todo' \in Seq(Nat \X Nat) /\ LeftOf(SetScript, j + 1)'
  <2>1. LeftOf(s, j + 1)' => LeftOf(SetScript, j + 1)'
    BY <1>2 DEF LeftOf, SetScript
  <2> QED BY <1>4, <2>1
<1> QED BY <1>4, <1>6, <1>8, <1>9, <1>10

LEMMA SetBeginChecks ==
    ASSUME PagesInv, SwapInv, SetBegin, UNCHANGED heapVars, panic = "none"
    PROVE  panic' = "none" /\ SetInv'
<1>1. /\ phase = "give" /\ todo = <<>> /\ op = Idle /\ op' = op
      /\ phase' = "set" /\ todo' = SetScript
      /\ UNCHANGED <<check_rp, pte, fault, loads>>
  BY DEF SetBegin, tableVars
<1>2. FreePages = Range(check_rp) /\ nr_free = N
  BY <1>1, AllFree
<1>3. panic' = "none"
  BY <1>2 DEF SetBegin, Assert_
<1>4. FreePages' = FreePages
  BY SetBeginPages
<1>5. loads = <<>> /\ Len(check_rp) = N /\ \A v \in VPages : pte[v] = Absent
  BY <1>1 DEF SwapInv, FreshInv
<1>6. fault = 0 /\ check_rp \in Seq(Pages) /\ N \in Nat
  BY <1>1, CheckFacts, SwapAssumption DEF PagesInv, GiveInv
<1>7. FreePages = {check_rp[i] : i \in 1..N}
  BY <1>2, <1>5, <1>6, RangeIs
<1>8. SetAt(0, 0)'
  <2>1. LeftOf(SetScript, 0)'
    <3>1. PICK s : s = SetScript
      OBVIOUS
    <3>2. Len(s) \in Nat /\ \A i \in 1..Len(s) : s[0 + i] = s[i]
      BY <3>1, SetScriptIs
    <3>3. LeftOf(s, 0)'
      BY <1>1, <3>1, <3>2 DEF LeftOf
    <3> QED BY <3>1, <3>3 DEF LeftOf, SetScript
  <2>2. Len(<<>>) = 0 /\ 1..0 = {}
    OBVIOUS
  <2>3. \A v \in VPages : ~(v <= 0)
    BY <1>6 DEF VPages
  <2>4. (0 + 1)..N = 1..N /\ 0 \in {2 * 0 - 2, 2 * 0 - 1, 2 * 0}
    OBVIOUS
  <2> QED BY <1>1, <1>4, <1>5, <1>6, <1>7, <2>1, <2>2, <2>3, <2>4 DEF SetAt
<1>9. todo' \in Seq(Nat \X Nat)
  BY <1>1, SetScriptIs
<1>10. 0 \in 0..N /\ 0 \in 0..(2 * N)
  BY <1>6
<1>11. SetInv'
  BY <1>1, <1>8, <1>9, <1>10 DEF SetInv
<1> QED BY <1>3, <1>11

\* Where check_content_set is.
LEMMA SetFacts ==
    ASSUME PagesInv, SwapInv, SetInv, phase = "set", panic = "none"
    PROVE  /\ op = Idle /\ todo \in Seq(Nat \X Nat) /\ phase \in Accesses
           /\ check_rp \in Seq(Pages) /\ Distinct(check_rp) /\ Len(check_rp) = N /\ N \in Nat
           /\ fault # 0 => todo # <<>>
           /\ pgfault_num = Len(loads) + (IF fault = 0 THEN 0 ELSE 1)
           /\ \E m \in 0..N, j \in 0..(2 * N) : SetAt(m, j)
<1>1. phase \in Accesses /\ phase # "any"
  BY DEF Accesses
<1>2. Len(check_rp) = N /\ pgfault_num = Len(loads) + (IF fault = 0 THEN 0 ELSE 1)
  BY <1>1 DEF SwapInv, FreshInv, OrderInv
<1>3. fault # 0 => todo # <<>>
  BY <1>1 DEF PagesInv, AccessInv
<1> QED BY <1>1, <1>2, <1>3, CheckFacts, SwapAssumption DEF SetInv

LEMMA WriteSet ==
    ASSUME PagesInv, SwapInv, SetInv, phase = "set", panic = "none", NEW v \in VPages, Write(v),
           UNCHANGED heapVars
    PROVE  panic' = "none" /\ SetInv'
<1>1. PICK m \in 0..N, j \in 0..(2 * N) : SetAt(m, j)
  BY SetFacts
<1>2. N \in Nat /\ m \in Nat /\ j \in Nat /\ todo \in Seq(Nat \X Nat)
  BY SetFacts
<1>3. /\ fault = 0 /\ v \in NextPages /\ pte[v].at = "page" /\ todo' = Tail(todo)
      /\ UNCHANGED <<op, phase, check_rp, pte, fault, loads>>
  BY DEF Write, Accessing
<1>4. todo # <<>> /\ v = Head(todo)[1]
  <2>1. todo # <<>>
    BY <1>3 DEF NextPages
  <2>2. NextPages = {Head(todo)[1]}
    BY <2>1 DEF NextPages
  <2> QED BY <1>3, <2>1, <2>2
<1>5. /\ j < 2 * N
      /\ j = 2 * m => v = m + 1
      /\ j # 2 * m => Head(todo)[2] = m
      /\ todo' \in Seq(Nat \X Nat) /\ LeftOf(SetScript, j + 1)'
  BY <1>1, <1>2, <1>3, <1>4, SetNext
<1>6. v <= m
  BY <1>1, <1>3, EntryOf DEF SetAt
<1>7. j # 2 * m /\ j + 1 \in {2 * m - 2, 2 * m - 1, 2 * m} /\ j + 1 \in 0..(2 * N)
  BY <1>1, <1>2, <1>5, <1>6 DEF SetAt
<1>8. pgfault_num = Head(todo)[2]
  <2>1. pgfault_num = Len(loads) + 0
    BY <1>3, SetFacts
  <2>2. Len(loads) = m
    BY <1>1 DEF SetAt
  <2> QED BY <1>2, <1>5, <1>7, <2>1, <2>2
<1>9. panic' = "none"
  BY <1>8 DEF Write, Assert_
<1>10. FreePages' = FreePages
  BY WritePages
<1>11. SetAt(m, j + 1)'
  BY <1>1, <1>3, <1>5, <1>7, <1>10 DEF SetAt
<1>12. op' = Idle /\ phase' = "set"
  BY <1>3, SetFacts
<1>13. SetInv'
  BY <1>5, <1>7, <1>11, <1>12 DEF SetInv
<1> QED BY <1>9, <1>13

LEMMA PageFaultSet ==
    ASSUME PagesInv, SwapInv, SetInv, phase = "set", panic = "none", NEW v \in VPages, PageFault(v),
           UNCHANGED heapVars
    PROVE  SetInv'
<1>1. PICK m \in 0..N, j \in 0..(2 * N) : SetAt(m, j)
  BY SetFacts
<1>2. N \in Nat /\ m \in Nat /\ j \in Nat /\ todo \in Seq(Nat \X Nat)
  BY SetFacts
<1>3. /\ fault = 0 /\ v \in NextPages /\ pte[v].at # "page" /\ todo' = todo /\ fault' = v
      /\ UNCHANGED <<op, phase, check_rp, pte, loads>>
  BY DEF PageFault, Accessing, tableVars
<1>4. todo # <<>> /\ v = Head(todo)[1]
  <2>1. todo # <<>>
    BY <1>3 DEF NextPages
  <2>2. NextPages = {Head(todo)[1]}
    BY <2>1 DEF NextPages
  <2> QED BY <1>3, <2>1, <2>2
<1>5. (j = 2 * m => v = m + 1) /\ (j # 2 * m => v = m)
  BY <1>1, <1>2, <1>4, SetNext
<1>6. ~(v <= m)
  <2> SUFFICES ASSUME v <= m PROVE FALSE
    OBVIOUS
  <2>1. pte[v] = InPage(check_rp[v])
    BY <1>1 DEF SetAt
  <2>2. InPage(check_rp[v]).at = "page"
    BY DEF InPage
  <2> QED BY <1>3, <2>1, <2>2
<1>7. j = 2 * m /\ v = m + 1
  BY <1>2, <1>5, <1>6
<1>8. FreePages' = FreePages
  BY PageFaultPages
<1>9. LeftOf(SetScript, j)'
  BY <1>1, <1>3 DEF SetAt, LeftOf, SetScript
<1>10. SetAt(m, j)'
  BY <1>1, <1>3, <1>7, <1>8, <1>9 DEF SetAt
<1>11. op' = Idle /\ phase' = "set" /\ todo' \in Seq(Nat \X Nat)
  BY <1>2, <1>3, SetFacts
<1> QED BY <1>10, <1>11 DEF SetInv

\* A fault of check_content_set: there is a page for it, the lowest one left.
LEMMA FaultSet ==
    ASSUME PagesInv, SwapInv, RisingInv, SetInv, phase = "set", panic = "none", fault # 0
    PROVE  \E m \in 0..(N - 1) :
             /\ SetAt(m, 2 * m) /\ fault = m + 1 /\ pte[fault] = Absent
             /\ check_rp[m + 1] \in FreePages
             /\ \A p \in FreePages : p = check_rp[m + 1] \/ check_rp[m + 1] < p
<1>1. PICK m \in 0..N, j \in 0..(2 * N) : SetAt(m, j)
  BY SetFacts
<1>2. /\ N \in Nat /\ m \in Nat /\ j \in Nat /\ todo \in Seq(Nat \X Nat) /\ todo # <<>>
      /\ check_rp \in Seq(Pages) /\ Len(check_rp) = N
  BY SetFacts
<1>3. fault = m + 1 /\ j = 2 * m
  BY <1>1 DEF SetAt
<1>4. m < N
  BY <1>1, <1>2, <1>3, SetNext
<1>5. m + 1 \in VPages /\ ~(m + 1 <= m) /\ m + 1 \in (m + 1)..N /\ m \in 0..(N - 1)
  BY <1>2, <1>4 DEF VPages
<1>6. pte[fault] = Absent
  BY <1>1, <1>3, <1>5 DEF SetAt
<1>7. FreePages = {check_rp[i] : i \in (m + 1)..N}
  BY <1>1 DEF SetAt
<1>8. \A i \in (m + 1)..N : i = m + 1 \/ check_rp[m + 1] < check_rp[i]
  <2> SUFFICES ASSUME NEW i \in (m + 1)..N, i # m + 1 PROVE check_rp[m + 1] < check_rp[i]
    OBVIOUS
  <2>1. m + 1 \in 1..Len(check_rp) /\ i \in 1..Len(check_rp) /\ m + 1 < i
    BY <1>2, <1>4
  <2> QED BY <2>1 DEF RisingInv
<1>9. check_rp[m + 1] \in FreePages /\ \A p \in FreePages : p = check_rp[m + 1] \/ check_rp[m + 1] < p
  BY <1>5, <1>7, <1>8
<1> QED BY <1>1, <1>3, <1>5, <1>6, <1>9

LEMMA VictimSet ==
    ASSUME PagesInv, SwapInv, RisingInv, SetInv, phase = "set", panic = "none"
    PROVE  ~SwapOut /\ ~SwapOutFails /\ \A ok \in BOOLEAN : ~SwapIn(ok)
<1>1. ASSUME fault # 0, NoFit(1) PROVE FALSE
  <2>1. FreePages # {}
    BY <1>1, FaultSet
  <2>2. PICK P : P = Managed
    OBVIOUS
  <2>3. PmmInv(P)
    BY <2>2 DEF PagesInv
  <2> QED BY <1>1, <2>1, <2>3, NoFitFacts
<1>2. ASSUME fault # 0, pte[fault].at = "swap" PROVE FALSE
  <2>1. pte[fault] = Absent
    BY <1>2, FaultSet
  <2> QED BY <1>2, <2>1, EntryOf
<1> QED BY <1>1, <1>2 DEF SwapOut, SwapOutFails, SwapIn

LEMMA NewPageSet ==
    ASSUME PagesInv, SwapInv, RisingInv, SetInv, phase = "set", panic = "none", NewPage
    PROVE  SetInv'
<1>1. PICK p : p = FirstFitPage(1)
  OBVIOUS
<1>2. /\ fault # 0 /\ Alloc(1) /\ pte' = [pte EXCEPT ![fault] = InPage(p)]
      /\ loads' = Append(loads, fault) /\ fault' = 0
      /\ UNCHANGED <<phase, check_rp, todo>>
  BY <1>1 DEF NewPage, MapSwappable
<1>3. PICK m \in 0..(N - 1) :
        /\ SetAt(m, 2 * m) /\ fault = m + 1
        /\ check_rp[m + 1] \in FreePages
        /\ \A c \in FreePages : c = check_rp[m + 1] \/ check_rp[m + 1] < c
  BY <1>2, FaultSet
<1>4. /\ N \in Nat /\ m \in Nat /\ todo \in Seq(Nat \X Nat) /\ m + 1 \in 0..N
      /\ check_rp \in Seq(Pages) /\ Len(check_rp) = N /\ Distinct(check_rp)
  BY SetFacts
<1>5. PICK P : P = Managed
  OBVIOUS
<1>6. PmmInv(P)
  BY <1>5 DEF PagesInv
<1>7. /\ p \in FreePages /\ FreePages' = FreePages \ {p} /\ op' = Idle
      /\ \A c \in FreePages : p <= c
  BY <1>1, <1>2, <1>6, LowestPage
<1>8. FreePages \subseteq Nat
  BY <1>6, PmmFacts, PagesFacts DEF Split
<1>9. p = check_rp[m + 1]
  <2>1. PICK q : q = check_rp[m + 1]
    OBVIOUS
  <2>2. q \in Nat /\ p \in Nat /\ p <= q /\ (p = q \/ q < p)
    BY <1>3, <1>7, <1>8, <2>1
  <2> QED BY <2>1, <2>2
<1>10. FreePages' = {check_rp[i] : i \in ((m + 1) + 1)..N}
  <2>1. FreePages = {check_rp[i] : i \in (m + 1)..N}
    BY <1>3 DEF SetAt
  <2>2. \A i \in (m + 1)..N : i = m + 1 \/ i \in ((m + 1) + 1)..N
    BY <1>4
  <2>3. \A i \in ((m + 1) + 1)..N : i \in (m + 1)..N /\ check_rp[i] # check_rp[m + 1]
    <3> SUFFICES ASSUME NEW i \in ((m + 1) + 1)..N
                 PROVE  i \in (m + 1)..N /\ check_rp[i] # check_rp[m + 1]
      OBVIOUS
    <3>1. i \in (m + 1)..N /\ i \in 1..N /\ m + 1 \in 1..N /\ i # m + 1
      BY <1>4
    <3> QED BY <1>4, <3>1 DEF Distinct
  <2> QED BY <1>7, <1>9, <2>1, <2>2, <2>3
<1>11. Len(loads') = m + 1 /\ \A i \in 1..(m + 1) : loads'[i] = i
  <2>1. loads \in Seq(VPages) /\ Len(loads) = m /\ \A i \in 1..m : loads[i] = i
    BY <1>3 DEF SetAt, SwapInv, SwapType
  <2>2. m + 1 \in VPages
    BY <1>4 DEF VPages
  <2>3. PICK t : t = loads'
    OBVIOUS
  <2>4. t = Append(loads, m + 1)
    BY <1>2, <1>3, <2>3
  <2>5. Len(t) = m + 1 /\ \A i \in 1..(m + 1) : t[i] = IF i = m + 1 THEN m + 1 ELSE loads[i]
    BY <1>4, <2>1, <2>2, <2>4
  <2>6. \A i \in 1..(m + 1) : t[i] = i
    BY <1>4, <2>1, <2>5
  <2> QED BY <2>3, <2>5, <2>6
<1>12. \A v \in VPages : pte'[v] = IF v <= m + 1 THEN InPage(check_rp[v]) ELSE Absent
  <2> SUFFICES ASSUME NEW v \in VPages
               PROVE  pte'[v] = IF v <= m + 1 THEN InPage(check_rp[v]) ELSE Absent
    OBVIOUS
  <2>1. pte \in [VPages -> Entries] /\ v \in Nat
    BY SwapAssumption DEF SwapInv, SwapType, VPages
  <2>2. pte[v] = IF v <= m THEN InPage(check_rp[v]) ELSE Absent
    BY <1>3 DEF SetAt
  <2>3. CASE v = m + 1
    BY <1>2, <1>3, <1>9, <2>1, <2>3
  <2>4. CASE v # m + 1
    <3>1. pte'[v] = pte[v]
      BY <1>2, <1>3, <2>1, <2>4
    <3>2. v <= m <=> v <= m + 1
      BY <1>4, <2>1, <2>4
    <3> QED BY <2>2, <3>1, <3>2
  <2> QED BY <2>3, <2>4
<1>13. LeftOf(SetScript, 2 * m)'
  BY <1>2, <1>3 DEF SetAt, LeftOf, SetScript
<1>14. SetAt(m + 1, 2 * m)'
  <2>1. 2 * m \in {2 * (m + 1) - 2, 2 * (m + 1) - 1, 2 * (m + 1)}
    BY <1>4
  <2> QED BY <1>2, <1>10, <1>11, <1>12, <1>13, <2>1 DEF SetAt
<1>15. 2 * m \in 0..(2 * N) /\ phase' = "set" /\ todo' \in Seq(Nat \X Nat)
  BY <1>2, <1>4
<1> QED BY <1>4, <1>7, <1>14, <1>15 DEF SetInv

\* At the end of check_content_set the N pages are in the page table, in order.
LEMMA SetDoneChecks ==
    ASSUME PagesInv, SwapInv, SetInv, SetDone, panic = "none"
    PROVE  panic' = "none" /\ Len(loads) = N /\ fault = 0 /\ \A i \in 1..N : loads[i] = i
<1>1. phase = "set" /\ todo = <<>>
  BY DEF SetDone
<1>2. PICK m \in 0..N, j \in 0..(2 * N) : SetAt(m, j)
  BY <1>1, SetFacts
<1>3. N \in Nat /\ m \in Nat /\ j \in Nat /\ fault = 0 /\ op = Idle
  BY <1>1, SetFacts
<1>4. m = N
  <2>1. Len(<<>>) = 0
    OBVIOUS
  <2>2. 0 = 2 * N - j
    BY <1>1, <1>2, <2>1, SetScriptIs DEF SetAt, LeftOf
  <2>3. j <= 2 * m
    BY <1>2, <1>3 DEF SetAt
  <2> QED BY <1>2, <1>3, <2>2, <2>3
<1>5. Len(loads) = N /\ \A i \in 1..N : loads[i] = i
  BY <1>2, <1>4 DEF SetAt
<1>6. \A i \in 1..N : pte[i] = InPage(check_rp[i])
  <2>1. \A i \in 1..N : i \in VPages /\ i <= m
    BY <1>3, <1>4 DEF VPages
  <2> QED BY <1>2, <2>1 DEF SetAt
<1>7. nr_free = 0
  <2>1. (N + 1)..N = {}
    BY <1>3
  <2>2. FreePages = {}
    BY <1>2, <1>4, <2>1 DEF SetAt
  <2>3. PICK P : P = Managed
    OBVIOUS
  <2>4. PmmInv(P) /\ op.at # "merge"
    BY <1>3, <2>3 DEF PagesInv, Idle
  <2>5. nr_free = Cardinality(FreePages)
    BY <2>4, PmmFacts
  <2> QED BY <2>2, <2>5, FS_EmptySet
<1>8. panic' = "none"
  BY <1>6, <1>7 DEF SetDone, Assert_
<1> QED BY <1>3, <1>5, <1>8

\* The steps of the script: each is to a page that the last four loads brought in,
\* or to the one page that they did not, which is the next in turn.
LEMMA ScriptTable ==
    ASSUME NEW j \in 0..11, NEW v, v = CodeScript[j + 1][1],
           NEW m, m = Faults(j), NEW n, n = Faults(j + 1)
    PROVE  /\ m \in Nat /\ n \in Nat /\ m >= 4 /\ n >= 4 /\ n = CodeScript[j + 1][2]
           /\ n # m => /\ n = m + 1 /\ v = (m % 5) + 1
                       /\ \A i \in 1..4 : v # ((m - i) % 5) + 1
           /\ \E i \in 1..4 : v = ((n - i) % 5) + 1
<1>1. /\ CodeScript[1] = <<3, 4>> /\ CodeScript[2] = <<1, 4>> /\ CodeScript[3] = <<4, 4>>
      /\ CodeScript[4] = <<2, 4>> /\ CodeScript[5] = <<5, 5>> /\ CodeScript[6] = <<2, 5>>
      /\ CodeScript[7] = <<1, 6>> /\ CodeScript[8] = <<2, 7>> /\ CodeScript[9] = <<3, 8>>
      /\ CodeScript[10] = <<4, 9>> /\ CodeScript[11] = <<5, 10>> /\ CodeScript[12] = <<1, 11>>
  BY DEF CodeScript
<1>2. n = CodeScript[j + 1][2] /\ m = IF j = 0 THEN 4 ELSE CodeScript[j][2]
  BY DEF Faults
<1>3. \/ m = 4 /\ n = 4 /\ v \in 1..4
      \/ m = 4 /\ n = 5 /\ v = 5
      \/ m = 5 /\ n = 5 /\ v = 2
      \/ m \in 5..10 /\ n = m + 1 /\ v = (m % 5) + 1
  BY <1>1, <1>2
<1>4. /\ \A x \in 0..4 : x % 5 = x
      /\ \A x \in 5..9 : x % 5 = x - 5
      /\ 10 % 5 = 0
  OBVIOUS
<1>5. CASE m = 4 /\ n = 4 /\ v \in 1..4
  <2>1. 4 - v + 1 \in 1..4 /\ (n - (4 - v + 1)) % 5 = v - 1
    BY <1>4, <1>5
  <2> QED BY <1>2, <1>5, <2>1
<1>6. CASE m = 4 /\ n = 5 /\ v = 5
  BY <1>2, <1>4, <1>6
<1>7. CASE m = 5 /\ n = 5 /\ v = 2
  BY <1>2, <1>4, <1>7
<1>8. CASE m \in 5..10 /\ n = m + 1 /\ v = (m % 5) + 1
  <2>1. n - 1 = m /\ 1 \in 1..4 /\ v = ((n - 1) % 5) + 1
    BY <1>8
  <2>2. m % 5 \in Int /\ \A i \in 1..4 : (m - i) % 5 \in Int /\ (m - i) % 5 # m % 5
    BY <1>4, <1>8
  <2>3. \A i \in 1..4 : v # ((m - i) % 5) + 1
    BY <1>8, <2>2
  <2>4. m \in Nat /\ n \in Nat /\ m >= 4 /\ n >= 4
    BY <1>8
  <2> QED BY <1>2, <1>8, <2>1, <2>3, <2>4
<1> QED BY <1>3, <1>5, <1>6, <1>7, <1>8

LEMMA ScriptTurn ==
    ASSUME NEW j \in 0..11, Faults(j + 1) = Faults(j) + 1
    PROVE  Faults(j) \in Nat /\ CodeScript[j + 1][1] = (Faults(j) % 5) + 1
<1>1. PICK m, n, v : m = Faults(j) /\ n = Faults(j + 1) /\ v = CodeScript[j + 1][1]
  OBVIOUS
<1>2. m \in Nat /\ (n # m => v = (m % 5) + 1)
  BY <1>1, ScriptTable
<1> QED BY <1>1, <1>2

\* Where _fifo_check_swap is.
LEMMA ScriptFacts ==
    ASSUME N = 4, PagesInv, SwapInv, ScriptInv, phase = "access", panic = "none", errors = 0
    PROVE  /\ todo \in Seq(Nat \X Nat) /\ phase \in Accesses
           /\ loads \in Seq(VPages) /\ Len(loads) \in Nat /\ VPages = 1..5
           /\ pgfault_num = Len(loads) + (IF fault = 0 THEN 0 ELSE 1)
           /\ CodeScript \in Seq(Nat \X Nat) /\ Len(CodeScript) = 12
           /\ \E j \in 0..12 : ScriptAt(j)
<1>1. phase \in Accesses
  BY DEF Accesses
<1>2. pgfault_num = Len(loads) + (IF fault = 0 THEN 0 ELSE 1) /\ loads \in Seq(VPages)
  BY <1>1 DEF SwapInv, OrderInv, SwapType
<1>3. CodeScript \in Seq(Nat \X Nat) /\ Len(CodeScript) = 12
  BY DEF CodeScript
<1>4. VPages = 1..5
  BY DEF VPages
<1>5. Len(loads) \in Nat
  BY <1>2
<1> QED BY <1>1, <1>2, <1>3, <1>4, <1>5 DEF ScriptInv

\* The next page of the script is in memory if and only if the faults are already
\* those that it counts.
LEMMA ScriptNext ==
    ASSUME N = 4, PagesInv, SwapInv, ScriptInv, phase = "access", panic = "none", errors = 0,
           fault = 0, NEW j \in 0..12, ScriptAt(j), NEW v \in NextPages
    PROVE  /\ j \in 0..11 /\ todo # <<>> /\ v = CodeScript[j + 1][1]
           /\ Head(todo)[2] = Faults(j + 1)
           /\ pte[v].at = "page" => Len(loads) = Faults(j + 1)
           /\ pte[v].at # "page" => Len(loads) = Faults(j) /\ Faults(j + 1) = Faults(j) + 1
           /\ todo' = Tail(todo) => todo' \in Seq(Nat \X Nat) /\ LeftOf(CodeScript, j + 1)'
<1>1. /\ todo \in Seq(Nat \X Nat) /\ phase \in Accesses /\ Len(loads) \in Nat /\ VPages = 1..5
      /\ CodeScript \in Seq(Nat \X Nat) /\ Len(CodeScript) = 12 /\ j \in Nat
  BY ScriptFacts
<1>2. todo # <<>> /\ v = Head(todo)[1]
  <2>1. todo # <<>>
    BY DEF NextPages
  <2>2. NextPages = {Head(todo)[1]}
    BY <2>1 DEF NextPages
  <2> QED BY <2>1, <2>2
<1>3. LeftOf(CodeScript, j)
  BY DEF ScriptAt
<1>4. /\ j < 12 /\ Head(todo) = CodeScript[j + 1]
      /\ todo' = Tail(todo) => todo' \in Seq(Nat \X Nat) /\ LeftOf(CodeScript, j + 1)'
  BY <1>1, <1>2, <1>3, LeftNext
<1>5. j \in 0..11 /\ v = CodeScript[j + 1][1]
  <2>1. j \in 0..11
    BY <1>1, <1>4
  <2> QED BY <1>2, <1>4, <2>1
<1>6. PICK m, n : m = Faults(j) /\ n = Faults(j + 1)
  OBVIOUS
<1>7. /\ m \in Nat /\ n \in Nat /\ m >= 4 /\ n >= 4 /\ n = CodeScript[j + 1][2]
      /\ n # m => /\ n = m + 1 /\ v = (m % 5) + 1
                  /\ \A i \in 1..4 : v # ((m - i) % 5) + 1
      /\ \E i \in 1..4 : v = ((n - i) % 5) + 1
  BY <1>5, <1>6, ScriptTable
<1>8. PICK l \in Nat : l = Len(loads)
  BY <1>1
<1>9. (l = m \/ l = n) /\ \A i \in 1..l : loads[i] = ((i - 1) % 5) + 1
  BY <1>6, <1>8 DEF ScriptAt
<1>10. v \in VPages
  <2>1. PICK i \in 1..4 : v = ((n - i) % 5) + 1
    BY <1>7
  <2>2. PICK x \in Nat : x = n - i
    BY <1>7
  <2>3. x % 5 \in 0..4
    BY <2>2
  <2> QED BY <1>1, <2>1, <2>2, <2>3
<1>11. l >= N
  BY <1>7, <1>9
<1>12. pte[v].at = "page" <=> \E k \in 1..l : k > l - 4 /\ loads[k] = v
  <2>1. pte[v].at = "page" <=> \E k \in 1..Len(loads) : k > Len(loads) - N /\ loads[k] = v
    BY <1>1, <1>8, <1>10, <1>11, Resident
  <2> QED BY <1>8, <2>1
<1>13. ASSUME l = n PROVE pte[v].at = "page"
  <2>1. PICK i \in 1..4 : v = ((n - i) % 5) + 1
    BY <1>7
  <2>2. PICK k \in 1..l : k = l + 1 - i
    BY <1>7, <1>9, <1>13
  <2>3. k > l - 4 /\ k - 1 = n - i
    BY <1>7, <1>13, <2>2
  <2>4. loads[k] = v
    BY <1>9, <2>1, <2>3
  <2> QED BY <1>12, <2>3, <2>4
<1>14. ASSUME l # n PROVE pte[v].at # "page"
  <2> SUFFICES ASSUME pte[v].at = "page" PROVE FALSE
    OBVIOUS
  <2>1. PICK k \in 1..l : k > l - 4 /\ loads[k] = v
    BY <1>12
  <2>2. l = m /\ n # m
    BY <1>9, <1>14
  <2>3. PICK i \in 1..4 : i = l + 1 - k
    BY <2>1
  <2>4. k - 1 = m - i
    BY <1>7, <2>2, <2>3
  <2>5. v = ((m - i) % 5) + 1
    BY <1>9, <2>1, <2>4
  <2> QED BY <1>7, <2>2, <2>5
<1>15. Head(todo)[2] = n
  BY <1>4, <1>7
<1>16. /\ pte[v].at = "page" => l = n
       /\ pte[v].at # "page" => l = m /\ n = m + 1
  BY <1>7, <1>9, <1>13, <1>14
<1> QED BY <1>2, <1>4, <1>5, <1>6, <1>8, <1>15, <1>16

LEMMA WriteScript ==
    ASSUME N = 4, PagesInv, SwapInv, ScriptInv, phase = "access", panic = "none", errors = 0,
           NEW v \in VPages, Write(v)
    PROVE  panic' = "none" /\ ScriptInv'
<1>1. PICK j \in 0..12 : ScriptAt(j)
  BY ScriptFacts
<1>2. /\ fault = 0 /\ v \in NextPages /\ pte[v].at = "page" /\ todo' = Tail(todo)
      /\ UNCHANGED <<phase, pte, fault, loads, errors>>
  BY DEF Write, Accessing
<1>3. /\ j \in 0..11 /\ Head(todo)[2] = Faults(j + 1) /\ Len(loads) = Faults(j + 1)
      /\ todo' \in Seq(Nat \X Nat) /\ LeftOf(CodeScript, j + 1)'
  BY <1>1, <1>2, ScriptNext
<1>4. pgfault_num = Head(todo)[2]
  <2>1. pgfault_num = Len(loads) + 0 /\ Len(loads) \in Nat
    BY <1>2, ScriptFacts
  <2> QED BY <1>3, <2>1
<1>5. panic' = "none"
  BY <1>4 DEF Write, Assert_
<1>6. PICK k \in 0..12 : k = j + 1
  BY <1>3
<1>7. ScriptAt(k)'
  <2>1. \A i \in 1..Len(loads) : loads[i] = ((i - 1) % 5) + 1
    BY <1>1 DEF ScriptAt
  <2>2. LeftOf(CodeScript, k)' /\ Len(loads) = Faults(k)
    BY <1>3, <1>6
  <2> QED BY <1>2, <2>1, <2>2 DEF ScriptAt, Faults
<1> QED BY <1>3, <1>5, <1>7 DEF ScriptInv

LEMMA PageFaultScript ==
    ASSUME N = 4, PagesInv, SwapInv, ScriptInv, phase = "access", panic = "none", errors = 0,
           NEW v \in VPages, PageFault(v)
    PROVE  ScriptInv'
<1>1. PICK j \in 0..12 : ScriptAt(j)
  BY ScriptFacts
<1>2. /\ fault = 0 /\ v \in NextPages /\ pte[v].at # "page" /\ todo' = todo /\ fault' = v
      /\ UNCHANGED <<phase, pte, loads, errors>>
  BY DEF PageFault, Accessing, tableVars
<1>3. /\ j \in 0..11 /\ v = CodeScript[j + 1][1]
      /\ Len(loads) = Faults(j) /\ Faults(j + 1) = Faults(j) + 1
  BY <1>1, <1>2, ScriptNext
<1>4. ScriptAt(j)'
  <2>1. /\ \A i \in 1..Len(loads) : loads[i] = ((i - 1) % 5) + 1
        /\ LeftOf(CodeScript, j)
    BY <1>1 DEF ScriptAt
  <2>2. LeftOf(CodeScript, j)'
    BY <1>2, <2>1 DEF LeftOf, CodeScript
  <2>3. j < 12
    BY <1>3
  <2> QED BY <1>2, <1>3, <2>1, <2>2, <2>3 DEF ScriptAt, Faults, CodeScript
<1>5. todo' \in Seq(Nat \X Nat)
  BY <1>2, ScriptFacts
<1> QED BY <1>4, <1>5 DEF ScriptInv

\* The page that is loaded is the next in turn.
LEMMA LoadScript ==
    ASSUME N = 4, PagesInv, SwapInv, ScriptInv, phase = "access", panic = "none", errors = 0,
           fault # 0, loads' = Append(loads, fault), fault' = 0, todo' = todo
    PROVE  ScriptInv'
<1>1. PICK j \in 0..12 : ScriptAt(j)
  BY ScriptFacts
<1>2. /\ j < 12 /\ fault = CodeScript[j + 1][1]
      /\ Len(loads) = Faults(j) /\ Faults(j + 1) = Faults(j) + 1
  BY <1>1 DEF ScriptAt
<1>3. PICK m, n : m = Faults(j) /\ n = Faults(j + 1)
  OBVIOUS
<1>4. j \in 0..11
  BY <1>2
<1>5. m \in Nat /\ fault = (m % 5) + 1
  BY <1>2, <1>3, <1>4, ScriptTurn
<1>6. n = m + 1 /\ n \in Nat
  BY <1>2, <1>3, <1>5
<1>7. PICK t : t = loads'
  OBVIOUS
<1>8. loads \in Seq(VPages) /\ Len(loads) = m /\ \A i \in 1..m : loads[i] = ((i - 1) % 5) + 1
  BY <1>1, <1>2, <1>3, ScriptFacts DEF ScriptAt
<1>9. Len(t) = n /\ \A i \in 1..n : t[i] = IF i = n THEN fault ELSE loads[i]
  BY <1>5, <1>6, <1>7, <1>8
<1>10. \A i \in 1..n : t[i] = ((i - 1) % 5) + 1
  <2> SUFFICES ASSUME NEW i \in 1..n PROVE t[i] = ((i - 1) % 5) + 1
    OBVIOUS
  <2>1. CASE i = n
    <3>1. i - 1 = m
      BY <1>5, <1>6, <2>1
    <3> QED BY <1>5, <1>9, <2>1, <3>1
  <2>2. CASE i # n
    <3>1. i \in 1..m
      BY <1>5, <1>6, <2>2
    <3> QED BY <1>8, <1>9, <2>2, <3>1
  <2> QED BY <2>1, <2>2
<1>11. LeftOf(CodeScript, j)
  BY <1>1 DEF ScriptAt
<1>12. LeftOf(CodeScript, j)'
  BY <1>11 DEF LeftOf, CodeScript
<1>13. ScriptAt(j)'
  BY <1>2, <1>3, <1>7, <1>9, <1>10, <1>12 DEF ScriptAt, Faults, CodeScript
<1>14. todo' \in Seq(Nat \X Nat)
  BY ScriptFacts
<1> QED BY <1>13, <1>14 DEF ScriptInv

\* Steps that leave the script and the loads alone.
LEMMA SameScript ==
    ASSUME ScriptInv, UNCHANGED <<phase, todo, loads, fault, errors>>, panic' = "none" => panic = "none"
    PROVE  ScriptInv'
<1> SUFFICES ASSUME phase = "access", panic = "none", errors = 0 PROVE ScriptInv'
  BY DEF ScriptInv
<1>1. PICK j \in 0..12 : ScriptAt(j)
  BY DEF ScriptInv
<1>2. ScriptAt(j)'
  BY <1>1 DEF ScriptAt, Faults, CodeScript, LeftOf
<1>3. todo' \in Seq(Nat \X Nat)
  BY DEF ScriptInv
<1> QED BY <1>2, <1>3 DEF ScriptInv

\* The script begins with the four pages of check_content_set in memory.
LEMMA SetDoneScript ==
    ASSUME N = 4, FifoScript = CodeScript, PagesInv, SwapInv, SetInv, SetDone, panic = "none"
    PROVE  ScriptInv'
<1> SUFFICES ASSUME phase' = "access" PROVE ScriptInv'
  BY DEF ScriptInv
<1>1. todo' = CodeScript /\ UNCHANGED <<loads, fault>>
  BY DEF SetDone
<1>2. Len(loads) = 4 /\ fault = 0 /\ \A i \in 1..4 : loads[i] = i
  BY SetDoneChecks
<1>3. CodeScript \in Seq(Nat \X Nat) /\ Len(CodeScript) = 12
  BY DEF CodeScript
<1>4. \A i \in 1..4 : i = ((i - 1) % 5) + 1
  OBVIOUS
<1>5. PICK s : s = CodeScript
  OBVIOUS
<1>6. LeftOf(s, 0)'
  BY <1>1, <1>3, <1>5 DEF LeftOf
<1>7. Faults(0) = 4
  BY DEF Faults
<1>8. ScriptAt(0)'
  BY <1>1, <1>2, <1>4, <1>5, <1>6, <1>7 DEF ScriptAt, Faults
<1> QED BY <1>1, <1>3, <1>8 DEF ScriptInv

\* Only the check at boot is between its phases.
LEMMA FaultPhase ==
    ASSUME PagesInv, fault # 0 PROVE phase \in Accesses /\ phase # "take" /\ phase # "done"
BY DEF PagesInv, AccessInv, Accesses

LEMMA RisingSwap ==
    ASSUME PagesInv, RisingInv, SwapStep, UNCHANGED heapVars, panic = "none" PROVE RisingInv'
<1>1. CASE CheckBegin
  BY <1>1, CheckBeginRising
<1>2. CASE TakePage
  BY <1>2, TakePageRising
<1>3. CASE HideFree \/ SetBegin \/ SetDone \/ AccessDone \/ CheckEnd
  BY <1>3, RisingKept DEF HideFree, SetBegin, SetDone, AccessDone, CheckEnd
<1>4. CASE GivePage
  BY <1>4, RisingKept DEF GivePage
<1>5. ASSUME NEW v \in VPages, Write(v) \/ PageFault(v) PROVE RisingInv'
  BY <1>5, RisingKept DEF Write, PageFault, Accessing, Accesses
<1>6. CASE NewPage \/ SwapOut \/ SwapOutFails
  BY <1>6, FaultPhase, RisingKept DEF NewPage, SwapOut, SwapOutFails
<1>7. ASSUME NEW ok \in BOOLEAN, SwapIn(ok) PROVE RisingInv'
  BY <1>7, FaultPhase, RisingKept DEF SwapIn
<1> QED BY <1>1, <1>2, <1>3, <1>4, <1>5, <1>6, <1>7 DEF SwapStep

\* While the check is at its accesses, only it and free_pages run.
LEMMA StepKinds ==
    ASSUME PagesInv, [Next]_vars
    PROVE  \/ UNCHANGED vars
           \/ panic = "none" /\ SwapStep /\ UNCHANGED heapVars
           \/ panic = "none" /\ phase = "done" /\ UNCHANGED swapVars
           \/ panic = "none" /\ PmmStep /\ UNCHANGED <<swapVars, heapVars>> /\ panic' = panic
<1>1. ASSUME PmmStep, UNCHANGED <<swapVars, heapVars>> PROVE panic' = panic
  BY <1>1, PmmStepPages
<1> QED BY <1>1 DEF Next, Booted, OutOfMemory

LEMMA NextRising ==
    ASSUME PagesInv, RisingInv, [Next]_vars PROVE RisingInv'
<1>1. CASE UNCHANGED vars
  <2>1. UNCHANGED <<check_rp, phase>> /\ FreePages' = FreePages
    BY <1>1, SameVars DEF vars, swapVars
  <2> QED BY <2>1, RisingKept
<1>2. CASE panic = "none" /\ SwapStep /\ UNCHANGED heapVars
  BY <1>2, RisingSwap
<1>3. CASE phase = "done" /\ UNCHANGED swapVars
  BY <1>3, RisingKept DEF swapVars
<1>4. CASE PmmStep /\ UNCHANGED <<swapVars, heapVars>>
  <2>1. UNCHANGED <<check_rp, phase>>
    BY <1>4 DEF swapVars
  <2>2. phase = "take" => FreePages' = FreePages
    BY <1>4, PmmStepPages
  <2> QED BY <2>1, <2>2, RisingKept
<1> QED BY <1>1, <1>2, <1>3, <1>4, StepKinds

LEMMA NextSet ==
    ASSUME PagesInv, SwapInv, RisingInv, SetInv, [Next]_vars PROVE SetInv'
<1> SUFFICES ASSUME phase' = "set", panic' = "none" PROVE SetInv'
  BY DEF SetInv
<1>1. CASE UNCHANGED vars
  <2>1. /\ UNCHANGED <<phase, panic, op, check_rp, pte, todo, fault, loads>>
        /\ FreePages' = FreePages
    BY <1>1, SameVars DEF vars, swapVars, tableVars
  <2>2. /\ op = Idle /\ todo \in Seq(Nat \X Nat)
        /\ \E m \in 0..N, j \in 0..(2 * N) : SetAt(m, j)
    BY <2>1 DEF SetInv
  <2>3. PICK m \in 0..N, j \in 0..(2 * N) : SetAt(m, j)
    BY <2>2
  <2>4. LeftOf(SetScript, j)'
    BY <2>1, <2>3 DEF SetAt, LeftOf, SetScript
  <2>5. SetAt(m, j)'
    BY <2>1, <2>3, <2>4 DEF SetAt
  <2> QED BY <2>1, <2>2, <2>5 DEF SetInv
<1>2. CASE panic = "none" /\ SwapStep /\ UNCHANGED heapVars
  <2>1. ~(CheckBegin \/ TakePage \/ HideFree \/ GivePage \/ SetDone \/ AccessDone \/ CheckEnd)
    BY DEF CheckBegin, TakePage, HideFree, GivePage, SetDone, AccessDone, CheckEnd
  <2>2. CASE SetBegin
    BY <1>2, <2>2, SetBeginChecks
  <2>3. ASSUME NEW v \in VPages, Write(v) PROVE SetInv'
    <3>1. phase = "set"
      BY <2>3 DEF Write
    <3> QED BY <1>2, <2>3, <3>1, WriteSet
  <2>4. ASSUME NEW v \in VPages, PageFault(v) PROVE SetInv'
    <3>1. phase = "set"
      BY <2>4 DEF PageFault
    <3> QED BY <1>2, <2>4, <3>1, PageFaultSet
  <2>5. CASE NewPage
    <3>1. phase = "set"
      BY <2>5 DEF NewPage
    <3> QED BY <1>2, <2>5, <3>1, NewPageSet
  <2>6. ASSUME NEW ok \in BOOLEAN, SwapIn(ok) PROVE FALSE
    <3>1. phase = "set"
      BY <2>6 DEF SwapIn
    <3> QED BY <1>2, <2>6, <3>1, VictimSet
  <2>7. CASE SwapOut \/ SwapOutFails
    <3>1. phase = "set"
      BY <2>7 DEF SwapOut, SwapOutFails
    <3> QED BY <1>2, <2>7, <3>1, VictimSet
  <2> QED BY <1>2, <2>1, <2>2, <2>3, <2>4, <2>5, <2>6, <2>7 DEF SwapStep
<1>3. CASE phase = "done" /\ UNCHANGED swapVars
  BY <1>3 DEF swapVars
<1>4. CASE panic = "none" /\ PmmStep /\ UNCHANGED <<swapVars, heapVars>>
  <2>1. phase = "set"
    BY <1>4 DEF swapVars
  <2>2. op = Idle
    BY <1>4, <2>1 DEF SetInv
  <2>3. PICK P : P = Managed
    OBVIOUS
  <2>4. PmmInv(P) /\ op.at # "memmap"
    BY <2>2, <2>3 DEF PagesInv, Idle
  <2> QED BY <1>4, <2>2, <2>4, FreeStepKeeps
<1> QED BY <1>1, <1>2, <1>3, <1>4, StepKinds

LEMMA NextScript ==
    ASSUME N = 4, FifoScript = CodeScript, PagesInv, SwapInv, SetInv, ScriptInv, [Next]_vars
    PROVE  ScriptInv'
<1> SUFFICES ASSUME phase' = "access", panic' = "none", errors' = 0 PROVE ScriptInv'
  BY DEF ScriptInv
<1>1. CASE UNCHANGED vars
  <2>1. UNCHANGED <<phase, panic, todo, fault, errors, loads>>
    BY <1>1 DEF vars, swapVars
  <2> QED BY <2>1, SameScript
<1>2. CASE panic = "none" /\ SwapStep /\ UNCHANGED heapVars
  <2>1. ~(CheckBegin \/ TakePage \/ HideFree \/ GivePage \/ SetBegin \/ AccessDone \/ CheckEnd)
    BY DEF CheckBegin, TakePage, HideFree, GivePage, SetBegin, AccessDone, CheckEnd
  <2>2. CASE SetDone
    BY <1>2, <2>2, SetDoneScript
  <2>3. ASSUME NEW v \in VPages, Write(v) PROVE ScriptInv'
    <3>1. phase = "access" /\ errors = 0
      BY <2>3 DEF Write
    <3> QED BY <1>2, <2>3, <3>1, WriteScript
  <2>4. ASSUME NEW v \in VPages, PageFault(v) PROVE ScriptInv'
    <3>1. phase = "access" /\ errors = 0
      BY <2>4 DEF PageFault
    <3> QED BY <1>2, <2>4, <3>1, PageFaultScript
  <2>5. CASE NewPage
    <3>1. /\ phase = "access" /\ errors = 0 /\ fault # 0 /\ fault' = 0
          /\ loads' = Append(loads, fault) /\ todo' = todo
      BY <2>5 DEF NewPage
    <3> QED BY <1>2, <3>1, LoadScript
  <2>6. ASSUME NEW ok \in BOOLEAN, SwapIn(ok) PROVE ScriptInv'
    <3>1. /\ phase = "access" /\ fault # 0 /\ fault' = 0
          /\ loads' = Append(loads, fault) /\ todo' = todo
          /\ errors' = errors \/ errors' = errors + 1
      BY <2>6 DEF SwapIn
    <3>2. errors = 0
      <4>1. errors \in Nat
        BY DEF SwapInv, SwapType
      <4> QED BY <3>1, <4>1
    <3> QED BY <1>2, <3>1, <3>2, LoadScript
  <2>7. CASE SwapOut
    BY <1>2, <2>7, SameScript DEF SwapOut
  <2>8. ~SwapOutFails
    <3>1. errors \in Nat
      BY DEF SwapInv, SwapType
    <3> QED BY <3>1 DEF SwapOutFails
  <2> QED BY <1>2, <2>1, <2>2, <2>3, <2>4, <2>5, <2>6, <2>7, <2>8 DEF SwapStep
<1>3. CASE phase = "done" /\ UNCHANGED swapVars
  BY <1>3 DEF swapVars
<1>4. CASE panic = "none" /\ UNCHANGED <<swapVars, heapVars>>
  <2>1. UNCHANGED <<phase, todo, fault, errors, loads>>
    BY <1>4 DEF swapVars
  <2> QED BY <1>4, <2>1, SameScript
<1> QED BY <1>1, <1>2, <1>3, <1>4, StepKinds

\* No assertion of the check fails, unless the disk has.
LEMMA NextChecked ==
    ASSUME N = 4, PagesInv, SwapInv, ChecksInv, [Next]_vars
    PROVE  panic' = "assert" /\ phase' # "done" => errors' > 0
<1> SUFFICES ASSUME panic' = "assert", phase' # "done" PROVE errors' > 0
  OBVIOUS
<1>1. SetInv /\ ScriptInv /\ (panic = "assert" /\ phase # "done" => errors > 0)
  BY DEF ChecksInv
<1>2. CASE UNCHANGED vars
  <2>1. UNCHANGED <<phase, panic, errors>>
    BY <1>2 DEF vars, swapVars
  <2> QED BY <1>1, <2>1
<1>3. CASE panic = "none" /\ SwapStep /\ UNCHANGED heapVars
  <2>1. ~(CheckBegin \/ TakePage \/ HideFree \/ GivePage \/ AccessDone \/ CheckEnd)
    BY <1>3, CheckBeginPages, TakePagePages, HideFreePages, GivePagePages, AccessDonePages,
       CheckEndPages
  <2>2. ~(SetBegin \/ SetDone)
    BY <1>1, <1>3, SetBeginChecks, SetDoneChecks
  <2>3. ASSUME NEW v \in VPages, Write(v) PROVE errors' > 0
    <3>1. phase \in Accesses /\ errors' = errors
      BY <2>3 DEF Write, Accessing
    <3>2. phase # "set"
      BY <1>1, <1>3, <2>3, WriteSet
    <3>3. phase # "any"
      BY <1>3, <2>3 DEF Write, Assert_
    <3>4. phase = "access"
      BY <3>1, <3>2, <3>3 DEF Accesses
    <3>5. errors # 0
      BY <1>1, <1>3, <2>3, <3>4, WriteScript
    <3>6. errors \in Nat
      BY DEF SwapInv, SwapType
    <3> QED BY <3>1, <3>5, <3>6
  <2>4. ASSUME NEW v \in VPages, PageFault(v) PROVE FALSE
    BY <1>3, <2>4, PageFaultPages
  <2>5. ~(NewPage \/ SwapOut \/ SwapOutFails)
    BY <1>3, NewPagePages, SwapOutPages, SwapOutFailsPages
  <2>6. ASSUME NEW ok \in BOOLEAN, SwapIn(ok) PROVE FALSE
    BY <1>3, <2>6, SwapInPages
  <2> QED BY <1>3, <2>1, <2>2, <2>3, <2>4, <2>5, <2>6 DEF SwapStep
<1>4. CASE phase = "done" /\ UNCHANGED swapVars
  BY <1>4 DEF swapVars
<1>5. CASE panic = "none" /\ panic' = panic
  BY <1>5
<1> QED BY <1>2, <1>3, <1>4, <1>5, StepKinds

LEMMA InitChecks == Init => ChecksInv
<1> SUFFICES ASSUME Init PROVE ChecksInv
  OBVIOUS
<1>1. phase = "boot" /\ check_rp = <<>> /\ panic = "none"
  BY DEF Init, PmmInit, SwapInit
<1>2. Len(<<>>) = 0 /\ 1..0 = {}
  OBVIOUS
<1> QED BY <1>1, <1>2 DEF ChecksInv, RisingInv, SetInv, ScriptInv

\* With the four pages of CHECK_VALID_PHY_PAGE_NUM and the script of
\* _fifo_check_swap, for every memory map and over any history of calls: no
\* assertion fails in check_swap, check_content_set and _fifo_check_swap unless the
\* disk has failed (the page table has the pages in the order they were taken, and
\* the page faults are those the script counts), nor later in default_pmm.c and
\* kmalloc.c but for the one of slob_alloc; alloc_pages stops the kernel only if no
\* page is free.
THEOREM CodeAssertsHold ==
    Spec => [](N = 4 /\ FifoScript = CodeScript => AssertsHold)
<1> DEFINE Checked == N = 4 /\ FifoScript = CodeScript => ChecksInv
<1>1. Init => Checked
  BY InitChecks
<1>2. PagesInv /\ SwapInv /\ Checked /\ [Next]_vars => Checked'
  <2> SUFFICES ASSUME PagesInv, SwapInv, ChecksInv, [Next]_vars, N = 4, FifoScript = CodeScript
               PROVE  ChecksInv'
    OBVIOUS
  <2>1. RisingInv /\ SetInv /\ ScriptInv
    BY DEF ChecksInv
  <2>2. RisingInv' /\ SetInv' /\ ScriptInv'
    BY <2>1, NextRising, NextSet, NextScript
  <2>3. panic' = "assert" /\ phase' # "done" => errors' > 0
    BY NextChecked
  <2> QED BY <2>2, <2>3 DEF ChecksInv
<1>3. StopsLate /\ Checked => (N = 4 /\ FifoScript = CodeScript => AssertsHold)
  BY DEF StopsLate, ChecksInv, AssertsHold
<1> QED BY PagesInvariant, SwapInvariant, AssertsAfterBoot, <1>1, <1>2, <1>3, PTL DEF Spec
=============================================================================
