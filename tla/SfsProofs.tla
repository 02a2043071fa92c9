------------------------------ MODULE SfsProofs -------------------------------
(***************************************************************************)
(* The files of the simple file system: whatever is opened, read, written,  *)
(* sought, closed and shut down, in files of any size on a disk of any      *)
(* size, no block is lost or has two users.                                 *)
(***************************************************************************)
EXTENDS Sfs, FiniteSetTheorems, WellFoundedInduction, TLAPS

-----------------------------------------------------------------------------
(* The invariant.                                                           *)

\* The places of an inode that may name a block: the indexes of the block map, and
\* after them the indirect block itself.
MaxBlocks == SFS_NDIRECT + SFS_BLKSIZE
Slots == 0..MaxBlocks

\* What a place of inode n names on the disk dk, 0 for nothing.
At(n, dk, i) ==
    IF i < SFS_NDIRECT THEN n.direct[i]
    ELSE IF i = MaxBlocks THEN n.indirect
    ELSE IF n.indirect = 0 THEN 0
    ELSE dk[n.indirect][i - SFS_NDIRECT]

MapOf(n, dk) == [i \in Slots |-> At(n, dk, i)]

\* The blocks a map names; it names none that others have, and none twice.
Named(a) == {a[i] : i \in Slots} \ {0}

Apart(a, others) ==
    /\ \A i \in Slots : a[i] # 0 => a[i] \in Blocks \ others
    /\ \A i, j \in Slots : a[i] = a[j] /\ a[i] # 0 => i = j

Holds(n, dk) == Named(MapOf(n, dk))

\* An inode has a block for each index below its number of blocks.
MapExact(n, dk, others) ==
    /\ Apart(MapOf(n, dk), others)
    /\ n.blocks <= MaxBlocks
    /\ \A i \in 0..(n.blocks - 1) : MapOf(n, dk)[i] # 0

\* The number of blocks and the size: a file may have blocks beyond its end, or lack
\* the last one, only after the disk was full.
SizeFits(n, isFull) ==
    /\ n.size \div SFS_BLKSIZE <= n.blocks
    /\ ~isFull => n.blocks = RoundUpDiv(n.size, SFS_BLKSIZE)

\* An inode s that was written to the disk, and n of the same file in memory that is
\* not dirty: only the number of blocks may differ, which blocks++ does not mark.
Alike(s, n) ==
    /\ s \in DiskInodes
    /\ s.size = n.size /\ s.direct = n.direct /\ s.indirect = n.indirect
    /\ s.blocks <= n.blocks

Disks == [Blocks -> [Offsets -> Nat]]

Statuses == {"ok"} \cup Errors \cup Panics

\* The record of a call; nothing is said of what was read.
CallsWith(B) ==
    [free : SUBSET Blocks, unused : Nat, sdirty : BOOLEAN, disk : Disks, din : DiskInodes,
     dirty : BOOLEAN, st : Statuses, full : BOOLEAN, ino : Nat, ent : Nat, alen : Nat, buf : B]

IsCall(w) == w \in CallsWith({w.buf})

\* A call w on a file, in the context c it began in: the blocks of the other files, the
\* disk, the inode and the free map on the disk, and whether the disk has been full.
CallExact(w, c) ==
    /\ IsCall(w)
    /\ c.others \subseteq Blocks
    /\ w.unused = Cardinality(w.free)
    /\ MapExact(w.din, w.disk, c.others)
    /\ w.free = Blocks \ (c.others \cup Holds(w.din, w.disk))
    /\ \A b \in c.others : w.disk[b] = c.disk[b]
    /\ c.full => w.full
    /\ ~w.dirty => Alike(c.store, w.din)
    /\ ~w.sdirty => c.image = [free |-> w.free, unused |-> w.unused]

\* The files together: nodes are their inodes, dk the disk.
OthersOf(nodes, dk, f) == UNION {Holds(nodes[g], dk) : g \in Files \ {f}}

HeldOf(nodes, dk) == UNION {Holds(nodes[g], dk) : g \in Files}

NodesExact(nodes, dk) ==
    \A f \in Files : nodes[f] \in DiskInodes /\ MapExact(nodes[f], dk, OthersOf(nodes, dk, f))

Nodes == [f \in Files |-> Inode(f)]

\* Between the calls.
SfsTypeOK ==
    /\ super \in [free : SUBSET Blocks, unused : Nat, dirty : BOOLEAN]
    /\ disk \in Disks
    /\ store \in [Files -> DiskInodes \cup {OutOfDate}]
    /\ sin \in [Files -> [din : DiskInodes, dirty : BOOLEAN]]
    /\ file \in [Fds -> Files \cup {NoFile}]
    /\ pos \in [Fds -> Nat]
    /\ full \in BOOLEAN
    /\ panic \in {"no"} \cup Panics

SizesInv ==
    \A f \in Files :
        /\ SizeFits(Inode(f), full)
        /\ InCore(f) /\ ~sin[f].dirty => Alike(store[f], sin[f].din)
        /\ store[f] # OutOfDate => SizeFits(store[f], full)

SuperInv ==
    /\ super.free = Blocks \ HeldOf(Nodes, disk)
    /\ super.unused = Cardinality(super.free)
    /\ ~super.dirty => image = [free |-> super.free, unused |-> super.unused]

PanicInv ==
    /\ panic # "inuse"
    /\ panic = "index" => \E d \in Fds : file[d] # NoFile /\ pos[d] > sin[file[d]].din.size
    /\ panic = "size" => full

SfsInv == SfsTypeOK /\ NodesExact(Nodes, disk) /\ SizesInv /\ SuperInv /\ PanicInv

-----------------------------------------------------------------------------
(* Numbers.                                                                 *)

LEMMA Sizes ==
    /\ SFS_BLKSIZE \in Nat /\ SFS_BLKSIZE > 0
    /\ SFS_NDIRECT \in Nat /\ SFS_NDIRECT > 0
    /\ NrBlocks \in Nat /\ NrBlocks > 0
    /\ SFS_MAX_FILE_SIZE \in Nat
    /\ MaxBlocks \in Nat /\ MaxBlocks > SFS_NDIRECT
    /\ 0 \notin Blocks /\ Blocks \subseteq Nat
BY SfsAssumption DEF MaxBlocks, Blocks

LEMMA NatLeast ==
    ASSUME NEW T, T \subseteq Nat, T # {} PROVE \E x \in T : \A y \in T : x <= y
<1>1. PICK x \in T : \A y \in T : ~(<<y, x>> \in OpToRel(<, Nat))
  BY WFMin, NatLessThanWellFounded
<1>2. \A y \in T : <<y, x>> \in OpToRel(<, Nat) <=> y < x
  BY DEF OpToRel
<1>3. \A y \in T : ~(y < x)
  BY <1>1, <1>2, Zenon
<1> QED BY <1>3

LEMMA MinIs ==
    ASSUME NEW T, T \subseteq Nat, T # {} PROVE Min(T) \in T /\ \A y \in T : Min(T) <= y
<1>1. \E x \in T : \A y \in T : x <= y
  BY NatLeast
<1> QED BY <1>1 DEF Min

\* Division by the size of a block: a is in the block with index a \div B.
LEMMA DivIs ==
    ASSUME NEW a \in Nat, NEW B \in Nat, B > 0
    PROVE  /\ a \div B \in Nat /\ a % B \in Nat /\ a % B < B
           /\ a = (a \div B) * B + (a % B)
BY Z3

LEMMA DivUnique ==
    ASSUME NEW a \in Nat, NEW B \in Nat, B > 0, NEW q \in Nat, NEW r \in Nat, r < B, a = q * B + r
    PROVE  a \div B = q /\ a % B = r
<1>1. PICK p \in Nat, s \in Nat : p = a \div B /\ s = a % B /\ s < B /\ a = p * B + s
  BY DivIs
<1>2. ~(p < q)
  <2> SUFFICES ASSUME p < q PROVE FALSE
    OBVIOUS
  <2>1. PICK x \in Nat : q = p + 1 + x
    <3>1. q - p - 1 \in Nat /\ q = p + 1 + (q - p - 1)
      OBVIOUS
    <3> QED BY <3>1
  <2>2. q * B = p * B + B + x * B /\ x * B \in Nat
    BY <2>1
  <2> QED BY <1>1, <2>2
<1>3. ~(q < p)
  <2> SUFFICES ASSUME q < p PROVE FALSE
    OBVIOUS
  <2>1. PICK x \in Nat : p = q + 1 + x
    <3>1. p - q - 1 \in Nat /\ p = q + 1 + (p - q - 1)
      OBVIOUS
    <3> QED BY <3>1
  <2>2. p * B = q * B + B + x * B /\ x * B \in Nat
    BY <2>1
  <2> QED BY <1>1, <2>2
<1> QED BY <1>1, <1>2, <1>3

\* ROUNDUP_DIV: the number of blocks that a words take.
LEMMA RoundUpIs ==
    ASSUME NEW a \in Nat, NEW B \in Nat, B > 0
    PROVE  RoundUpDiv(a, B) = IF a % B = 0 THEN a \div B ELSE a \div B + 1
<1>1. PICK q \in Nat, r \in Nat : q = a \div B /\ r = a % B /\ r < B /\ a = q * B + r
  BY DivIs
<1>2. RoundUpDiv(a, B) = (q * B + r + B - 1) \div B
  BY <1>1 DEF RoundUpDiv
<1>3. CASE r = 0
  <2>1. q * B + r + B - 1 = q * B + (B - 1) /\ q * B \in Nat
    BY <1>3
  <2>2. q * B + r + B - 1 \in Nat /\ B - 1 \in Nat /\ B - 1 < B
    BY <2>1
  <2> QED BY <1>1, <1>2, <1>3, <2>1, <2>2, DivUnique
<1>4. CASE r # 0
  <2>1. q * B + r + B - 1 = (q + 1) * B + (r - 1) /\ q * B \in Nat
    OBVIOUS
  <2>2. q * B + r + B - 1 \in Nat /\ r - 1 \in Nat /\ r - 1 < B
    BY <1>1, <1>4, <2>1
  <2> QED BY <1>1, <1>2, <1>4, <2>1, <2>2, DivUnique
<1> QED BY <1>3, <1>4

-----------------------------------------------------------------------------
(* Blocks.                                                                  *)

LEMMA StatusIs ==
    /\ "ok" \in Statuses /\ "E_NO_MEM" \in Statuses /\ "E_INVAL" \in Statuses
    /\ "index" \in Statuses /\ "range" \in Statuses /\ "size" \in Statuses
BY DEF Statuses, Errors, Panics

LEMMA FreeSets ==
    ASSUME NEW S \in SUBSET Blocks
    PROVE  /\ IsFiniteSet(S) /\ Cardinality(S) \in Nat
           /\ S # {} => Cardinality(S) > 0
           /\ \A b \in S : Cardinality(S \ {b}) = Cardinality(S) - 1
           /\ \A b \in Blocks \ S : Cardinality(S \cup {b}) = Cardinality(S) + 1
<1>1. IsFiniteSet(Blocks)
  BY Sizes, FS_Interval DEF Blocks
<1>2. IsFiniteSet(S)
  BY <1>1, FS_Subset
<1>3. Cardinality(S) \in Nat
  BY <1>2, FS_CardinalityType
<1>4. S # {} => Cardinality(S) > 0
  BY <1>2, <1>3, FS_EmptySet
<1> QED BY <1>2, <1>3, <1>4, FS_RemoveElement, FS_AddElement

\* sfs_block_alloc fails, or takes a free block and clears it.
Allocated(r, w) ==
    /\ IsCall(r) /\ r.unused = Cardinality(r.free)
    /\ r.din = w.din /\ r.dirty = w.dirty /\ r.ent = w.ent /\ r.alen = w.alen
    /\ \/ /\ r.st = "E_NO_MEM" /\ r.full
          /\ r.free = w.free /\ r.unused = w.unused /\ r.sdirty = w.sdirty
          /\ r.disk = w.disk /\ r.ino = w.ino
       \/ /\ r.st = "ok" /\ r.full = w.full /\ r.sdirty
          /\ r.ino \in w.free /\ r.free = w.free \ {r.ino}
          /\ r.disk = [w.disk EXCEPT ![r.ino] = ZeroBlock]

LEMMA AllocIs ==
    ASSUME NEW w, IsCall(w), w.unused = Cardinality(w.free), w.st = "ok"
    PROVE  Allocated(sfs_block_alloc(w), w)
<1>0. PICK r : r = sfs_block_alloc(w)
  OBVIOUS
<1>1. CASE w.free = {}
  <2>1. r = [w EXCEPT !.st = "E_NO_MEM", !.full = TRUE]
    BY <1>0, <1>1 DEF sfs_block_alloc
  <2>2. /\ r.st = "E_NO_MEM" /\ r.full /\ r.free = w.free /\ r.unused = w.unused
        /\ r.sdirty = w.sdirty /\ r.disk = w.disk /\ r.ino = w.ino /\ r.din = w.din
        /\ r.dirty = w.dirty /\ r.ent = w.ent /\ r.alen = w.alen /\ r.buf = w.buf
        /\ r \in CallsWith({w.buf})
    BY <2>1, StatusIs DEF IsCall, CallsWith
  <2> QED BY <1>0, <2>2 DEF IsCall, Allocated
<1>2. CASE w.free # {}
  <2>1. w.free \in SUBSET Blocks /\ w.free \subseteq Nat /\ w.unused \in Nat /\ w.disk \in Disks
    BY Sizes DEF IsCall, CallsWith
  <2>2. PICK b \in w.free : b = Min(w.free)
    BY <1>2, <2>1, MinIs
  <2>3. w.unused > 0 /\ Cardinality(w.free \ {b}) = w.unused - 1
    BY <1>2, <2>1, FreeSets
  <2>4. r = [w EXCEPT !.free = @ \ {b}, !.unused = @ - 1, !.sdirty = TRUE,
                      !.disk[b] = ZeroBlock, !.ino = b]
    BY <1>0, <1>2, <2>2, <2>3 DEF sfs_block_alloc, bitmap_alloc, Assert_, Ok
  <2>5. PICK dk : dk = [w.disk EXCEPT ![b] = ZeroBlock]
    OBVIOUS
  <2>6. dk \in Disks
    BY <2>1, <2>5 DEF Disks, ZeroBlock
  <2>8. PICK u \in Nat, fr \in SUBSET Blocks : u = w.unused - 1 /\ fr = w.free \ {b}
    BY <2>1, <2>3
  <2>7. r = [w EXCEPT !.free = fr, !.unused = u, !.sdirty = TRUE, !.disk = dk, !.ino = b] /\ b \in Nat
    BY <2>1, <2>4, <2>5, <2>8 DEF IsCall, CallsWith
  <2>9. /\ r.st = "ok" /\ r.full = w.full /\ r.free = fr /\ r.unused = u
        /\ r.sdirty = TRUE /\ r.disk = dk /\ r.ino = b /\ r.din = w.din
        /\ r.dirty = w.dirty /\ r.ent = w.ent /\ r.alen = w.alen /\ r.buf = w.buf
    BY <2>7 DEF IsCall, CallsWith
  <2>10. PICK B : B = {w.buf}
    OBVIOUS
  <2>11. w \in CallsWith(B)
    BY <2>10 DEF IsCall
  <2>12. r \in CallsWith(B)
    BY <2>6, <2>7, <2>11 DEF CallsWith
  <2> QED BY <1>0, <2>3, <2>5, <2>8, <2>9, <2>10, <2>12 DEF IsCall, Allocated
<1> QED BY <1>1, <1>2

\* sfs_block_free of a block in use.
Freed(r, w, b) ==
    /\ IsCall(r) /\ r.unused = Cardinality(r.free)
    /\ r.free = w.free \cup {b} /\ r.sdirty /\ r.disk = w.disk
    /\ r.st = w.st /\ r.full = w.full /\ r.din = w.din /\ r.dirty = w.dirty
    /\ r.ino = w.ino /\ r.ent = w.ent /\ r.alen = w.alen

LEMMA FreeIs ==
    ASSUME NEW w, IsCall(w), w.unused = Cardinality(w.free), NEW b \in Blocks \ w.free
    PROVE  Freed(sfs_block_free(w, b), w, b)
<1>0. PICK r : r = sfs_block_free(w, b)
  OBVIOUS
<1>1. w.free \in SUBSET Blocks /\ w.unused \in Nat
  BY DEF IsCall, CallsWith
<1>2. Cardinality(w.free \cup {b}) = w.unused + 1
  BY <1>1, FreeSets
<1>3. r = [w EXCEPT !.free = @ \cup {b}, !.unused = @ + 1, !.sdirty = TRUE]
  BY <1>0 DEF sfs_block_free, sfs_block_inuse, Assert_
<1>a. w.unused + 1 \in Nat /\ w.free \cup {b} \in SUBSET Blocks
  BY <1>1
<1>5. PICK u \in Nat, fr \in SUBSET Blocks : u = w.unused + 1 /\ fr = w.free \cup {b}
  BY <1>a
<1>6. r = [w EXCEPT !.free = fr, !.unused = u, !.sdirty = TRUE]
  BY <1>3, <1>5
<1>4. /\ r.st = w.st /\ r.full = w.full /\ r.free = fr /\ r.unused = u
      /\ r.sdirty = TRUE /\ r.disk = w.disk /\ r.ino = w.ino /\ r.din = w.din
      /\ r.dirty = w.dirty /\ r.ent = w.ent /\ r.alen = w.alen /\ r.buf = w.buf
      /\ r \in CallsWith({w.buf})
  BY <1>6 DEF IsCall, CallsWith
<1> QED BY <1>0, <1>2, <1>4, <1>5 DEF IsCall, Freed

-----------------------------------------------------------------------------
(* The block map of an inode.                                               *)

\* A map with what place k names replaced.
With(a, k, b) == [a EXCEPT ![k] = b]

LEMMA PutIs ==
    ASSUME NEW others, NEW a \in [Slots -> Nat], Apart(a, others), NEW k \in Slots, a[k] = 0,
           NEW b \in Blocks, b \notin others, b \notin Named(a), NEW a2, a2 = With(a, k, b)
    PROVE  /\ a2 \in [Slots -> Nat] /\ Apart(a2, others) /\ Named(a2) = Named(a) \cup {b}
           /\ \A i \in Slots : a[i] # 0 => a2[i] # 0
<1>1. b \in Nat /\ b # 0
  BY Sizes
<1>2. a2 \in [Slots -> Nat] /\ \A i \in Slots : a2[i] = IF i = k THEN b ELSE a[i]
  BY <1>1 DEF With
<1>3. \A i \in Slots : a[i] # b
  BY <1>1 DEF Named
<1>4. Apart(a2, others)
  BY <1>1, <1>2, <1>3 DEF Apart
<1>5. Named(a2) \subseteq Named(a) \cup {b}
  BY <1>2 DEF Named
<1>6. b \in Named(a2)
  BY <1>1, <1>2 DEF Named
<1>7. ASSUME NEW x \in Named(a) PROVE x \in Named(a2)
  <2>1. PICK i \in Slots : x = a[i] /\ x # 0
    BY DEF Named
  <2>2. a2[i] = x
    BY <1>2, <2>1
  <2> QED BY <2>1, <2>2 DEF Named
<1> QED BY <1>1, <1>2, <1>4, <1>5, <1>6, <1>7

LEMMA DropIs ==
    ASSUME NEW others, NEW a \in [Slots -> Nat], Apart(a, others), NEW k \in Slots, a[k] # 0,
           NEW a2, a2 = With(a, k, 0)
    PROVE  /\ a2 \in [Slots -> Nat] /\ Apart(a2, others) /\ Named(a2) = Named(a) \ {a[k]}
           /\ a[k] \in Blocks \ others /\ a[k] \in Named(a)
           /\ \A i \in Slots : i # k => a2[i] = a[i]
<1>2. a2 \in [Slots -> Nat] /\ \A i \in Slots : a2[i] = IF i = k THEN 0 ELSE a[i]
  BY DEF With
<1>3. \A i \in Slots : a[i] = a[k] => i = k
  BY DEF Apart
<1>4. Apart(a2, others)
  BY <1>2 DEF Apart
<1>5. ASSUME NEW x \in Named(a2) PROVE x \in Named(a) \ {a[k]}
  <2>1. PICK i \in Slots : x = a2[i] /\ x # 0
    BY DEF Named
  <2>2. i # k /\ a[i] = x
    BY <1>2, <2>1
  <2> QED BY <1>3, <2>1, <2>2 DEF Named
<1>7. ASSUME NEW x \in Named(a), x # a[k] PROVE x \in Named(a2)
  <2>1. PICK i \in Slots : x = a[i] /\ x # 0
    BY DEF Named
  <2>2. a2[i] = x
    BY <1>2, <1>7, <2>1
  <2> QED BY <2>1, <2>2 DEF Named
<1>8. a[k] \in Blocks \ others /\ a[k] \in Named(a)
  BY DEF Apart, Named
<1> QED BY <1>2, <1>4, <1>5, <1>7, <1>8

LEMMA MapType ==
    ASSUME NEW n \in DiskInodes, NEW dk \in Disks, n.indirect # 0 => n.indirect \in Blocks
    PROVE  /\ MapOf(n, dk) \in [Slots -> Nat]
           /\ \A i \in 0..(SFS_NDIRECT - 1) : MapOf(n, dk)[i] = n.direct[i]
           /\ \A j \in Offsets : MapOf(n, dk)[SFS_NDIRECT + j]
                 = IF n.indirect = 0 THEN 0 ELSE dk[n.indirect][j]
           /\ MapOf(n, dk)[MaxBlocks] = n.indirect
<1>1. n.direct \in [0..(SFS_NDIRECT - 1) -> Nat] /\ n.indirect \in Nat
  BY DEF DiskInodes
<1>2. \A i \in 0..(SFS_NDIRECT - 1) : i \in Slots /\ At(n, dk, i) = n.direct[i] /\ At(n, dk, i) \in Nat
  BY <1>1, Sizes DEF At, Slots
<1>3. ASSUME NEW j \in Offsets
      PROVE  /\ SFS_NDIRECT + j \in Slots
             /\ At(n, dk, SFS_NDIRECT + j) = IF n.indirect = 0 THEN 0 ELSE dk[n.indirect][j]
             /\ At(n, dk, SFS_NDIRECT + j) \in Nat
  <2>1. PICK x : x = SFS_NDIRECT + j
    OBVIOUS
  <2>2. x \in Slots /\ ~(x < SFS_NDIRECT) /\ x # MaxBlocks /\ x - SFS_NDIRECT = j
    BY <2>1, Sizes DEF Offsets, Slots, MaxBlocks
  <2>3. n.indirect # 0 => dk[n.indirect][j] \in Nat
    BY DEF Disks
  <2>4. At(n, dk, x) = IF n.indirect = 0 THEN 0 ELSE dk[n.indirect][j]
    BY <2>2 DEF At
  <2> QED BY <2>1, <2>2, <2>3, <2>4
<1>4. MaxBlocks \in Slots /\ At(n, dk, MaxBlocks) = n.indirect
  BY Sizes DEF At, Slots
<1>5. ASSUME NEW i \in Slots PROVE At(n, dk, i) \in Nat
  <2>1. CASE i < SFS_NDIRECT
    <3>1. i \in 0..(SFS_NDIRECT - 1)
      BY <2>1, Sizes DEF Slots
    <3> QED BY <1>2, <3>1
  <2>2. CASE i = MaxBlocks
    BY <1>1, <1>4, <2>2
  <2>3. CASE ~(i < SFS_NDIRECT) /\ i # MaxBlocks
    <3>1. i - SFS_NDIRECT \in Offsets /\ SFS_NDIRECT + (i - SFS_NDIRECT) = i
      BY <2>3, Sizes DEF Slots, MaxBlocks, Offsets
    <3>2. PICK j \in Offsets : i = SFS_NDIRECT + j
      BY <3>1
    <3> QED BY <1>3, <3>2
  <2> QED BY <2>1, <2>2, <2>3
<1> QED BY <1>2, <1>3, <1>4, <1>5 DEF MapOf

LEMMA SlotCases ==
    ASSUME NEW i \in Slots
    PROVE  \/ i \in 0..(SFS_NDIRECT - 1)
           \/ \E j \in Offsets : i = SFS_NDIRECT + j
           \/ i = MaxBlocks
<1>1. CASE i >= SFS_NDIRECT /\ i # MaxBlocks
  <2>1. i - SFS_NDIRECT \in Offsets /\ SFS_NDIRECT + (i - SFS_NDIRECT) = i
    BY <1>1, Sizes DEF Slots, MaxBlocks, Offsets
  <2> QED BY <2>1
<1>2. CASE i < SFS_NDIRECT \/ i = MaxBlocks
  BY <1>2, Sizes DEF Slots
<1> QED BY <1>1, <1>2, Sizes DEF Slots

LEMMA SlotsApart ==
    /\ \A i \in 0..(SFS_NDIRECT - 1) : i \in Slots /\ i # MaxBlocks
    /\ \A j \in Offsets : SFS_NDIRECT + j \in Slots /\ SFS_NDIRECT + j # MaxBlocks
    /\ \A i \in 0..(SFS_NDIRECT - 1), j \in Offsets : i # SFS_NDIRECT + j
    /\ MaxBlocks \in Slots
BY Sizes DEF Slots, MaxBlocks, Offsets

\* An inode with the same places has the same map.
LEMMA SameMap ==
    ASSUME NEW n \in DiskInodes, NEW dk \in Disks, n.indirect # 0 => n.indirect \in Blocks,
           NEW n2 \in DiskInodes, NEW dk2 \in Disks,
           n2.direct = n.direct, n2.indirect = n.indirect,
           n.indirect # 0 => dk2[n.indirect] = dk[n.indirect]
    PROVE  MapOf(n2, dk2) = MapOf(n, dk)
<1>1. \A i \in Slots : At(n2, dk2, i) = At(n, dk, i)
  BY DEF At
<1> QED BY <1>1 DEF MapOf

\* A direct block, an entry of the indirect block, the indirect block with an entry.
LEMMA PutDirect ==
    ASSUME NEW n \in DiskInodes, NEW dk \in Disks, n.indirect # 0 => n.indirect \in Blocks,
           NEW n2 \in DiskInodes, NEW dk2 \in Disks, NEW k \in 0..(SFS_NDIRECT - 1), NEW b \in Nat,
           n2.direct = [n.direct EXCEPT ![k] = b], n2.indirect = n.indirect,
           n.indirect # 0 => dk2[n.indirect] = dk[n.indirect]
    PROVE  MapOf(n2, dk2) = With(MapOf(n, dk), k, b)
<1>1. PICK a \in [Slots -> Nat] : a = MapOf(n, dk)
  BY MapType
<1>2. PICK a2 \in [Slots -> Nat] : a2 = MapOf(n2, dk2)
  BY MapType
<1>3. n.direct \in [0..(SFS_NDIRECT - 1) -> Nat]
  BY DEF DiskInodes
<1>4. ASSUME NEW i \in Slots PROVE a2[i] = IF i = k THEN b ELSE a[i]
  <2>1. CASE i \in 0..(SFS_NDIRECT - 1)
    <3>1. a[i] = n.direct[i]
      BY <1>1, <2>1, MapType
    <3>2. a2[i] = n2.direct[i]
      <4>1. n2.indirect # 0 => n2.indirect \in Blocks
        OBVIOUS
      <4>2. \A x \in 0..(SFS_NDIRECT - 1) : MapOf(n2, dk2)[x] = n2.direct[x]
        BY <4>1, MapType
      <4> QED BY <1>2, <2>1, <4>2
    <3> QED BY <1>3, <2>1, <3>1, <3>2
  <2>2. ASSUME NEW j \in Offsets, i = SFS_NDIRECT + j PROVE a2[i] = IF i = k THEN b ELSE a[i]
    <3>1. i # k
      BY <2>2, SlotsApart
    <3>2. a[i] = IF n.indirect = 0 THEN 0 ELSE dk[n.indirect][j]
      BY <1>1, <2>2, MapType
    <3>3. a2[i] = IF n.indirect = 0 THEN 0 ELSE dk2[n.indirect][j]
      BY <1>2, <2>2, MapType
    <3> QED BY <3>1, <3>2, <3>3
  <2>3. CASE i = MaxBlocks
    BY <1>1, <1>2, <2>3, MapType, SlotsApart
  <2> QED BY <2>1, <2>2, <2>3, SlotCases
<1>5. a2 = [a EXCEPT ![k] = b]
  BY <1>4
<1> QED BY <1>1, <1>2, <1>5 DEF With

LEMMA PutEntry ==
    ASSUME NEW n \in DiskInodes, NEW dk \in Disks, n.indirect \in Blocks,
           NEW n2 \in DiskInodes, NEW dk2 \in Disks, NEW k \in Offsets, NEW b \in Nat,
           n2.direct = n.direct, n2.indirect = n.indirect,
           dk2[n.indirect] = [dk[n.indirect] EXCEPT ![k] = b]
    PROVE  MapOf(n2, dk2) = With(MapOf(n, dk), SFS_NDIRECT + k, b)
<1>0. n.indirect # 0 /\ dk[n.indirect] \in [Offsets -> Nat]
  BY Sizes DEF Disks
<1>1. PICK a \in [Slots -> Nat] : a = MapOf(n, dk)
  BY MapType
<1>2. PICK a2 \in [Slots -> Nat] : a2 = MapOf(n2, dk2)
  BY MapType
<1>4. ASSUME NEW i \in Slots PROVE a2[i] = IF i = SFS_NDIRECT + k THEN b ELSE a[i]
  <2>1. CASE i \in 0..(SFS_NDIRECT - 1)
    BY <1>1, <1>2, <2>1, MapType, SlotsApart
  <2>2. ASSUME NEW j \in Offsets, i = SFS_NDIRECT + j PROVE a2[i] = IF i = SFS_NDIRECT + k THEN b ELSE a[i]
    <3>1. i = SFS_NDIRECT + k <=> j = k
      BY <2>2, Sizes DEF Offsets
    <3>2. a2[i] = dk2[n.indirect][j] /\ a[i] = dk[n.indirect][j]
      BY <1>0, <1>1, <1>2, <2>2, MapType
    <3> QED BY <1>0, <3>1, <3>2
  <2>3. CASE i = MaxBlocks
    BY <1>1, <1>2, <2>3, MapType, SlotsApart
  <2> QED BY <2>1, <2>2, <2>3, SlotCases
<1>5. a2 = [a EXCEPT ![SFS_NDIRECT + k] = b]
  BY <1>4
<1> QED BY <1>1, <1>2, <1>5 DEF With

LEMMA PutIndirect ==
    ASSUME NEW n \in DiskInodes, NEW dk \in Disks, n.indirect = 0,
           NEW n2 \in DiskInodes, NEW dk2 \in Disks, NEW k \in Offsets, NEW b \in Nat, NEW e \in Blocks,
           n2.direct = n.direct, n2.indirect = e,
           dk2[e] = [ZeroBlock EXCEPT ![k] = b]
    PROVE  MapOf(n2, dk2) = With(With(MapOf(n, dk), MaxBlocks, e), SFS_NDIRECT + k, b)
<1>0. e # 0 /\ e \in Nat
  BY Sizes
<1>1. PICK a \in [Slots -> Nat] : a = MapOf(n, dk)
  BY MapType
<1>2. PICK a2 \in [Slots -> Nat] : a2 = MapOf(n2, dk2)
  BY MapType
<1>3. PICK a1 \in [Slots -> Nat] : a1 = [a EXCEPT ![MaxBlocks] = e]
  BY <1>0
<1>4. ASSUME NEW i \in Slots PROVE a2[i] = IF i = SFS_NDIRECT + k THEN b ELSE a1[i]
  <2>1. CASE i \in 0..(SFS_NDIRECT - 1)
    BY <1>1, <1>2, <1>3, <2>1, MapType, SlotsApart
  <2>2. ASSUME NEW j \in Offsets, i = SFS_NDIRECT + j PROVE a2[i] = IF i = SFS_NDIRECT + k THEN b ELSE a1[i]
    <3>1. i = SFS_NDIRECT + k <=> j = k
      BY <2>2, Sizes DEF Offsets
    <3>a. a2[i] = dk2[e][j]
      <4>1. n2.indirect # 0 /\ n2.indirect \in Blocks
        BY <1>0
      <4>2. \A x \in Offsets : MapOf(n2, dk2)[SFS_NDIRECT + x]
                = IF n2.indirect = 0 THEN 0 ELSE dk2[n2.indirect][x]
        BY <4>1, MapType
      <4>3. MapOf(n2, dk2)[SFS_NDIRECT + j] = dk2[e][j]
        BY <4>1, <4>2
      <4> QED BY <1>2, <2>2, <4>3
    <3>b. a[i] = 0
      BY <1>1, <2>2, MapType
    <3>2. a2[i] = dk2[e][j] /\ a[i] = 0
      BY <3>a, <3>b
    <3>3. a1[i] = 0
      BY <1>3, <2>2, <3>2, SlotsApart
    <3>4. dk2[e][j] = IF j = k THEN b ELSE 0
      BY DEF ZeroBlock
    <3> QED BY <3>1, <3>2, <3>3, <3>4
  <2>3. CASE i = MaxBlocks
    BY <1>0, <1>1, <1>2, <1>3, <2>3, MapType, SlotsApart
  <2> QED BY <2>1, <2>2, <2>3, SlotCases
<1>5. a2 = [a1 EXCEPT ![SFS_NDIRECT + k] = b]
  BY <1>4
<1> QED BY <1>1, <1>2, <1>3, <1>5 DEF With

-----------------------------------------------------------------------------
(* Assignments to the record of a call.                                     *)

WithIno(w, e, x) == [w EXCEPT !.ent = e, !.ino = x]

SetInoIs(r, w, e, x) ==
    /\ IsCall(r) /\ r.ent = e /\ r.ino = x
    /\ r.free = w.free /\ r.unused = w.unused /\ r.sdirty = w.sdirty /\ r.disk = w.disk /\ r.din = w.din
    /\ r.dirty = w.dirty /\ r.st = w.st /\ r.full = w.full /\ r.alen = w.alen

LEMMA SetIno ==
    ASSUME NEW w, IsCall(w), NEW e \in Nat, NEW x \in Nat
    PROVE  SetInoIs(WithIno(w, e, x), w, e, x)
<1>0. PICK r : r = WithIno(w, e, x)
  OBVIOUS
<1>1. PICK B : B = {w.buf}
  OBVIOUS
<1>2. w \in CallsWith(B)
  BY <1>1 DEF IsCall
<1>3. r \in CallsWith(B)
  BY <1>0, <1>2 DEF CallsWith, WithIno
<1>4. /\ r.ent = e /\ r.ino = x /\ r.buf = w.buf
      /\ r.free = w.free /\ r.unused = w.unused /\ r.sdirty = w.sdirty /\ r.disk = w.disk /\ r.din = w.din
      /\ r.dirty = w.dirty /\ r.st = w.st /\ r.full = w.full /\ r.alen = w.alen
  BY <1>0, <1>2 DEF CallsWith, WithIno
<1> QED BY <1>0, <1>1, <1>3, <1>4 DEF IsCall, SetInoIs

WithDin(w, n) == [w EXCEPT !.din = n, !.dirty = TRUE]

SetDinIs(r, w, n) ==
    /\ IsCall(r) /\ r.din = n /\ r.dirty = TRUE
    /\ r.free = w.free /\ r.unused = w.unused /\ r.sdirty = w.sdirty /\ r.disk = w.disk /\ r.st = w.st
    /\ r.full = w.full /\ r.ino = w.ino /\ r.ent = w.ent /\ r.alen = w.alen

LEMMA SetDin ==
    ASSUME NEW w, IsCall(w), NEW n \in DiskInodes
    PROVE  SetDinIs(WithDin(w, n), w, n)
<1>0. PICK r : r = WithDin(w, n)
  OBVIOUS
<1>1. PICK B : B = {w.buf}
  OBVIOUS
<1>2. w \in CallsWith(B)
  BY <1>1 DEF IsCall
<1>3. r \in CallsWith(B)
  BY <1>0, <1>2 DEF CallsWith, WithDin
<1>4. /\ r.din = n /\ r.dirty = TRUE /\ r.buf = w.buf
      /\ r.free = w.free /\ r.unused = w.unused /\ r.sdirty = w.sdirty /\ r.disk = w.disk /\ r.st = w.st
      /\ r.full = w.full /\ r.ino = w.ino /\ r.ent = w.ent /\ r.alen = w.alen
  BY <1>0, <1>2 DEF CallsWith, WithDin
<1> QED BY <1>0, <1>1, <1>3, <1>4 DEF IsCall, SetDinIs

WithBlocks(w, n) == [w EXCEPT !.din = n]

SetBlocksIs(r, w, n) ==
    /\ IsCall(r) /\ r.din = n /\ r.dirty = w.dirty
    /\ r.free = w.free /\ r.unused = w.unused /\ r.sdirty = w.sdirty /\ r.disk = w.disk /\ r.st = w.st
    /\ r.full = w.full /\ r.ino = w.ino /\ r.ent = w.ent /\ r.alen = w.alen

LEMMA SetBlocks ==
    ASSUME NEW w, IsCall(w), NEW n \in DiskInodes
    PROVE  SetBlocksIs(WithBlocks(w, n), w, n)
<1>0. PICK r : r = WithBlocks(w, n)
  OBVIOUS
<1>1. PICK B : B = {w.buf}
  OBVIOUS
<1>2. w \in CallsWith(B)
  BY <1>1 DEF IsCall
<1>3. r \in CallsWith(B)
  BY <1>0, <1>2 DEF CallsWith, WithBlocks
<1>4. /\ r.din = n /\ r.dirty = w.dirty /\ r.buf = w.buf
      /\ r.free = w.free /\ r.unused = w.unused /\ r.sdirty = w.sdirty /\ r.disk = w.disk /\ r.st = w.st
      /\ r.full = w.full /\ r.ino = w.ino /\ r.ent = w.ent /\ r.alen = w.alen
  BY <1>0, <1>2 DEF CallsWith, WithBlocks
<1> QED BY <1>0, <1>1, <1>3, <1>4 DEF IsCall, SetBlocksIs

WithDisk(w, dk) == [w EXCEPT !.disk = dk]

SetDiskIs(r, w, dk) ==
    /\ IsCall(r) /\ r.disk = dk
    /\ r.free = w.free /\ r.unused = w.unused /\ r.sdirty = w.sdirty /\ r.din = w.din /\ r.dirty = w.dirty
    /\ r.st = w.st /\ r.full = w.full /\ r.ino = w.ino /\ r.ent = w.ent /\ r.alen = w.alen

LEMMA SetDisk ==
    ASSUME NEW w, IsCall(w), NEW dk \in Disks
    PROVE  SetDiskIs(WithDisk(w, dk), w, dk)
<1>0. PICK r : r = WithDisk(w, dk)
  OBVIOUS
<1>1. PICK B : B = {w.buf}
  OBVIOUS
<1>2. w \in CallsWith(B)
  BY <1>1 DEF IsCall
<1>3. r \in CallsWith(B)
  BY <1>0, <1>2 DEF CallsWith, WithDisk
<1>4. /\ r.disk = dk /\ r.buf = w.buf
      /\ r.free = w.free /\ r.unused = w.unused /\ r.sdirty = w.sdirty /\ r.din = w.din /\ r.dirty = w.dirty
      /\ r.st = w.st /\ r.full = w.full /\ r.ino = w.ino /\ r.ent = w.ent /\ r.alen = w.alen
  BY <1>0, <1>2 DEF CallsWith, WithDisk
<1> QED BY <1>0, <1>1, <1>3, <1>4 DEF IsCall, SetDiskIs

WithSt(w, s) == [w EXCEPT !.st = s]

SetStIs(r, w, s) ==
    /\ IsCall(r) /\ r.st = s
    /\ r.free = w.free /\ r.unused = w.unused /\ r.sdirty = w.sdirty /\ r.disk = w.disk /\ r.din = w.din
    /\ r.dirty = w.dirty /\ r.full = w.full /\ r.ino = w.ino /\ r.ent = w.ent /\ r.alen = w.alen

LEMMA SetSt ==
    ASSUME NEW w, IsCall(w), NEW s \in Statuses
    PROVE  SetStIs(WithSt(w, s), w, s)
<1>0. PICK r : r = WithSt(w, s)
  OBVIOUS
<1>1. PICK B : B = {w.buf}
  OBVIOUS
<1>2. w \in CallsWith(B)
  BY <1>1 DEF IsCall
<1>3. r \in CallsWith(B)
  BY <1>0, <1>2 DEF CallsWith, WithSt
<1>4. /\ r.st = s /\ r.buf = w.buf
      /\ r.free = w.free /\ r.unused = w.unused /\ r.sdirty = w.sdirty /\ r.disk = w.disk /\ r.din = w.din
      /\ r.dirty = w.dirty /\ r.full = w.full /\ r.ino = w.ino /\ r.ent = w.ent /\ r.alen = w.alen
  BY <1>0, <1>2 DEF CallsWith, WithSt
<1> QED BY <1>0, <1>1, <1>3, <1>4 DEF IsCall, SetStIs

-----------------------------------------------------------------------------
(* What the functions on the block map keep.                                *)

LEMMA CallTypes ==
    ASSUME NEW w, IsCall(w)
    PROVE  /\ w.free \in SUBSET Blocks /\ w.unused \in Nat /\ w.sdirty \in BOOLEAN /\ w.disk \in Disks
           /\ w.din \in DiskInodes /\ w.dirty \in BOOLEAN /\ w.st \in Statuses /\ w.full \in BOOLEAN
           /\ w.ino \in Nat /\ w.ent \in Nat /\ w.alen \in Nat
           /\ w.din.size \in Nat /\ w.din.blocks \in Nat /\ w.din.indirect \in Nat
           /\ w.din.direct \in [0..(SFS_NDIRECT - 1) -> Nat]
<1>1. w \in CallsWith({w.buf})
  BY DEF IsCall
<1>2. /\ w.free \in SUBSET Blocks /\ w.unused \in Nat /\ w.sdirty \in BOOLEAN /\ w.disk \in Disks
      /\ w.din \in DiskInodes /\ w.dirty \in BOOLEAN /\ w.st \in Statuses /\ w.full \in BOOLEAN
      /\ w.ino \in Nat /\ w.ent \in Nat /\ w.alen \in Nat
  BY <1>1 DEF CallsWith
<1> QED BY <1>2 DEF DiskInodes

MapOfCall(w) == MapOf(w.din, w.disk)

LEMMA CallFacts ==
    ASSUME NEW w, NEW c, CallExact(w, c)
    PROVE  /\ IsCall(w) /\ w.unused = Cardinality(w.free)
           /\ MapOfCall(w) \in [Slots -> Nat] /\ Apart(MapOfCall(w), c.others)
           /\ w.din.indirect = MapOfCall(w)[MaxBlocks]
           /\ w.din.indirect # 0 => w.din.indirect \in Blocks /\ w.din.indirect \notin c.others
                                    /\ w.din.indirect \notin w.free
           /\ w.free = Blocks \ (c.others \cup Named(MapOfCall(w)))
           /\ w.din.blocks <= MaxBlocks
           /\ \A i \in 0..(w.din.blocks - 1) : MapOfCall(w)[i] # 0
           /\ \A i \in Slots : MapOfCall(w)[i] # 0 =>
                  /\ MapOfCall(w)[i] \in Blocks /\ MapOfCall(w)[i] \notin c.others
                  /\ MapOfCall(w)[i] \notin w.free
<1>1. IsCall(w) /\ w.unused = Cardinality(w.free)
  BY DEF CallExact
<1>2. /\ Apart(MapOfCall(w), c.others) /\ w.free = Blocks \ (c.others \cup Named(MapOfCall(w)))
      /\ w.din.blocks <= MaxBlocks /\ \A i \in 0..(w.din.blocks - 1) : MapOfCall(w)[i] # 0
  BY DEF CallExact, MapExact, Holds, MapOfCall
<1>3. MapOfCall(w)[MaxBlocks] = w.din.indirect /\ MaxBlocks \in Slots
  <2>1. At(w.din, w.disk, MaxBlocks) = w.din.indirect /\ MaxBlocks \in Slots
    BY Sizes DEF At, Slots
  <2> QED BY <2>1 DEF MapOfCall, MapOf
<1>4. \A i \in Slots : MapOfCall(w)[i] # 0 =>
          /\ MapOfCall(w)[i] \in Blocks /\ MapOfCall(w)[i] \notin c.others
          /\ MapOfCall(w)[i] \notin w.free
  BY <1>2 DEF Apart, Named
<1>5. w.din.indirect # 0 => w.din.indirect \in Blocks
  BY <1>3, <1>4
<1>6. MapOfCall(w) \in [Slots -> Nat]
  BY <1>1, <1>5, CallTypes, MapType DEF MapOfCall
<1> QED BY <1>1, <1>2, <1>3, <1>4, <1>6

\* Only the map, the free blocks, the number of blocks and the inode's mark have changed.
Follows(r, w, c) ==
    /\ IsCall(r) /\ r.unused = Cardinality(r.free)
    /\ Apart(MapOfCall(r), c.others)
    /\ r.free = Blocks \ (c.others \cup Named(MapOfCall(r)))
    /\ r.din.blocks <= MaxBlocks
    /\ \A i \in 0..(r.din.blocks - 1) : MapOfCall(r)[i] # 0
    /\ \A b \in c.others : r.disk[b] = w.disk[b]
    /\ w.full => r.full
    /\ \/ r.dirty
       \/ /\ ~w.dirty /\ r.din.size = w.din.size /\ r.din.direct = w.din.direct
          /\ r.din.indirect = w.din.indirect /\ w.din.blocks <= r.din.blocks
    /\ r.sdirty \/ (~w.sdirty /\ r.free = w.free /\ r.unused = w.unused)

LEMMA StaysExact ==
    ASSUME NEW w, NEW c, CallExact(w, c), NEW r, Follows(r, w, c)
    PROVE  CallExact(r, c)
<1>0. IsCall(r) /\ r.unused = Cardinality(r.free)
  BY DEF Follows
<1>1. MapExact(r.din, r.disk, c.others) /\ r.free = Blocks \ (c.others \cup Holds(r.din, r.disk))
  BY DEF MapExact, Holds, MapOfCall, Follows
<1>2. \A b \in c.others : r.disk[b] = c.disk[b]
  BY DEF CallExact, Follows
<1>3. c.full => r.full
  BY DEF CallExact, Follows
<1>4. ~r.dirty => Alike(c.store, r.din)
  <2> SUFFICES ASSUME ~r.dirty PROVE Alike(c.store, r.din)
    OBVIOUS
  <2>0. /\ ~w.dirty /\ r.din.size = w.din.size /\ r.din.direct = w.din.direct
        /\ r.din.indirect = w.din.indirect /\ w.din.blocks <= r.din.blocks
    BY DEF Follows
  <2>1. Alike(c.store, w.din)
    BY <2>0 DEF CallExact
  <2>2. IsCall(w)
    BY DEF CallExact
  <2>3. c.store.blocks \in Nat /\ c.store.blocks <= w.din.blocks
    BY <2>1 DEF Alike, DiskInodes
  <2>4. c.store.blocks <= r.din.blocks
    BY <1>0, <2>0, <2>2, <2>3, CallTypes
  <2> QED BY <2>0, <2>1, <2>4 DEF Alike
<1>6. c.others \subseteq Blocks
  BY DEF CallExact
<1>5. ~r.sdirty => c.image = [free |-> r.free, unused |-> r.unused]
  BY DEF CallExact, Follows
<1> QED BY <1>0, <1>1, <1>2, <1>3, <1>4, <1>5, <1>6 DEF CallExact

\* What sfs_bmap_get_nolock promises for an index of the map.
Looked(r, w, c, index, create) ==
    /\ CallExact(r, c)
    /\ r.din.size = w.din.size /\ r.din.blocks = w.din.blocks /\ r.alen = w.alen
    /\ \/ /\ r.st = "ok" /\ r.full = w.full
          /\ r.ino = MapOfCall(r)[index]
          /\ create \/ MapOfCall(w)[index] # 0 => r.ino # 0
       \/ create /\ r.st = "E_NO_MEM" /\ r.full

\* The block is there, or none is wanted.
LEMMA LookedUp ==
    ASSUME NEW w, NEW c, CallExact(w, c), w.st = "ok", NEW index \in Slots, NEW create \in BOOLEAN,
           ~create \/ MapOfCall(w)[index] # 0,
           NEW e \in Nat, NEW r, r = WithIno(w, e, MapOfCall(w)[index])
    PROVE  Looked(r, w, c, index, create)
<1>1. /\ IsCall(w) /\ w.unused = Cardinality(w.free)
      /\ MapOfCall(w) \in [Slots -> Nat] /\ Apart(MapOfCall(w), c.others)
      /\ w.free = Blocks \ (c.others \cup Named(MapOfCall(w)))
      /\ w.din.blocks <= MaxBlocks
      /\ \A i \in 0..(w.din.blocks - 1) : MapOfCall(w)[i] # 0
  BY CallFacts
<1>2. PICK x \in Nat : x = MapOfCall(w)[index]
  BY <1>1
<1>3. /\ IsCall(r) /\ r.ino = x /\ r.ent = e
      /\ r.free = w.free /\ r.unused = w.unused /\ r.sdirty = w.sdirty /\ r.disk = w.disk
      /\ r.din = w.din /\ r.dirty = w.dirty /\ r.st = w.st /\ r.full = w.full /\ r.alen = w.alen
  <2>1. r = WithIno(w, e, x)
    BY <1>2
  <2>2. SetInoIs(r, w, e, x)
    BY <1>1, <2>1, SetIno
  <2> QED BY <2>2 DEF SetInoIs
<1>4. MapOfCall(r) = MapOfCall(w)
  BY <1>3 DEF MapOfCall
<1>5. w.dirty \in BOOLEAN /\ w.sdirty \in BOOLEAN /\ w.din.blocks \in Nat
  BY <1>1, CallTypes
<1>6. CallExact(r, c)
  <2>1. /\ r.dirty \/ ~w.dirty
        /\ r.sdirty \/ ~w.sdirty
        /\ w.din.blocks <= r.din.blocks
    BY <1>3, <1>5
  <2>2. Follows(r, w, c)
    BY <1>1, <1>3, <1>4, <2>1 DEF Follows
  <2> QED BY <2>2, StaysExact
<1> QED BY <1>2, <1>3, <1>4, <1>6 DEF Looked

\* sfs_block_alloc has failed.
Refused(r, w) ==
    /\ IsCall(r) /\ r.unused = Cardinality(r.free) /\ r.free = w.free
    /\ r.sdirty \/ (~w.sdirty /\ r.unused = w.unused)
    /\ r.din = w.din /\ r.dirty = w.dirty /\ r.alen = w.alen
    /\ r.st = "E_NO_MEM" /\ r.full
    /\ \A b \in Blocks \ w.free : r.disk[b] = w.disk[b]

LEMMA NoBlock ==
    ASSUME NEW w, NEW c, CallExact(w, c), NEW index \in Slots, NEW r, Refused(r, w)
    PROVE  Looked(r, w, c, index, TRUE)
<1>1. /\ IsCall(w) /\ MapOfCall(w) \in [Slots -> Nat] /\ Apart(MapOfCall(w), c.others)
      /\ w.free = Blocks \ (c.others \cup Named(MapOfCall(w)))
      /\ w.din.indirect # 0 => w.din.indirect \in Blocks \ w.free
      /\ w.din.blocks <= MaxBlocks
      /\ \A i \in 0..(w.din.blocks - 1) : MapOfCall(w)[i] # 0
  BY CallFacts
<1>2. /\ IsCall(r) /\ r.unused = Cardinality(r.free) /\ r.free = w.free
      /\ r.sdirty \/ (~w.sdirty /\ r.unused = w.unused)
      /\ r.din = w.din /\ r.dirty = w.dirty /\ r.alen = w.alen
      /\ r.st = "E_NO_MEM" /\ r.full
      /\ \A b \in Blocks \ w.free : r.disk[b] = w.disk[b]
  BY DEF Refused
<1>3. MapOfCall(r) = MapOfCall(w)
  <2>1. r.disk \in Disks /\ w.disk \in Disks /\ w.din \in DiskInodes
    BY <1>1, <1>2, CallTypes
  <2> QED BY <1>1, <1>2, <2>1, SameMap DEF MapOfCall
<1>4. w.dirty \in BOOLEAN /\ w.din.blocks \in Nat
  BY <1>1, CallTypes
<1>5. \A b \in c.others : r.disk[b] = w.disk[b]
  <2>1. c.others \subseteq Blocks
    BY DEF CallExact
  <2> QED BY <1>1, <1>2, <2>1
<1>6. CallExact(r, c)
  <2>1. Follows(r, w, c)
    BY <1>1, <1>2, <1>3, <1>4, <1>5 DEF Follows
  <2> QED BY <2>1, StaysExact
<1> QED BY <1>2, <1>6 DEF Looked

LEMMA GetDirectIs ==
    ASSUME NEW w, NEW c, CallExact(w, c), w.st = "ok", NEW index \in 0..(SFS_NDIRECT - 1),
           NEW create \in BOOLEAN, NEW r, r = GetDirect(w, index, create)
    PROVE  Looked(r, w, c, index, create)
<1>1. PICK a \in [Slots -> Nat] : a = MapOfCall(w)
  BY CallFacts
<1>2. /\ IsCall(w) /\ w.unused = Cardinality(w.free) /\ Apart(a, c.others)
      /\ w.din.indirect # 0 => w.din.indirect \in Blocks /\ w.din.indirect \notin w.free
      /\ w.free = Blocks \ (c.others \cup Named(a))
      /\ w.din.blocks <= MaxBlocks
      /\ \A i \in 0..(w.din.blocks - 1) : a[i] # 0
  BY <1>1, CallFacts
<1>3. index \in Slots /\ a[index] = w.din.direct[index]
  BY <1>1, <1>2, CallTypes, MapType, SlotsApart DEF MapOfCall
<1>4. CASE w.din.direct[index] # 0 \/ ~create
  <2>1. r = [w EXCEPT !.ino = a[index]]
    BY <1>3, <1>4 DEF GetDirect
  <2>2. PICK e \in Nat : e = w.ent
    BY <1>2, CallTypes
  <2>3. WithIno(w, e, a[index]) = [w EXCEPT !.ino = a[index]]
    BY <1>2, <2>2 DEF IsCall, CallsWith, WithIno
  <2> QED BY <1>1, <1>3, <1>4, <2>1, <2>3, LookedUp
<1>5. CASE w.din.direct[index] = 0 /\ create
  <2>1. PICK v : v = sfs_block_alloc(w)
    OBVIOUS
  <2>2. r = SetDirect(v, index)
    BY <1>5, <2>1 DEF GetDirect
  <2>3. /\ IsCall(v) /\ v.unused = Cardinality(v.free)
        /\ v.din = w.din /\ v.dirty = w.dirty /\ v.ent = w.ent /\ v.alen = w.alen
        /\ \/ /\ v.st = "E_NO_MEM" /\ v.full
              /\ v.free = w.free /\ v.unused = w.unused /\ v.sdirty = w.sdirty
              /\ v.disk = w.disk /\ v.ino = w.ino
           \/ /\ v.st = "ok" /\ v.full = w.full /\ v.sdirty
              /\ v.ino \in w.free /\ v.free = w.free \ {v.ino}
              /\ v.disk = [w.disk EXCEPT ![v.ino] = ZeroBlock]
    <3>1. Allocated(v, w)
      BY <1>2, <2>1, AllocIs
    <3> QED BY <3>1 DEF Allocated
  <2>4. CASE v.st = "E_NO_MEM"
    <3>1. r = v
      BY <2>2, <2>4 DEF SetDirect, Ok
    <3>2. w.sdirty \in BOOLEAN
      BY <1>2, CallTypes
    <3>3. Refused(r, w)
      BY <2>3, <2>4, <3>1, <3>2 DEF Refused
    <3> QED BY <1>3, <1>5, <3>3, NoBlock
  <2>5. CASE v.st = "ok"
    <3>1. PICK b \in Blocks : b = v.ino /\ b \in w.free
      BY <1>2, <2>3, <2>5
    <3>2. /\ v.full = w.full /\ v.sdirty /\ v.free = w.free \ {b}
          /\ v.disk = [w.disk EXCEPT ![b] = ZeroBlock]
      BY <2>3, <2>5, <3>1
    <3>3. b \in Nat /\ b # 0 /\ b \notin c.others /\ b \notin Named(a) /\ b # w.din.indirect
      BY <1>2, <3>1, Sizes
    <3>4. PICK dr : dr = [w.din.direct EXCEPT ![index] = b]
      OBVIOUS
    <3>5. PICK n : n = [w.din EXCEPT !.direct = dr]
      OBVIOUS
    <3>6. w.din \in DiskInodes /\ w.disk \in Disks /\ dr \in [0..(SFS_NDIRECT - 1) -> Nat]
      BY <1>2, <3>3, <3>4, CallTypes
    <3>7. /\ n \in DiskInodes /\ n.direct = dr /\ n.indirect = w.din.indirect
          /\ n.size = w.din.size /\ n.blocks = w.din.blocks
      BY <3>5, <3>6 DEF DiskInodes
    <3>8. r = [v EXCEPT !.din = n, !.dirty = TRUE]
      <4>1. r = [v EXCEPT !.din.direct[index] = v.ino, !.dirty = TRUE]
        BY <2>2, <2>5 DEF SetDirect, Ok
      <4> QED BY <2>3, <3>1, <3>4, <3>5, <4>1
    <3>9. /\ IsCall(r) /\ r.din = n /\ r.dirty = TRUE
          /\ r.free = v.free /\ r.unused = v.unused /\ r.sdirty = v.sdirty /\ r.disk = v.disk
          /\ r.ino = v.ino /\ r.ent = v.ent /\ r.st = v.st /\ r.full = v.full /\ r.alen = v.alen
      <4>1. r = WithDin(v, n)
        BY <3>8 DEF WithDin
      <4>2. SetDinIs(r, v, n)
        BY <2>3, <3>7, <4>1, SetDin
      <4> QED BY <4>2 DEF SetDinIs
    <3>10. v.disk \in Disks /\ (w.din.indirect # 0 => v.disk[w.din.indirect] = w.disk[w.din.indirect])
      <4>1. v.disk \in Disks
        BY <2>3, CallTypes
      <4> QED BY <1>2, <3>2, <3>3, <3>6, <4>1 DEF Disks
    <3>11. PICK a2 : a2 = MapOfCall(r)
      OBVIOUS
    <3>12. a2 = With(a, index, b)
      <4>1. MapOf(n, v.disk) = With(MapOf(w.din, w.disk), index, b)
        BY <1>2, <3>3, <3>4, <3>6, <3>7, <3>10, PutDirect
      <4> QED BY <1>1, <3>9, <3>11, <4>1 DEF MapOfCall
    <3>13. /\ a2 \in [Slots -> Nat] /\ Apart(a2, c.others) /\ Named(a2) = Named(a) \cup {b}
           /\ \A i \in Slots : a[i] # 0 => a2[i] # 0
      BY <1>2, <1>3, <1>5, <3>3, <3>12, PutIs
    <3>14. r.free = Blocks \ (c.others \cup Named(a2))
      BY <1>2, <3>2, <3>9, <3>13
    <3>15. r.din.blocks <= MaxBlocks /\ \A i \in 0..(r.din.blocks - 1) : a2[i] # 0
      <4>1. w.din.blocks \in Nat
        BY <1>2, CallTypes
      <4>2. \A i \in 0..(w.din.blocks - 1) : i \in Slots
        BY <1>2, <4>1, Sizes DEF Slots
      <4> QED BY <1>2, <3>7, <3>9, <3>13, <4>2
    <3>16. \A x \in c.others : r.disk[x] = w.disk[x]
      BY <3>2, <3>3, <3>6, <3>9 DEF Disks
    <3>17. CallExact(r, c)
      <4>1. Follows(r, w, c)
        BY <2>3, <3>2, <3>9, <3>11, <3>13, <3>14, <3>15, <3>16 DEF Follows
      <4> QED BY <4>1, StaysExact
    <3>18. a2[index] = b
      BY <1>3, <3>12 DEF With
    <3> QED BY <2>3, <2>5, <3>1, <3>2, <3>3, <3>7, <3>9, <3>11, <3>17, <3>18 DEF Looked
  <2> QED BY <2>3, <2>4, <2>5
<1> QED BY <1>4, <1>5

\* New blocks nb have been entered in the map.
Placed(r, w, c, index, nb) ==
    /\ IsCall(r) /\ r.unused = Cardinality(r.free) /\ r.free = w.free \ nb
    /\ r.sdirty /\ r.full = w.full /\ r.st = "ok" /\ r.alen = w.alen
    /\ r.din.size = w.din.size /\ r.din.blocks = w.din.blocks
    /\ r.dirty \/ (~w.dirty /\ r.din.direct = w.din.direct /\ r.din.indirect = w.din.indirect)
    /\ Apart(MapOfCall(r), c.others) /\ Named(MapOfCall(r)) = Named(MapOfCall(w)) \cup nb
    /\ \A i \in Slots : MapOfCall(w)[i] # 0 => MapOfCall(r)[i] # 0
    /\ r.ino = MapOfCall(r)[index] /\ r.ino # 0
    /\ \A x \in c.others : r.disk[x] = w.disk[x]

LEMMA PlacedIs ==
    ASSUME NEW w, NEW c, CallExact(w, c), NEW r, NEW index, NEW nb, Placed(r, w, c, index, nb)
    PROVE  Looked(r, w, c, index, TRUE)
<1>1. /\ IsCall(w) /\ w.free = Blocks \ (c.others \cup Named(MapOfCall(w)))
      /\ w.din.blocks <= MaxBlocks
      /\ \A i \in 0..(w.din.blocks - 1) : MapOfCall(w)[i] # 0
  BY CallFacts
<1>2. w.din.blocks \in Nat
  BY <1>1, CallTypes
<1>3. \A i \in 0..(w.din.blocks - 1) : i \in Slots
  BY <1>1, <1>2, Sizes DEF Slots
<1>4. r.free = Blocks \ (c.others \cup Named(MapOfCall(r)))
  BY <1>1 DEF Placed
<1>5. r.din.blocks <= MaxBlocks /\ \A i \in 0..(r.din.blocks - 1) : MapOfCall(r)[i] # 0
  BY <1>1, <1>3 DEF Placed
<1>6. \/ r.dirty
      \/ /\ ~w.dirty /\ r.din.size = w.din.size /\ r.din.direct = w.din.direct
         /\ r.din.indirect = w.din.indirect /\ w.din.blocks <= r.din.blocks
  BY <1>2 DEF Placed
<1>7. Follows(r, w, c)
  BY <1>4, <1>5, <1>6 DEF Follows, Placed
<1>8. CallExact(r, c)
  BY <1>7, StaysExact
<1> QED BY <1>8 DEF Looked, Placed

LEMMA SubBoth ==
    ASSUME NEW w, NEW c, CallExact(w, c), w.st = "ok", NEW j \in Offsets, NEW create \in BOOLEAN,
           ~create \/ MapOfCall(w)[SFS_NDIRECT + j] # 0,
           NEW r, r = SetIndirect(sfs_bmap_get_sub_nolock(w, j, create))
    PROVE  Looked(r, w, c, SFS_NDIRECT + j, create)
<1>1. /\ IsCall(w) /\ MapOfCall(w) \in [Slots -> Nat] /\ w.din.indirect \in Nat
      /\ w.din.indirect # 0 => w.din.indirect \in Blocks
  BY CallFacts, CallTypes
<1>2. PICK x \in Nat : x = MapOfCall(w)[SFS_NDIRECT + j]
  BY <1>1, SlotsApart
<1>3. x = IF w.din.indirect # 0 THEN w.disk[w.din.indirect][j] ELSE 0
  BY <1>1, <1>2, CallTypes, MapType DEF MapOfCall
<1>4. sfs_bmap_get_sub_nolock(w, j, create) = WithIno(w, w.din.indirect, x)
  BY <1>2, <1>3 DEF sfs_bmap_get_sub_nolock, WithIno
<1>5. SetInoIs(WithIno(w, w.din.indirect, x), w, w.din.indirect, x)
  BY <1>1, SetIno
<1>6. r = WithIno(w, w.din.indirect, x)
  BY <1>4, <1>5 DEF SetIndirect, SetInoIs
<1> QED BY <1>1, <1>2, <1>6, LookedUp, SlotsApart

\* There is an indirect block; its entry is missing.
LEMMA SubEntry ==
    ASSUME NEW w, NEW c, CallExact(w, c), w.st = "ok", NEW j \in Offsets,
           MapOfCall(w)[SFS_NDIRECT + j] = 0, w.din.indirect # 0,
           NEW r, r = SetIndirect(sfs_bmap_get_sub_nolock(w, j, TRUE))
    PROVE  Looked(r, w, c, SFS_NDIRECT + j, TRUE)
<1>1. PICK a \in [Slots -> Nat] : a = MapOfCall(w)
  BY CallFacts
<1>2. PICK e \in Blocks : e = w.din.indirect
  BY CallFacts
<1>3. /\ IsCall(w) /\ w.unused = Cardinality(w.free) /\ Apart(a, c.others)
      /\ e \notin w.free /\ e \notin c.others /\ e # 0 /\ e \in Nat
      /\ w.free = Blocks \ (c.others \cup Named(a))
  BY <1>1, <1>2, CallFacts, Sizes
<1>4. /\ w.free \in SUBSET Blocks /\ w.disk \in Disks /\ w.din \in DiskInodes
      /\ w.dirty \in BOOLEAN /\ w.sdirty \in BOOLEAN
  BY <1>3, CallTypes
<1>5. w.disk[e][j] = 0 /\ a[SFS_NDIRECT + j] = 0 /\ SFS_NDIRECT + j \in Slots
  BY <1>1, <1>2, <1>3, <1>4, MapType, SlotsApart DEF MapOfCall
<1>6. PICK u : u = WithIno(w, e, e)
  OBVIOUS
<1>7. /\ IsCall(u) /\ u.ino = e /\ u.ent = e
      /\ u.free = w.free /\ u.unused = w.unused /\ u.sdirty = w.sdirty /\ u.disk = w.disk
      /\ u.din = w.din /\ u.dirty = w.dirty /\ u.st = w.st /\ u.full = w.full /\ u.alen = w.alen
  <2>1. SetInoIs(u, w, e, e)
    BY <1>3, <1>6, SetIno
  <2> QED BY <2>1 DEF SetInoIs
<1>8. PICK v : v = sfs_block_alloc(u)
  OBVIOUS
<1>9. sfs_bmap_get_sub_nolock(w, j, TRUE) = SetEntry(v, j)
  <2>1. PICK u0 : u0 = [w EXCEPT !.ino = e]
    OBVIOUS
  <2>2. sfs_bmap_get_sub_nolock(w, j, TRUE) = AddEntry(u0, j)
    BY <1>2, <1>3, <1>5, <2>1 DEF sfs_bmap_get_sub_nolock
  <2>3. u0.st = "ok" /\ [u0 EXCEPT !.ent = u0.ino] = u
    BY <1>3, <1>6, <2>1 DEF IsCall, CallsWith, WithIno
  <2> QED BY <1>8, <2>2, <2>3 DEF AddEntry, Ok
<1>10. /\ IsCall(v) /\ v.unused = Cardinality(v.free)
       /\ v.din = w.din /\ v.dirty = w.dirty /\ v.ent = e /\ v.alen = w.alen
       /\ \/ /\ v.st = "E_NO_MEM" /\ v.full
             /\ v.free = w.free /\ v.unused = w.unused /\ v.sdirty = w.sdirty
             /\ v.disk = w.disk
          \/ /\ v.st = "ok" /\ v.full = w.full /\ v.sdirty
             /\ v.ino \in w.free /\ v.free = w.free \ {v.ino}
             /\ v.disk = [w.disk EXCEPT ![v.ino] = ZeroBlock]
  <2>1. Allocated(v, u)
    BY <1>3, <1>7, <1>8, AllocIs
  <2> QED BY <1>7, <2>1 DEF Allocated
<1>11. CASE v.st = "E_NO_MEM"
  <2>1. r = v
    BY <1>2, <1>3, <1>9, <1>10, <1>11 DEF SetEntry, SetIndirect, Ok
  <2>2. Refused(r, w)
    BY <1>4, <1>10, <1>11, <2>1 DEF Refused
  <2> QED BY <1>5, <2>2, NoBlock
<1>12. CASE v.st = "ok"
  <2>1. PICK b \in Blocks : b = v.ino /\ b \in w.free
    BY <1>4, <1>10, <1>12
  <2>2. /\ v.full = w.full /\ v.sdirty /\ v.free = w.free \ {b}
        /\ v.disk = [w.disk EXCEPT ![b] = ZeroBlock] /\ v.disk \in Disks
    BY <1>10, <1>12, <2>1, CallTypes
  <2>3. b \in Nat /\ b # 0 /\ b \notin c.others /\ b \notin Named(a) /\ b # e
    BY <1>3, <2>1, Sizes
  <2>4. PICK dk : dk = [v.disk EXCEPT ![e] = [v.disk[e] EXCEPT ![j] = b]]
    OBVIOUS
  <2>5. v.disk[e] = w.disk[e] /\ v.disk[e] \in [Offsets -> Nat]
    BY <1>4, <2>2, <2>3 DEF Disks
  <2>6. dk \in Disks /\ dk[e] = [w.disk[e] EXCEPT ![j] = b]
    BY <2>2, <2>3, <2>4, <2>5 DEF Disks
  <2>7. \A x \in c.others : dk[x] = w.disk[x]
    <3>1. c.others \subseteq Blocks
      BY DEF CallExact
    <3> QED BY <1>3, <1>4, <2>2, <2>3, <2>4, <3>1 DEF Disks
  <2>8. SetEntry(v, j) = WithDisk(v, dk)
    <3>1. SetEntry(v, j) = [v EXCEPT !.disk[v.ent][j] = v.ino]
      BY <1>12 DEF SetEntry, Ok
    <3> QED BY <1>10, <2>1, <2>4, <3>1 DEF WithDisk
  <2>9. PICK x : x = WithDisk(v, dk)
    OBVIOUS
  <2>10. /\ IsCall(x) /\ x.disk = dk
         /\ x.free = v.free /\ x.unused = v.unused /\ x.sdirty = v.sdirty
         /\ x.din = v.din /\ x.dirty = v.dirty
         /\ x.ino = v.ino /\ x.ent = v.ent /\ x.st = v.st /\ x.full = v.full /\ x.alen = v.alen
    <3>1. SetDiskIs(x, v, dk)
      BY <1>10, <2>6, <2>9, SetDisk
    <3> QED BY <3>1 DEF SetDiskIs
  <2>11. r = x
    <3>1. x.ent = x.din.indirect
      BY <1>2, <1>10, <2>10
    <3>2. r = SetIndirect(x)
      BY <1>9, <2>8, <2>9
    <3> QED BY <3>1, <3>2 DEF SetIndirect
  <2>12. PICK a2 : a2 = MapOfCall(r)
    OBVIOUS
  <2>13. a2 = With(a, SFS_NDIRECT + j, b)
    <3>1. MapOf(w.din, dk) = With(MapOf(w.din, w.disk), SFS_NDIRECT + j, b)
      BY <1>2, <1>4, <2>3, <2>6, PutEntry
    <3> QED BY <1>1, <1>10, <2>10, <2>11, <2>12, <3>1 DEF MapOfCall
  <2>14. /\ a2 \in [Slots -> Nat] /\ Apart(a2, c.others) /\ Named(a2) = Named(a) \cup {b}
         /\ \A i \in Slots : a[i] # 0 => a2[i] # 0
    BY <1>3, <1>5, <2>3, <2>13, PutIs
  <2>15. a2[SFS_NDIRECT + j] = b
    BY <1>5, <2>13 DEF With
  <2>16. Placed(r, w, c, SFS_NDIRECT + j, {b})
    <3>1. /\ IsCall(r) /\ r.unused = Cardinality(r.free) /\ r.free = w.free \ {b}
          /\ r.sdirty /\ r.full = w.full /\ r.st = "ok" /\ r.alen = w.alen /\ r.din = w.din
          /\ r.ino = b
      <4>1. IsCall(r) /\ r.alen = w.alen /\ r.din = w.din /\ r.unused = Cardinality(r.free)
        <5>1. IsCall(r) /\ r.alen = v.alen /\ r.din = v.din /\ r.unused = v.unused /\ r.free = v.free
          BY <2>10, <2>11, Zenon
        <5>2. v.alen = w.alen /\ v.din = w.din /\ v.unused = Cardinality(v.free)
          BY <1>10, Zenon
        <5> QED BY <5>1, <5>2, Zenon
      <4>2. r.free = w.free \ {b} /\ r.full = w.full
        BY <2>2, <2>10, <2>11
      <4>3. r.sdirty
        BY <2>2, <2>10, <2>11
      <4>4. r.st = "ok" /\ r.ino = b
        BY <1>12, <2>1, <2>10, <2>11
      <4> QED BY <4>1, <4>2, <4>3, <4>4
    <3>2. r.dirty \/ ~w.dirty
      BY <1>4, <1>10, <2>10, <2>11
    <3>3. \A y \in c.others : r.disk[y] = w.disk[y]
      BY <2>7, <2>10, <2>11
    <3> QED BY <1>1, <2>3, <2>12, <2>14, <2>15, <3>1, <3>2, <3>3 DEF Placed
  <2> QED BY <2>16, PlacedIs
<1> QED BY <1>10, <1>11, <1>12

\* There is no indirect block.
LEMMA SubIndirect ==
    ASSUME NEW w, NEW c, CallExact(w, c), w.st = "ok", NEW j \in Offsets, w.din.indirect = 0,
           NEW r, r = SetIndirect(sfs_bmap_get_sub_nolock(w, j, TRUE))
    PROVE  Looked(r, w, c, SFS_NDIRECT + j, TRUE)
<1>1. PICK a \in [Slots -> Nat] : a = MapOfCall(w)
  BY CallFacts
<1>2. /\ IsCall(w) /\ w.unused = Cardinality(w.free) /\ Apart(a, c.others)
      /\ w.free = Blocks \ (c.others \cup Named(a)) /\ a[MaxBlocks] = 0
  BY <1>1, CallFacts
<1>3. /\ w.free \in SUBSET Blocks /\ w.disk \in Disks /\ w.din \in DiskInodes
      /\ w.dirty \in BOOLEAN /\ w.sdirty \in BOOLEAN
  BY <1>2, CallTypes
<1>4. /\ a[SFS_NDIRECT + j] = 0 /\ SFS_NDIRECT + j \in Slots /\ MaxBlocks \in Slots
      /\ SFS_NDIRECT + j # MaxBlocks
  BY <1>1, <1>3, MapType, SlotsApart DEF MapOfCall
<1>5. PICK v : v = sfs_block_alloc(w)
  OBVIOUS
<1>6. sfs_bmap_get_sub_nolock(w, j, TRUE) = AddEntry(v, j)
  BY <1>5 DEF sfs_bmap_get_sub_nolock
<1>7. /\ IsCall(v) /\ v.unused = Cardinality(v.free)
      /\ v.din = w.din /\ v.dirty = w.dirty /\ v.alen = w.alen
      /\ \/ /\ v.st = "E_NO_MEM" /\ v.full
            /\ v.free = w.free /\ v.unused = w.unused /\ v.sdirty = w.sdirty
            /\ v.disk = w.disk
         \/ /\ v.st = "ok" /\ v.full = w.full /\ v.sdirty
            /\ v.ino \in w.free /\ v.free = w.free \ {v.ino}
            /\ v.disk = [w.disk EXCEPT ![v.ino] = ZeroBlock]
  <2>1. Allocated(v, w)
    BY <1>2, <1>5, AllocIs
  <2> QED BY <2>1 DEF Allocated
<1>8. CASE v.st = "E_NO_MEM"
  <2>1. r = v
    BY <1>6, <1>8 DEF AddEntry, SetIndirect, Ok
  <2>2. Refused(r, w)
    BY <1>3, <1>7, <1>8, <2>1 DEF Refused
  <2> QED BY <1>4, <2>2, NoBlock
<1>9. CASE v.st = "ok"
  <2>1. PICK e \in Blocks : e = v.ino /\ e \in w.free
    BY <1>3, <1>7, <1>9
  <2>2. /\ v.full = w.full /\ v.sdirty /\ v.free = w.free \ {e}
        /\ v.disk = [w.disk EXCEPT ![e] = ZeroBlock] /\ v.disk \in Disks
    BY <1>7, <1>9, <2>1, CallTypes
  <2>3. e \in Nat /\ e # 0 /\ e \notin c.others /\ e \notin Named(a)
    BY <1>2, <2>1, Sizes
  <2>4. PICK u : u = WithIno(v, e, e)
    OBVIOUS
  <2>5. /\ IsCall(u) /\ u.ino = e /\ u.ent = e
        /\ u.free = v.free /\ u.unused = v.unused /\ u.sdirty = v.sdirty /\ u.disk = v.disk
        /\ u.din = v.din /\ u.dirty = v.dirty /\ u.st = v.st /\ u.full = v.full /\ u.alen = v.alen
    <3>1. SetInoIs(u, v, e, e)
      BY <1>7, <2>3, <2>4, SetIno
    <3> QED BY <3>1 DEF SetInoIs
  <2>6. PICK x : x = sfs_block_alloc(u)
    OBVIOUS
  <2>7. AddEntry(v, j) = SetEntry(x, j)
    <3>1. [v EXCEPT !.ent = v.ino] = u
      BY <1>7, <2>1, <2>4 DEF IsCall, CallsWith, WithIno
    <3> QED BY <1>9, <2>6, <3>1 DEF AddEntry, Ok
  <2>8. /\ IsCall(x) /\ x.unused = Cardinality(x.free)
        /\ x.din = w.din /\ x.dirty = w.dirty /\ x.ent = e /\ x.alen = w.alen
        /\ \/ /\ x.st = "E_NO_MEM" /\ x.full
              /\ x.free = v.free /\ x.disk = v.disk
           \/ /\ x.st = "ok" /\ x.full = w.full /\ x.sdirty
              /\ x.ino \in v.free /\ x.free = v.free \ {x.ino}
              /\ x.disk = [v.disk EXCEPT ![x.ino] = ZeroBlock]
    <3>1. u.st = "ok" /\ u.unused = Cardinality(u.free)
      BY <1>7, <1>9, <2>5
    <3>2. Allocated(x, u)
      BY <2>5, <2>6, <3>1, AllocIs
    <3>3. IsCall(x) /\ x.unused = Cardinality(x.free)
      BY <3>2 DEF Allocated
    <3>4. x.din = u.din /\ x.dirty = u.dirty /\ x.ent = u.ent /\ x.alen = u.alen
      BY <3>2, Zenon DEF Allocated
    <3>5. x.din = w.din /\ x.dirty = w.dirty /\ x.ent = e /\ x.alen = w.alen
      BY <1>7, <2>5, <3>4, Zenon
    <3>6. \/ x.st = "E_NO_MEM" /\ x.full /\ x.free = u.free /\ x.disk = u.disk
          \/ /\ x.st = "ok" /\ x.full = u.full /\ x.sdirty
             /\ x.ino \in u.free /\ x.free = u.free \ {x.ino}
             /\ x.disk = [u.disk EXCEPT ![x.ino] = ZeroBlock]
      BY <3>2, Zenon DEF Allocated
    <3>7. u.free = v.free /\ u.disk = v.disk /\ u.full = w.full
      BY <2>2, <2>5, Zenon
    <3> QED BY <3>3, <3>5, <3>6, <3>7, Zenon
  <2>9. CASE x.st = "E_NO_MEM"
    <3>1. PICK y : y = sfs_block_free(x, e)
      OBVIOUS
    <3>2. SetEntry(x, j) = y
      BY <2>8, <2>9, <3>1 DEF SetEntry, Ok
    <3>3. e \in Blocks \ x.free
      BY <2>2, <2>8, <2>9
    <3>4. Freed(y, x, e)
      BY <2>8, <3>1, <3>3, FreeIs
    <3>5. r = y
      BY <1>6, <2>7, <2>9, <3>2, <3>4 DEF SetIndirect, Ok, Freed
    <3>6. y.free = w.free
      BY <2>1, <2>2, <2>8, <2>9, <3>4 DEF Freed
    <3>7. \A b \in Blocks \ w.free : y.disk[b] = w.disk[b]
      BY <1>3, <2>1, <2>2, <2>8, <2>9, <3>4 DEF Freed, Disks
    <3>8. Refused(r, w)
      BY <2>8, <2>9, <3>4, <3>5, <3>6, <3>7 DEF Refused, Freed
    <3> QED BY <1>4, <3>8, NoBlock
  <2>10. CASE x.st = "ok"
    <3>1. PICK b \in Blocks : b = x.ino /\ b \in w.free /\ b # e
      BY <1>3, <2>2, <2>8, <2>10
    <3>2. /\ x.full = w.full /\ x.sdirty /\ x.free = (w.free \ {e}) \ {b}
          /\ x.disk = [v.disk EXCEPT ![b] = ZeroBlock] /\ x.disk \in Disks
      BY <2>2, <2>8, <2>10, <3>1, CallTypes
    <3>3. b \in Nat /\ b # 0 /\ b \notin c.others /\ b \notin Named(a)
      BY <1>2, <3>1, Sizes
    <3>4. x.disk[e] = ZeroBlock /\ ZeroBlock \in [Offsets -> Nat]
      <4>1. v.disk[e] = ZeroBlock
        BY <1>3, <2>2 DEF Disks
      <4>2. x.disk[e] = v.disk[e]
        BY <2>2, <3>1, <3>2 DEF Disks
      <4> QED BY <4>1, <4>2 DEF ZeroBlock
    <3>5. PICK dk : dk = [x.disk EXCEPT ![e] = [x.disk[e] EXCEPT ![j] = b]]
      OBVIOUS
    <3>6. dk \in Disks /\ dk[e] = [ZeroBlock EXCEPT ![j] = b]
      BY <3>2, <3>3, <3>4, <3>5 DEF Disks
    <3>7. \A z \in c.others : dk[z] = w.disk[z]
      <4>1. c.others \subseteq Blocks
        BY DEF CallExact
      <4>2. ASSUME NEW z \in c.others PROVE dk[z] = w.disk[z]
        <5>1. z \in Blocks /\ z # e /\ z # b
          BY <2>3, <3>3, <4>1
        <5>2. dk[z] = x.disk[z]
          BY <3>2, <3>5, <5>1 DEF Disks
        <5>3. x.disk[z] = v.disk[z]
          BY <2>2, <3>2, <5>1 DEF Disks
        <5>4. v.disk[z] = w.disk[z]
          BY <1>3, <2>2, <5>1 DEF Disks
        <5> QED BY <5>2, <5>3, <5>4
      <4> QED BY <4>2
    <3>8. SetEntry(x, j) = WithDisk(x, dk)
      <4>1. SetEntry(x, j) = [x EXCEPT !.disk[x.ent][j] = x.ino]
        BY <2>10 DEF SetEntry, Ok
      <4> QED BY <2>8, <3>1, <3>5, <4>1 DEF WithDisk
    <3>9. PICK y : y = WithDisk(x, dk)
      OBVIOUS
    <3>10. /\ IsCall(y) /\ y.disk = dk
           /\ y.free = x.free /\ y.unused = x.unused /\ y.sdirty = x.sdirty
           /\ y.din = x.din /\ y.dirty = x.dirty
           /\ y.ino = x.ino /\ y.ent = x.ent /\ y.st = x.st /\ y.full = x.full /\ y.alen = x.alen
      <4>1. SetDiskIs(y, x, dk)
        BY <2>8, <3>6, <3>9, SetDisk
      <4> QED BY <4>1 DEF SetDiskIs
    <3>11. PICK n : n = [w.din EXCEPT !.indirect = e]
      OBVIOUS
    <3>12. /\ n \in DiskInodes /\ n.direct = w.din.direct /\ n.indirect = e
           /\ n.size = w.din.size /\ n.blocks = w.din.blocks
      BY <1>3, <2>3, <3>11 DEF DiskInodes
    <3>13. r = WithDin(y, n)
      <4>1. r = SetIndirect(y)
        BY <1>6, <2>7, <3>8, <3>9
      <4>2. y.st = "ok" /\ y.ent = e /\ y.din = w.din
        BY <2>8, <2>10, <3>10
      <4>3. SetIndirect(y) = Assert_([y EXCEPT !.din.indirect = y.ent, !.dirty = TRUE],
                                     y.din.indirect = 0, "inuse")
        BY <2>3, <4>2 DEF SetIndirect, Ok
      <4>4. SetIndirect(y) = [y EXCEPT !.din.indirect = y.ent, !.dirty = TRUE]
        BY <4>2, <4>3 DEF Assert_
      <4> QED BY <3>11, <4>1, <4>2, <4>4 DEF WithDin
    <3>14. /\ IsCall(r) /\ r.din = n /\ r.dirty = TRUE
           /\ r.free = y.free /\ r.unused = y.unused /\ r.sdirty = y.sdirty /\ r.disk = y.disk
           /\ r.ino = y.ino /\ r.ent = y.ent /\ r.st = y.st /\ r.full = y.full /\ r.alen = y.alen
      <4>1. SetDinIs(r, y, n)
        BY <3>10, <3>12, <3>13, SetDin
      <4> QED BY <4>1 DEF SetDinIs
    <3>15. PICK a1 : a1 = With(a, MaxBlocks, e)
      OBVIOUS
    <3>16. PICK a2 : a2 = MapOfCall(r)
      OBVIOUS
    <3>17. a2 = With(a1, SFS_NDIRECT + j, b)
      <4>1. MapOf(n, dk) = With(With(MapOf(w.din, w.disk), MaxBlocks, e), SFS_NDIRECT + j, b)
        BY <1>3, <3>3, <3>6, <3>12, PutIndirect
      <4> QED BY <1>1, <3>10, <3>14, <3>15, <3>16, <4>1 DEF MapOfCall
    <3>18. /\ a1 \in [Slots -> Nat] /\ Apart(a1, c.others) /\ Named(a1) = Named(a) \cup {e}
           /\ \A i \in Slots : a[i] # 0 => a1[i] # 0
      BY <1>2, <1>4, <2>3, <3>15, PutIs
    <3>19. a1[SFS_NDIRECT + j] = 0
      BY <1>4, <3>15 DEF With
    <3>20. b \notin Named(a1)
      BY <3>1, <3>3, <3>18
    <3>21. /\ a2 \in [Slots -> Nat] /\ Apart(a2, c.others) /\ Named(a2) = Named(a1) \cup {b}
           /\ \A i \in Slots : a1[i] # 0 => a2[i] # 0
      BY <1>4, <3>3, <3>17, <3>18, <3>19, <3>20, PutIs
    <3>22. a2[SFS_NDIRECT + j] = b
      BY <1>4, <3>17, <3>18 DEF With
    <3>23. PICK nb : nb = {e, b}
      OBVIOUS
    <3>24. /\ Named(a2) = Named(a) \cup nb
           /\ \A i \in Slots : a[i] # 0 => a2[i] # 0
           /\ r.free = w.free \ nb
      BY <3>2, <3>10, <3>14, <3>18, <3>21, <3>23
    <3>25. Placed(r, w, c, SFS_NDIRECT + j, nb)
      <4>0. r.sdirty
        BY <3>2, <3>10, <3>14, Zenon
      <4>2. r.unused = Cardinality(r.free)
        BY <2>8, <3>10, <3>14
      <4>1. /\ r.full = w.full /\ r.st = "ok" /\ r.alen = w.alen
            /\ r.ino = b /\ r.disk = dk
        <5>1. r.full = x.full /\ r.st = x.st /\ r.alen = x.alen /\ r.ino = x.ino /\ r.disk = dk
          BY <3>10, <3>14, Zenon
        <5>2. x.alen = w.alen
          BY <2>8, Zenon
        <5>3. x.full = w.full
          BY <3>2, Zenon
        <5> QED BY <2>10, <3>1, <5>1, <5>2, <5>3, Zenon
      <4> QED BY <4>0, <4>2, <1>1, <3>3, <3>7, <3>12, <3>14, <3>16, <3>21, <3>22, <3>24, <4>1 DEF Placed
    <3> QED BY <3>25, PlacedIs
  <2> QED BY <2>8, <2>9, <2>10
<1> QED BY <1>7, <1>8, <1>9

LEMMA LookedInuse ==
    ASSUME NEW w, NEW c, NEW index \in Slots, NEW create \in BOOLEAN, NEW r,
           Looked(r, w, c, index, create)
    PROVE  AssertInuse(r, TRUE) = r /\ (r.ino # 0 => AssertInuse(r, FALSE) = r)
<1>1. CASE r.st # "ok"
  BY <1>1 DEF AssertInuse, Assert_, Ok
<1>2. CASE r.st = "ok"
  <2>1. r.ino = MapOfCall(r)[index] /\ CallExact(r, c)
    BY <1>2 DEF Looked
  <2>2. r.ino # 0 => r.ino \in Blocks /\ r.ino \notin r.free
    BY <2>1, CallFacts
  <2> QED BY <2>2 DEF AssertInuse, Assert_, sfs_block_inuse
<1> QED BY <1>1, <1>2

\* sfs_bmap_get_nolock: beyond the indirect block it panics; else the block is found, or
\* made, or there is none left.
LEMMA GetIs ==
    ASSUME NEW w, NEW c, CallExact(w, c), w.st = "ok", NEW index \in Nat, NEW create \in BOOLEAN,
           NEW r, r = sfs_bmap_get_nolock(w, index, create)
    PROVE  \/ index >= MaxBlocks /\ IsCall(r) /\ r.st = "range"
           \/ index < MaxBlocks /\ Looked(r, w, c, index, create)
<1>1. IsCall(w)
  BY CallFacts
<1>2. CASE index < SFS_NDIRECT
  <2>1. PICK v : v = GetDirect(w, index, create)
    OBVIOUS
  <2>2. index \in 0..(SFS_NDIRECT - 1) /\ index < MaxBlocks /\ index \in Slots
    BY <1>2, Sizes DEF Slots
  <2>3. Looked(v, w, c, index, create)
    BY <2>1, <2>2, GetDirectIs
  <2>4. r = AssertInuse(v, TRUE)
    <3>1. index \notin SFS_NDIRECT..(SFS_NDIRECT + SFS_BLKSIZE - 1)
      BY <1>2, Sizes
    <3> QED BY <1>2, <2>1, <3>1 DEF sfs_bmap_get_nolock
  <2>5. r = v
    BY <2>2, <2>3, <2>4, LookedInuse
  <2> QED BY <2>2, <2>3, <2>5
<1>3. CASE index >= SFS_NDIRECT /\ index < MaxBlocks
  <2>1. PICK j \in Offsets : j = index - SFS_NDIRECT /\ index = SFS_NDIRECT + j
    <3>1. index - SFS_NDIRECT \in Offsets /\ index = SFS_NDIRECT + (index - SFS_NDIRECT)
      BY <1>3, Sizes DEF Offsets, MaxBlocks
    <3> QED BY <3>1
  <2>2. ~(index < SFS_NDIRECT) /\ index \in SFS_NDIRECT..(SFS_NDIRECT + SFS_BLKSIZE - 1)
    BY <1>3, Sizes DEF MaxBlocks
  <2>3. PICK v : v = SetIndirect(sfs_bmap_get_sub_nolock(w, j, create))
    OBVIOUS
  <2>4. r = AssertInuse(v, TRUE)
    BY <2>1, <2>2, <2>3 DEF sfs_bmap_get_nolock
  <2>5. Looked(v, w, c, index, create)
    <3>1. CASE ~create \/ MapOfCall(w)[SFS_NDIRECT + j] # 0
      BY <2>1, <2>3, <3>1, SubBoth
    <3>2. CASE create /\ MapOfCall(w)[SFS_NDIRECT + j] = 0
      <4>1. v = SetIndirect(sfs_bmap_get_sub_nolock(w, j, TRUE))
        BY <2>3, <3>2
      <4>2. Looked(v, w, c, SFS_NDIRECT + j, TRUE)
        <5>1. CASE w.din.indirect = 0
          BY <4>1, <5>1, SubIndirect
        <5>2. CASE w.din.indirect # 0
          BY <3>2, <4>1, <5>2, SubEntry
        <5> QED BY <5>1, <5>2
      <4> QED BY <2>1, <3>2, <4>2
    <3> QED BY <3>1, <3>2
  <2>6. index \in Slots
    BY <1>3, Sizes DEF Slots
  <2>7. r = v
    BY <2>4, <2>5, <2>6, LookedInuse
  <2> QED BY <1>3, <2>5, <2>7
<1>4. CASE index >= MaxBlocks
  <2>1. ~(index < SFS_NDIRECT) /\ index \notin SFS_NDIRECT..(SFS_NDIRECT + SFS_BLKSIZE - 1)
    BY <1>4, Sizes DEF MaxBlocks
  <2>2. PICK v, s : v = [w EXCEPT !.st = "range"] /\ v = WithSt(w, s) /\ s = "range"
    BY DEF WithSt
  <2>3. r = AssertInuse(v, TRUE)
    BY <2>1, <2>2 DEF sfs_bmap_get_nolock
  <2>4. v.st = "range" /\ IsCall(v)
    <3>1. s \in Statuses
      BY <2>2, StatusIs
    <3>2. SetStIs(v, w, s)
      BY <1>1, <2>2, <3>1, SetSt
    <3> QED BY <2>2, <3>2 DEF SetStIs
  <2>5. r = v
    BY <2>3, <2>4 DEF AssertInuse, Assert_, Ok
  <2> QED BY <1>4, <2>4, <2>5
<1> QED BY <1>2, <1>3, <1>4, Sizes

\* sfs_bmap_load_nolock: the index is too large, or the file has the block, the last one a
\* new one, or there is none left for it.
Loaded(r, w, c, index) ==
    \/ IsCall(r) /\ r.st = "index" /\ index > w.din.blocks
    \/ IsCall(r) /\ r.st = "range"
    \/ /\ CallExact(r, c) /\ index < MaxBlocks /\ index <= w.din.blocks
       /\ r.din.size = w.din.size /\ r.alen = w.alen
       /\ \/ /\ r.st = "ok" /\ r.full = w.full
             /\ r.ino = MapOfCall(r)[index] /\ r.ino # 0
             /\ r.din.blocks = IF index = w.din.blocks THEN index + 1 ELSE w.din.blocks
          \/ /\ r.st = "E_NO_MEM" /\ r.full
             /\ index = w.din.blocks /\ r.din.blocks = w.din.blocks

LEMMA LoadIs ==
    ASSUME NEW w, NEW c, CallExact(w, c), w.st = "ok", NEW index \in Nat,
           NEW r, r = sfs_bmap_load_nolock(w, index)
    PROVE  Loaded(r, w, c, index)
<1>1. IsCall(w) /\ w.din.blocks \in Nat /\ w.din.blocks <= MaxBlocks
  BY CallFacts, CallTypes
<1>2. CASE index > w.din.blocks
  <2>1. PICK s : r = WithSt(w, s) /\ s = "index"
    BY <1>2 DEF sfs_bmap_load_nolock, WithSt
  <2>2. r.st = "index" /\ IsCall(r)
    <3>1. s \in Statuses
      BY <2>1, StatusIs
    <3>2. SetStIs(r, w, s)
      BY <1>1, <2>1, <3>1, SetSt
    <3> QED BY <2>1, <3>2 DEF SetStIs
  <2> QED BY <1>2, <2>2 DEF Loaded
<1>3. CASE ~(index > w.din.blocks)
  <2>1. PICK create \in BOOLEAN : create <=> index = w.din.blocks
    OBVIOUS
  <2>2. PICK v : v = sfs_bmap_get_nolock(w, index, create)
    OBVIOUS
  <2>3. r = CountBlock(AssertInuse(v, FALSE), create)
    BY <1>3, <2>1, <2>2 DEF sfs_bmap_load_nolock
  <2>4. \/ index >= MaxBlocks /\ IsCall(v) /\ v.st = "range"
        \/ index < MaxBlocks /\ Looked(v, w, c, index, create)
    BY <2>2, GetIs
  <2>5. CASE IsCall(v) /\ v.st = "range"
    <3>1. r = v
      BY <2>3, <2>5 DEF AssertInuse, Assert_, Ok, CountBlock
    <3> QED BY <2>5, <3>1 DEF Loaded
  <2>6. CASE index < MaxBlocks /\ Looked(v, w, c, index, create)
    <3>1. index \in Slots /\ index <= w.din.blocks
      BY <1>1, <1>3, <2>6, Sizes DEF Slots
    <3>2. CASE v.st = "E_NO_MEM"
      <4>1. r = v
        BY <2>3, <3>2 DEF AssertInuse, Assert_, Ok, CountBlock
      <4> QED BY <1>1, <2>1, <2>6, <3>1, <3>2, <4>1 DEF Loaded, Looked
    <3>3. CASE v.st = "ok"
      <4>1. /\ CallExact(v, c) /\ v.din.size = w.din.size /\ v.din.blocks = w.din.blocks
            /\ v.alen = w.alen /\ v.full = w.full /\ v.ino = MapOfCall(v)[index]
            /\ (create \/ MapOfCall(w)[index] # 0) => v.ino # 0
        BY <2>6, <3>3 DEF Looked
      <4>2. v.ino # 0
        <5>1. CASE create
          BY <4>1, <5>1
        <5>2. CASE ~create
          <6>1. index \in 0..(w.din.blocks - 1)
            BY <1>1, <2>1, <3>1, <5>2
          <6>2. MapOfCall(w)[index] # 0
            BY <6>1, CallFacts
          <6> QED BY <4>1, <6>2
        <5> QED BY <5>1, <5>2
      <4>3. r = CountBlock(v, create)
        BY <2>3, <2>6, <3>1, <4>2, LookedInuse
      <4>4. CASE ~create
        <5>1. r = v
          BY <4>3, <4>4 DEF CountBlock
        <5> QED BY <2>1, <2>6, <3>1, <3>3, <4>1, <4>2, <4>4, <5>1 DEF Loaded
      <4>5. CASE create
        <5>1. PICK n : n = [v.din EXCEPT !.blocks = w.din.blocks + 1]
          OBVIOUS
        <5>2. v.din \in DiskInodes /\ IsCall(v) /\ v.disk \in Disks /\ v.dirty \in BOOLEAN /\ v.sdirty \in BOOLEAN
          BY <4>1, CallFacts, CallTypes
        <5>3. /\ n \in DiskInodes /\ n.size = v.din.size /\ n.direct = v.din.direct
              /\ n.indirect = v.din.indirect /\ n.blocks = w.din.blocks + 1
          BY <1>1, <5>1, <5>2 DEF DiskInodes
        <5>4. r = WithBlocks(v, n)
          BY <3>3, <4>1, <4>3, <4>5, <5>1 DEF CountBlock, Ok, WithBlocks
        <5>5. /\ IsCall(r) /\ r.din = n /\ r.dirty = v.dirty
              /\ r.free = v.free /\ r.unused = v.unused /\ r.sdirty = v.sdirty /\ r.disk = v.disk
              /\ r.ino = v.ino /\ r.st = v.st /\ r.full = v.full /\ r.alen = v.alen
          <6>1. SetBlocksIs(r, v, n)
            BY <5>2, <5>3, <5>4, SetBlocks
          <6> QED BY <6>1 DEF SetBlocksIs
        <5>6. MapOfCall(r) = MapOfCall(v)
          <6>1. v.din.indirect # 0 => v.din.indirect \in Blocks
            BY <4>1, CallFacts
          <6>2. MapOf(n, v.disk) = MapOf(v.din, v.disk)
            BY <5>2, <5>3, <6>1, SameMap
          <6> QED BY <5>5, <6>2 DEF MapOfCall
        <5>7. /\ v.unused = Cardinality(v.free) /\ Apart(MapOfCall(v), c.others)
              /\ v.free = Blocks \ (c.others \cup Named(MapOfCall(v)))
              /\ \A i \in 0..(w.din.blocks - 1) : MapOfCall(v)[i] # 0
          BY <4>1, CallFacts
        <5>8. r.din.blocks = index + 1 /\ index = w.din.blocks
          BY <2>1, <4>5, <5>3, <5>5
        <5>9. r.din.blocks <= MaxBlocks /\ \A i \in 0..(r.din.blocks - 1) : MapOfCall(r)[i] # 0
          <6>1. r.din.blocks <= MaxBlocks
            BY <2>6, <5>8, Sizes
          <6>2. ASSUME NEW i \in 0..(r.din.blocks - 1) PROVE MapOfCall(r)[i] # 0
            <7>1. i = index \/ i \in 0..(w.din.blocks - 1)
              BY <1>1, <5>8
            <7> QED BY <4>1, <4>2, <5>6, <5>7, <7>1
          <6> QED BY <6>1, <6>2
        <5>10. /\ r.dirty \/ ~v.dirty
               /\ r.sdirty \/ ~v.sdirty
               /\ v.din.blocks <= r.din.blocks
          BY <1>1, <4>1, <5>2, <5>5, <5>8
        <5>11. Follows(r, v, c)
          BY <5>3, <5>5, <5>6, <5>7, <5>9, <5>10 DEF Follows
        <5>12. CallExact(r, c)
          BY <4>1, <5>11, StaysExact
        <5> QED BY <2>6, <3>1, <3>3, <4>1, <4>2, <5>3, <5>5, <5>6, <5>8, <5>12 DEF Loaded
      <4> QED BY <4>4, <4>5
    <3> QED BY <2>6, <3>2, <3>3 DEF Looked
  <2> QED BY <2>4, <2>5, <2>6
<1> QED BY <1>2, <1>3

-----------------------------------------------------------------------------
(* Resizing.                                                                *)

\* sfs_bmap_truncate_nolock of a file with blocks.
Dropped(r, w, c) ==
    /\ CallExact(r, c) /\ r.st = "ok" /\ r.dirty /\ r.full = w.full
    /\ r.din.size = w.din.size /\ r.din.blocks = w.din.blocks - 1

\* The map without the last block, which is free now.
LEMMA DropFollows ==
    ASSUME NEW w, NEW c, CallExact(w, c), w.din.blocks > 0,
           NEW r, IsCall(r), r.unused = Cardinality(r.free), r.st = "ok", r.dirty, r.sdirty,
           r.full = w.full, r.din.size = w.din.size, r.din.blocks = w.din.blocks - 1,
           MapOfCall(r) = With(MapOfCall(w), w.din.blocks - 1, 0),
           r.free = w.free \cup {MapOfCall(w)[w.din.blocks - 1]},
           \A x \in c.others : r.disk[x] = w.disk[x]
    PROVE  Dropped(r, w, c)
<1>1. PICK a \in [Slots -> Nat] : a = MapOfCall(w)
  BY CallFacts
<1>2. /\ IsCall(w) /\ Apart(a, c.others) /\ w.free = Blocks \ (c.others \cup Named(a))
      /\ w.din.blocks <= MaxBlocks /\ \A i \in 0..(w.din.blocks - 1) : a[i] # 0
  BY <1>1, CallFacts
<1>3. w.din.blocks \in Nat
  BY <1>2, CallTypes
<1>4. PICK k \in 0..(w.din.blocks - 1) : k = w.din.blocks - 1 /\ k \in Slots /\ k \in Nat
  BY <1>2, <1>3, Sizes DEF Slots
<1>5. PICK a2 : a2 = MapOfCall(r)
  OBVIOUS
<1>6. a2 = With(a, k, 0) /\ a[k] # 0 /\ r.free = w.free \cup {a[k]}
  BY <1>1, <1>2, <1>4, <1>5
<1>7. /\ a2 \in [Slots -> Nat] /\ Apart(a2, c.others) /\ Named(a2) = Named(a) \ {a[k]}
      /\ a[k] \in Blocks \ c.others /\ a[k] \in Named(a)
      /\ \A i \in Slots : i # k => a2[i] = a[i]
  BY <1>2, <1>4, <1>6, DropIs
<1>8. r.free = Blocks \ (c.others \cup Named(a2))
  BY <1>2, <1>6, <1>7
<1>9. r.din.blocks <= MaxBlocks /\ \A i \in 0..(r.din.blocks - 1) : a2[i] # 0
  <2>1. r.din.blocks <= MaxBlocks
    BY <1>2, <1>3, Sizes
  <2>2. ASSUME NEW i \in 0..(r.din.blocks - 1) PROVE a2[i] # 0
    <3>1. i \in 0..(w.din.blocks - 1) /\ i # k /\ i \in Slots
      <4>1. PICK B \in Nat : B = w.din.blocks /\ B <= MaxBlocks
        BY <1>2, <1>3
      <4>2. i \in 0..(B - 2)
        BY <4>1
      <4>3. i \in 0..(B - 1) /\ i # B - 1
        BY <4>2
      <4>4. i \in Slots
        BY <4>1, <4>2, Sizes DEF Slots
      <4> QED BY <1>4, <4>1, <4>3, <4>4
    <3> QED BY <1>2, <1>7, <3>1
  <2> QED BY <2>1, <2>2
<1>10. w.full => r.full
  OBVIOUS
<1>11. Follows(r, w, c)
  BY <1>5, <1>7, <1>8, <1>9, <1>10 DEF Follows
<1>12. CallExact(r, c)
  BY <1>11, StaysExact
<1> QED BY <1>12 DEF Dropped

LEMMA TruncateIs ==
    ASSUME NEW w, NEW c, CallExact(w, c), w.st = "ok", w.din.blocks > 0,
           NEW r, r = sfs_bmap_truncate_nolock(w)
    PROVE  Dropped(r, w, c)
<1>1. PICK a \in [Slots -> Nat] : a = MapOfCall(w)
  BY CallFacts
<1>2. /\ IsCall(w) /\ w.unused = Cardinality(w.free)
      /\ w.din.blocks <= MaxBlocks /\ \A i \in 0..(w.din.blocks - 1) : a[i] # 0
      /\ \A i \in Slots : a[i] # 0 => a[i] \in Blocks \ w.free /\ a[i] \notin c.others
      /\ w.din.indirect # 0 => w.din.indirect \in Blocks /\ w.din.indirect \notin c.others
  BY <1>1, CallFacts
<1>3. w.din.blocks \in Nat /\ w.din \in DiskInodes /\ w.disk \in Disks /\ w.dirty \in BOOLEAN
  BY <1>2, CallTypes
<1>4. PICK k \in 0..(w.din.blocks - 1) : k = w.din.blocks - 1 /\ k \in Slots /\ k \in Nat /\ k < MaxBlocks
  BY <1>2, <1>3, Sizes DEF Slots
<1>5. PICK b \in Blocks \ w.free : b = a[k] /\ b # 0
  BY <1>2, <1>4
<1>6. PICK v : v = sfs_bmap_free_nolock(w, k)
  OBVIOUS
<1>7. r = DropBlock(v)
  BY <1>4, <1>6 DEF sfs_bmap_truncate_nolock
<1>8. PICK u : u = sfs_block_free(w, b)
  OBVIOUS
<1>9. /\ IsCall(u) /\ u.unused = Cardinality(u.free)
      /\ u.free = w.free \cup {b} /\ u.sdirty /\ u.disk = w.disk
      /\ u.st = "ok" /\ u.full = w.full /\ u.din = w.din /\ u.dirty = w.dirty
  <2>1. Freed(u, w, b)
    BY <1>2, <1>8, FreeIs
  <2> QED BY <2>1 DEF Freed
<1>10. CASE k < SFS_NDIRECT
  <2>1. k \in 0..(SFS_NDIRECT - 1) /\ a[k] = w.din.direct[k]
    <3>1. k \in 0..(SFS_NDIRECT - 1)
      BY <1>4, <1>10, Sizes
    <3> QED BY <1>1, <1>2, <1>3, <3>1, MapType DEF MapOfCall
  <2>2. PICK dr : dr = [w.din.direct EXCEPT ![k] = 0]
    OBVIOUS
  <2>3. PICK n1 : n1 = [w.din EXCEPT !.direct = dr]
    OBVIOUS
  <2>4. /\ n1 \in DiskInodes /\ n1.direct = dr /\ n1.indirect = w.din.indirect
        /\ n1.size = w.din.size /\ n1.blocks = w.din.blocks
    BY <1>3, <2>2, <2>3 DEF DiskInodes
  <2>5. v = WithDin(u, n1)
    <3>1. v = [u EXCEPT !.din.direct[k] = 0, !.dirty = TRUE]
      BY <1>5, <1>6, <1>8, <1>10, <2>1 DEF sfs_bmap_free_nolock
    <3> QED BY <1>9, <2>2, <2>3, <3>1 DEF WithDin
  <2>6. /\ IsCall(v) /\ v.din = n1 /\ v.free = u.free /\ v.unused = u.unused
        /\ v.sdirty = u.sdirty /\ v.disk = u.disk /\ v.st = u.st /\ v.full = u.full
    <3>1. SetDinIs(v, u, n1)
      BY <1>9, <2>4, <2>5, SetDin
    <3> QED BY <3>1 DEF SetDinIs
  <2>7. PICK n : n = [n1 EXCEPT !.blocks = w.din.blocks - 1]
    OBVIOUS
  <2>8. /\ n \in DiskInodes /\ n.direct = dr /\ n.indirect = w.din.indirect
        /\ n.size = w.din.size /\ n.blocks = w.din.blocks - 1
    BY <1>3, <2>4, <2>7 DEF DiskInodes
  <2>9. r = WithDin(v, n)
    BY <1>7, <1>9, <2>4, <2>6, <2>7 DEF DropBlock, Ok, WithDin
  <2>10. /\ IsCall(r) /\ r.din = n /\ r.dirty = TRUE /\ r.free = v.free /\ r.unused = v.unused
         /\ r.sdirty = v.sdirty /\ r.disk = v.disk /\ r.st = v.st /\ r.full = v.full
    <3>1. SetDinIs(r, v, n)
      BY <2>6, <2>8, <2>9, SetDin
    <3> QED BY <3>1 DEF SetDinIs
  <2>11. MapOfCall(r) = With(MapOfCall(w), w.din.blocks - 1, 0)
    <3>1. MapOf(n, w.disk) = With(MapOf(w.din, w.disk), k, 0)
      BY <1>2, <1>3, <2>1, <2>2, <2>8, PutDirect
    <3> QED BY <1>4, <1>9, <2>6, <2>10, <3>1 DEF MapOfCall
  <2>12. r.sdirty /\ r.dirty
    BY <1>9, <2>6, <2>10, Zenon
  <2>13. /\ r.unused = Cardinality(r.free) /\ r.st = "ok" /\ r.full = w.full
         /\ r.din.size = w.din.size /\ r.din.blocks = w.din.blocks - 1
         /\ r.free = w.free \cup {MapOfCall(w)[w.din.blocks - 1]}
         /\ \A x \in c.others : r.disk[x] = w.disk[x]
    <3>1. r.unused = Cardinality(r.free) /\ r.st = "ok" /\ r.full = w.full /\ r.disk = w.disk
      BY <1>9, <2>6, <2>10
    <3>2. r.din.size = w.din.size /\ r.din.blocks = w.din.blocks - 1
      BY <2>8, <2>10
    <3>3. r.free = w.free \cup {b} /\ b = MapOfCall(w)[w.din.blocks - 1]
      BY <1>1, <1>4, <1>5, <1>9, <2>6, <2>10
    <3> QED BY <3>1, <3>2, <3>3
  <2> QED BY <2>10, <2>11, <2>12, <2>13, DropFollows
<1>11. CASE ~(k < SFS_NDIRECT)
  <2>1. PICK j \in Offsets : j = k - SFS_NDIRECT /\ k = SFS_NDIRECT + j
    <3>1. k - SFS_NDIRECT \in Offsets /\ k = SFS_NDIRECT + (k - SFS_NDIRECT)
      BY <1>4, <1>11, Sizes DEF Offsets, MaxBlocks
    <3> QED BY <3>1
  <2>2. PICK e : e = w.din.indirect
    OBVIOUS
  <2>3. e # 0 /\ e \in Blocks /\ e \notin c.others /\ b = w.disk[e][j]
    <3>1. b = IF e = 0 THEN 0 ELSE w.disk[e][j]
      BY <1>1, <1>2, <1>3, <1>5, <2>1, <2>2, MapType DEF MapOfCall
    <3> QED BY <1>2, <1>5, <2>2, <3>1
  <2>4. PICK dk : dk = [w.disk EXCEPT ![e] = [w.disk[e] EXCEPT ![j] = 0]]
    OBVIOUS
  <2>5. dk \in Disks /\ dk[e] = [w.disk[e] EXCEPT ![j] = 0] /\ \A x \in c.others : dk[x] = w.disk[x]
    <3>1. c.others \subseteq Blocks
      BY DEF CallExact
    <3> QED BY <1>3, <2>3, <2>4, <3>1 DEF Disks
  <2>6. v = WithDisk(u, dk)
    <3>1. j < SFS_BLKSIZE
      BY Sizes DEF Offsets
    <3>2. v = [u EXCEPT !.disk[e][j] = 0]
      BY <1>5, <1>6, <1>8, <1>11, <2>1, <2>2, <2>3, <3>1 DEF sfs_bmap_free_nolock
    <3> QED BY <1>9, <2>4, <3>2 DEF WithDisk
  <2>7. /\ IsCall(v) /\ v.din = u.din /\ v.free = u.free /\ v.unused = u.unused
        /\ v.sdirty = u.sdirty /\ v.disk = dk /\ v.st = u.st /\ v.full = u.full
    <3>1. SetDiskIs(v, u, dk)
      BY <1>9, <2>5, <2>6, SetDisk
    <3> QED BY <3>1 DEF SetDiskIs
  <2>8. PICK n : n = [w.din EXCEPT !.blocks = w.din.blocks - 1]
    OBVIOUS
  <2>9. /\ n \in DiskInodes /\ n.direct = w.din.direct /\ n.indirect = w.din.indirect
        /\ n.size = w.din.size /\ n.blocks = w.din.blocks - 1
    BY <1>3, <2>8 DEF DiskInodes
  <2>10. r = WithDin(v, n)
    <3>1. v.st = "ok" /\ v.din = w.din
      BY <1>9, <2>7
    <3>2. r = [v EXCEPT !.din.blocks = @ - 1, !.dirty = TRUE]
      BY <1>7, <3>1 DEF DropBlock, Ok
    <3> QED BY <2>8, <3>1, <3>2 DEF WithDin
  <2>11. /\ IsCall(r) /\ r.din = n /\ r.dirty = TRUE /\ r.free = v.free /\ r.unused = v.unused
         /\ r.sdirty = v.sdirty /\ r.disk = v.disk /\ r.st = v.st /\ r.full = v.full
    <3>1. SetDinIs(r, v, n)
      BY <2>7, <2>9, <2>10, SetDin
    <3> QED BY <3>1 DEF SetDinIs
  <2>12. MapOfCall(r) = With(MapOfCall(w), w.din.blocks - 1, 0)
    <3>1. MapOf(n, dk) = With(MapOf(w.din, w.disk), SFS_NDIRECT + j, 0)
      BY <1>3, <2>2, <2>3, <2>5, <2>9, PutEntry
    <3> QED BY <1>4, <2>1, <2>7, <2>11, <3>1 DEF MapOfCall
  <2>13. r.sdirty /\ r.dirty
    BY <1>9, <2>7, <2>11, Zenon
  <2>a. r.unused = Cardinality(r.free) /\ r.free = w.free \cup {b}
    BY <1>9, <2>7, <2>11
  <2>b. b = MapOfCall(w)[w.din.blocks - 1]
    BY <1>1, <1>4, <1>5
  <2>c. \A x \in c.others : r.disk[x] = w.disk[x]
    BY <2>5, <2>7, <2>11
  <2>14. /\ r.unused = Cardinality(r.free) /\ r.st = "ok" /\ r.full = w.full
         /\ r.din.size = w.din.size /\ r.din.blocks = w.din.blocks - 1
         /\ r.free = w.free \cup {MapOfCall(w)[w.din.blocks - 1]}
         /\ \A x \in c.others : r.disk[x] = w.disk[x]
    BY <1>9, <2>a, <2>b, <2>c, <2>7, <2>9, <2>11
  <2> QED BY <2>11, <2>12, <2>13, <2>14, DropFollows
<1> QED BY <1>10, <1>11

-----------------------------------------------------------------------------
(* The turns of the loops.  The function that computes the states after each turn
   is there, as there is no least number of turns for which it is not.      *)

\* The states of a loop that adds the blocks from index first on.
IsExtends(f, w, first, n) ==
    /\ f = [k \in 0..n |-> f[k]]
    /\ \A k \in 0..n : f[k] = IF k = 0 THEN w ELSE LoadNext(f[k - 1], first + k - 1)

LEMMA ExtendsExists ==
    ASSUME NEW w, NEW first, NEW n \in Nat PROVE \E f : IsExtends(f, w, first, n)
<1> DEFINE Turn(f, k) == LoadNext(f[k - 1], first + k - 1)
           Bad == {x \in Nat : ~ \E f : IsExtends(f, w, first, x)}
<1> SUFFICES ASSUME n \in Bad PROVE FALSE
  OBVIOUS
<1>1. PICK x \in Bad : \A z \in Bad : x <= z
  BY NatLeast
<1>2. x \in Nat /\ ~ \E f : IsExtends(f, w, first, x)
  BY <1>1
<1>3. CASE x = 0
  <2>1. PICK f : f = [k \in 0..0 |-> w]
    OBVIOUS
  <2>2. f = [k \in 0..0 |-> f[k]] /\ \A k \in 0..0 : k = 0 /\ f[k] = w
    BY <2>1
  <2>3. IsExtends(f, w, first, 0)
    BY <2>2 DEF IsExtends
  <2> QED BY <1>2, <1>3, <2>3
<1>4. CASE x # 0
  <2>1. PICK z \in Nat : x = z + 1
    <3>1. x - 1 \in Nat /\ x = (x - 1) + 1
      BY <1>2, <1>4
    <3> QED BY <3>1
  <2>2. PICK f : IsExtends(f, w, first, z)
    BY <1>1, <2>1
  <2>3. PICK e : e = Turn(f, x)
    OBVIOUS
  <2>4. PICK g : g = [k \in 0..x |-> IF k = x THEN e ELSE f[k]]
    OBVIOUS
  <2>5. \A k \in 0..z : f[k] = IF k = 0 THEN w ELSE Turn(f, k)
    BY <2>2, Zenon DEF IsExtends
  <2>6. \A k \in 0..z : g[k] = f[k]
    BY <2>1, <2>4
  <2>7. g[x] = e
    BY <2>1, <2>4
  <2>8. ASSUME NEW k \in 0..x PROVE g[k] = IF k = 0 THEN w ELSE Turn(g, k)
    <3>1. CASE k = x
      <4>1. k - 1 = z /\ k # 0 /\ z \in 0..z
        BY <2>1, <3>1
      <4>2. g[k - 1] = f[k - 1]
        BY <2>6, <4>1
      <4>3. Turn(g, k) = Turn(f, k)
        BY <4>2
      <4> QED BY <2>3, <2>7, <3>1, <4>1, <4>3
    <3>2. CASE k # x
      <4>1. k \in 0..z
        BY <2>1, <3>2
      <4>2. g[k] = f[k] /\ f[k] = IF k = 0 THEN w ELSE Turn(f, k)
        BY <2>5, <2>6, <4>1
      <4>3. CASE k = 0
        BY <4>2, <4>3
      <4>4. CASE k # 0
        <5>1. k - 1 \in 0..z
          BY <4>1, <4>4
        <5>2. g[k - 1] = f[k - 1]
          BY <2>6, <5>1
        <5>3. Turn(g, k) = Turn(f, k)
          BY <5>2
        <5> QED BY <4>2, <4>4, <5>3
      <4> QED BY <4>3, <4>4
    <3> QED BY <3>1, <3>2
  <2>9. g = [k \in 0..x |-> g[k]]
    BY <2>4
  <2>10. IsExtends(g, w, first, x)
    BY <2>8, <2>9, Zenon DEF IsExtends
  <2> QED BY <1>2, <2>10
<1> QED BY <1>3, <1>4

LEMMA ExtendsTurns ==
    ASSUME NEW w, NEW first, NEW n \in Nat
    PROVE  \E g : /\ Extend(w, first, n) = g[n] /\ g[0] = w
                  /\ \A k \in 1..n : g[k] = LoadNext(g[k - 1], first + k - 1)
<1>1. PICK g : g = CHOOSE f : f = [k \in 0..n |-> IF k = 0 THEN w ELSE LoadNext(f[k - 1], first + k - 1)]
  OBVIOUS
<1>2. Extend(w, first, n) = g[n]
  BY <1>1, Zenon DEF Extend
<1>3. PICK f : IsExtends(f, w, first, n)
  BY ExtendsExists
<1>4. \A k \in 0..n : f[k] = IF k = 0 THEN w ELSE LoadNext(f[k - 1], first + k - 1)
  BY <1>3, Zenon DEF IsExtends
<1>5. f = [k \in 0..n |-> f[k]]
  BY <1>3, Zenon DEF IsExtends
<1>6. f = [k \in 0..n |-> IF k = 0 THEN w ELSE LoadNext(f[k - 1], first + k - 1)]
  BY <1>4, <1>5
<1>7. g = [k \in 0..n |-> IF k = 0 THEN w ELSE LoadNext(g[k - 1], first + k - 1)]
  BY <1>1, <1>6, Zenon
<1>8. \A k \in 0..n : g[k] = IF k = 0 THEN w ELSE LoadNext(g[k - 1], first + k - 1)
  BY <1>7, Zenon
<1>9. 0 \in 0..n /\ \A k \in 1..n : k \in 0..n /\ k # 0
  OBVIOUS
<1>10. g[0] = w
  BY <1>8, <1>9
<1>11. \A k \in 1..n : g[k] = LoadNext(g[k - 1], first + k - 1)
  BY <1>8, <1>9
<1> QED BY <1>2, <1>10, <1>11

\* The states of a loop that takes blocks away.
IsReduces(f, w, n) ==
    /\ f = [k \in 0..n |-> f[k]]
    /\ \A k \in 0..n : f[k] = IF k = 0 THEN w ELSE DropLast(f[k - 1])

LEMMA ReducesExists ==
    ASSUME NEW w, NEW n \in Nat PROVE \E f : IsReduces(f, w, n)
<1> DEFINE Turn(f, k) == DropLast(f[k - 1])
           Bad == {x \in Nat : ~ \E f : IsReduces(f, w, x)}
<1> SUFFICES ASSUME n \in Bad PROVE FALSE
  OBVIOUS
<1>1. PICK x \in Bad : \A z \in Bad : x <= z
  BY NatLeast
<1>2. x \in Nat /\ ~ \E f : IsReduces(f, w, x)
  BY <1>1
<1>3. CASE x = 0
  <2>1. PICK f : f = [k \in 0..0 |-> w]
    OBVIOUS
  <2>2. f = [k \in 0..0 |-> f[k]] /\ \A k \in 0..0 : k = 0 /\ f[k] = w
    BY <2>1
  <2>3. IsReduces(f, w, 0)
    BY <2>2 DEF IsReduces
  <2> QED BY <1>2, <1>3, <2>3
<1>4. CASE x # 0
  <2>1. PICK z \in Nat : x = z + 1
    <3>1. x - 1 \in Nat /\ x = (x - 1) + 1
      BY <1>2, <1>4
    <3> QED BY <3>1
  <2>2. PICK f : IsReduces(f, w, z)
    BY <1>1, <2>1
  <2>3. PICK e : e = Turn(f, x)
    OBVIOUS
  <2>4. PICK g : g = [k \in 0..x |-> IF k = x THEN e ELSE f[k]]
    OBVIOUS
  <2>5. \A k \in 0..z : f[k] = IF k = 0 THEN w ELSE Turn(f, k)
    BY <2>2, Zenon DEF IsReduces
  <2>6. \A k \in 0..z : g[k] = f[k]
    BY <2>1, <2>4
  <2>7. g[x] = e
    BY <2>1, <2>4
  <2>8. ASSUME NEW k \in 0..x PROVE g[k] = IF k = 0 THEN w ELSE Turn(g, k)
    <3>1. CASE k = x
      <4>1. k - 1 = z /\ k # 0 /\ z \in 0..z
        BY <2>1, <3>1
      <4>2. g[k - 1] = f[k - 1]
        BY <2>6, <4>1
      <4>3. Turn(g, k) = Turn(f, k)
        BY <4>2
      <4> QED BY <2>3, <2>7, <3>1, <4>1, <4>3
    <3>2. CASE k # x
      <4>1. k \in 0..z
        BY <2>1, <3>2
      <4>2. g[k] = f[k] /\ f[k] = IF k = 0 THEN w ELSE Turn(f, k)
        BY <2>5, <2>6, <4>1
      <4>3. CASE k = 0
        BY <4>2, <4>3
      <4>4. CASE k # 0
        <5>1. k - 1 \in 0..z
          BY <4>1, <4>4
        <5>2. g[k - 1] = f[k - 1]
          BY <2>6, <5>1
        <5>3. Turn(g, k) = Turn(f, k)
          BY <5>2
        <5> QED BY <4>2, <4>4, <5>3
      <4> QED BY <4>3, <4>4
    <3> QED BY <3>1, <3>2
  <2>9. g = [k \in 0..x |-> g[k]]
    BY <2>4
  <2>10. IsReduces(g, w, x)
    BY <2>8, <2>9, Zenon DEF IsReduces
  <2> QED BY <1>2, <2>10
<1> QED BY <1>3, <1>4

LEMMA ReducesTurns ==
    ASSUME NEW w, NEW n \in Nat
    PROVE  \E g : /\ Reduce(w, n) = g[n] /\ g[0] = w
                  /\ \A k \in 1..n : g[k] = DropLast(g[k - 1])
<1>1. PICK g : g = CHOOSE f : f = [k \in 0..n |-> IF k = 0 THEN w ELSE DropLast(f[k - 1])]
  OBVIOUS
<1>2. Reduce(w, n) = g[n]
  BY <1>1, Zenon DEF Reduce
<1>3. PICK f : IsReduces(f, w, n)
  BY ReducesExists
<1>4. \A k \in 0..n : f[k] = IF k = 0 THEN w ELSE DropLast(f[k - 1])
  BY <1>3, Zenon DEF IsReduces
<1>5. f = [k \in 0..n |-> f[k]]
  BY <1>3, Zenon DEF IsReduces
<1>6. f = [k \in 0..n |-> IF k = 0 THEN w ELSE DropLast(f[k - 1])]
  BY <1>4, <1>5
<1>7. g = [k \in 0..n |-> IF k = 0 THEN w ELSE DropLast(g[k - 1])]
  BY <1>1, <1>6, Zenon
<1>8. \A k \in 0..n : g[k] = IF k = 0 THEN w ELSE DropLast(g[k - 1])
  BY <1>7, Zenon
<1>9. 0 \in 0..n /\ \A k \in 1..n : k \in 0..n /\ k # 0
  OBVIOUS
<1>10. g[0] = w
  BY <1>8, <1>9
<1>11. \A k \in 1..n : g[k] = DropLast(g[k - 1])
  BY <1>8, <1>9
<1> QED BY <1>2, <1>10, <1>11

\* The states of the loop over the pieces of a transfer.
IsMoves(f, w, pieces, data, write, n) ==
    /\ f = [k \in 0..n |-> f[k]]
    /\ \A k \in 0..n : f[k] = IF k = 0 THEN w ELSE MovePiece(f[k - 1], pieces[k], data, write)

LEMMA MovesExists ==
    ASSUME NEW w, NEW pieces, NEW data, NEW write, NEW n \in Nat PROVE \E f : IsMoves(f, w, pieces, data, write, n)
<1> DEFINE Turn(f, k) == MovePiece(f[k - 1], pieces[k], data, write)
           Bad == {x \in Nat : ~ \E f : IsMoves(f, w, pieces, data, write, x)}
<1> SUFFICES ASSUME n \in Bad PROVE FALSE
  OBVIOUS
<1>1. PICK x \in Bad : \A z \in Bad : x <= z
  BY NatLeast
<1>2. x \in Nat /\ ~ \E f : IsMoves(f, w, pieces, data, write, x)
  BY <1>1
<1>3. CASE x = 0
  <2>1. PICK f : f = [k \in 0..0 |-> w]
    OBVIOUS
  <2>2. f = [k \in 0..0 |-> f[k]] /\ \A k \in 0..0 : k = 0 /\ f[k] = w
    BY <2>1
  <2>3. IsMoves(f, w, pieces, data, write, 0)
    BY <2>2 DEF IsMoves
  <2> QED BY <1>2, <1>3, <2>3
<1>4. CASE x # 0
  <2>1. PICK z \in Nat : x = z + 1
    <3>1. x - 1 \in Nat /\ x = (x - 1) + 1
      BY <1>2, <1>4
    <3> QED BY <3>1
  <2>2. PICK f : IsMoves(f, w, pieces, data, write, z)
    BY <1>1, <2>1
  <2>3. PICK e : e = Turn(f, x)
    OBVIOUS
  <2>4. PICK g : g = [k \in 0..x |-> IF k = x THEN e ELSE f[k]]
    OBVIOUS
  <2>5. \A k \in 0..z : f[k] = IF k = 0 THEN w ELSE Turn(f, k)
    BY <2>2, Zenon DEF IsMoves
  <2>6. \A k \in 0..z : g[k] = f[k]
    BY <2>1, <2>4
  <2>7. g[x] = e
    BY <2>1, <2>4
  <2>8. ASSUME NEW k \in 0..x PROVE g[k] = IF k = 0 THEN w ELSE Turn(g, k)
    <3>1. CASE k = x
      <4>1. k - 1 = z /\ k # 0 /\ z \in 0..z
        BY <2>1, <3>1
      <4>2. g[k - 1] = f[k - 1]
        BY <2>6, <4>1
      <4>3. Turn(g, k) = Turn(f, k)
        BY <4>2
      <4> QED BY <2>3, <2>7, <3>1, <4>1, <4>3
    <3>2. CASE k # x
      <4>1. k \in 0..z
        BY <2>1, <3>2
      <4>2. g[k] = f[k] /\ f[k] = IF k = 0 THEN w ELSE Turn(f, k)
        BY <2>5, <2>6, <4>1
      <4>3. CASE k = 0
        BY <4>2, <4>3
      <4>4. CASE k # 0
        <5>1. k - 1 \in 0..z
          BY <4>1, <4>4
        <5>2. g[k - 1] = f[k - 1]
          BY <2>6, <5>1
        <5>3. Turn(g, k) = Turn(f, k)
          BY <5>2
        <5> QED BY <4>2, <4>4, <5>3
      <4> QED BY <4>3, <4>4
    <3> QED BY <3>1, <3>2
  <2>9. g = [k \in 0..x |-> g[k]]
    BY <2>4
  <2>10. IsMoves(g, w, pieces, data, write, x)
    BY <2>8, <2>9, Zenon DEF IsMoves
  <2> QED BY <1>2, <2>10
<1> QED BY <1>3, <1>4

LEMMA MovesTurns ==
    ASSUME NEW w, NEW pieces, NEW data, NEW write, NEW n \in Nat, n = Len(pieces)
    PROVE  \E g : /\ MovePieces(w, pieces, data, write) = g[n] /\ g[0] = w
                  /\ \A k \in 1..n : g[k] = MovePiece(g[k - 1], pieces[k], data, write)
<1>1. PICK g : g = CHOOSE f : f = [k \in 0..n |-> IF k = 0 THEN w ELSE MovePiece(f[k - 1], pieces[k], data, write)]
  OBVIOUS
<1>2. MovePieces(w, pieces, data, write) = g[n]
  BY <1>1, Zenon DEF MovePieces
<1>3. PICK f : IsMoves(f, w, pieces, data, write, n)
  BY MovesExists
<1>4. \A k \in 0..n : f[k] = IF k = 0 THEN w ELSE MovePiece(f[k - 1], pieces[k], data, write)
  BY <1>3, Zenon DEF IsMoves
<1>5. f = [k \in 0..n |-> f[k]]
  BY <1>3, Zenon DEF IsMoves
<1>6. f = [k \in 0..n |-> IF k = 0 THEN w ELSE MovePiece(f[k - 1], pieces[k], data, write)]
  BY <1>4, <1>5
<1>7. g = [k \in 0..n |-> IF k = 0 THEN w ELSE MovePiece(g[k - 1], pieces[k], data, write)]
  BY <1>1, <1>6, Zenon
<1>8. \A k \in 0..n : g[k] = IF k = 0 THEN w ELSE MovePiece(g[k - 1], pieces[k], data, write)
  BY <1>7, Zenon
<1>9. 0 \in 0..n /\ \A k \in 1..n : k \in 0..n /\ k # 0
  OBVIOUS
<1>10. g[0] = w
  BY <1>8, <1>9
<1>11. \A k \in 1..n : g[k] = MovePiece(g[k - 1], pieces[k], data, write)
  BY <1>8, <1>9
<1> QED BY <1>2, <1>10, <1>11

\* The states of the loop over the chunks of a system call.
IsRws(f, v, len, write, n) ==
    /\ f = [k \in 0..n |-> f[k]]
    /\ \A k \in 0..n : f[k] = IF k = 0 THEN v ELSE NextChunk(f[k - 1], len, write)

LEMMA RwsExists ==
    ASSUME NEW v, NEW len, NEW write, NEW n \in Nat PROVE \E f : IsRws(f, v, len, write, n)
<1> DEFINE Turn(f, k) == NextChunk(f[k - 1], len, write)
           Bad == {x \in Nat : ~ \E f : IsRws(f, v, len, write, x)}
<1> SUFFICES ASSUME n \in Bad PROVE FALSE
  OBVIOUS
<1>1. PICK x \in Bad : \A z \in Bad : x <= z
  BY NatLeast
<1>2. x \in Nat /\ ~ \E f : IsRws(f, v, len, write, x)
  BY <1>1
<1>3. CASE x = 0
  <2>1. PICK f : f = [k \in 0..0 |-> v]
    OBVIOUS
  <2>2. f = [k \in 0..0 |-> f[k]] /\ \A k \in 0..0 : k = 0 /\ f[k] = v
    BY <2>1
  <2>3. IsRws(f, v, len, write, 0)
    BY <2>2 DEF IsRws
  <2> QED BY <1>2, <1>3, <2>3
<1>4. CASE x # 0
  <2>1. PICK z \in Nat : x = z + 1
    <3>1. x - 1 \in Nat /\ x = (x - 1) + 1
      BY <1>2, <1>4
    <3> QED BY <3>1
  <2>2. PICK f : IsRws(f, v, len, write, z)
    BY <1>1, <2>1
  <2>3. PICK e : e = Turn(f, x)
    OBVIOUS
  <2>4. PICK g : g = [k \in 0..x |-> IF k = x THEN e ELSE f[k]]
    OBVIOUS
  <2>5. \A k \in 0..z : f[k] = IF k = 0 THEN v ELSE Turn(f, k)
    BY <2>2, Zenon DEF IsRws
  <2>6. \A k \in 0..z : g[k] = f[k]
    BY <2>1, <2>4
  <2>7. g[x] = e
    BY <2>1, <2>4
  <2>8. ASSUME NEW k \in 0..x PROVE g[k] = IF k = 0 THEN v ELSE Turn(g, k)
    <3>1. CASE k = x
      <4>1. k - 1 = z /\ k # 0 /\ z \in 0..z
        BY <2>1, <3>1
      <4>2. g[k - 1] = f[k - 1]
        BY <2>6, <4>1
      <4>3. Turn(g, k) = Turn(f, k)
        BY <4>2
      <4> QED BY <2>3, <2>7, <3>1, <4>1, <4>3
    <3>2. CASE k # x
      <4>1. k \in 0..z
        BY <2>1, <3>2
      <4>2. g[k] = f[k] /\ f[k] = IF k = 0 THEN v ELSE Turn(f, k)
        BY <2>5, <2>6, <4>1
      <4>3. CASE k = 0
        BY <4>2, <4>3
      <4>4. CASE k # 0
        <5>1. k - 1 \in 0..z
          BY <4>1, <4>4
        <5>2. g[k - 1] = f[k - 1]
          BY <2>6, <5>1
        <5>3. Turn(g, k) = Turn(f, k)
          BY <5>2
        <5> QED BY <4>2, <4>4, <5>3
      <4> QED BY <4>3, <4>4
    <3> QED BY <3>1, <3>2
  <2>9. g = [k \in 0..x |-> g[k]]
    BY <2>4
  <2>10. IsRws(g, v, len, write, x)
    BY <2>8, <2>9, Zenon DEF IsRws
  <2> QED BY <1>2, <2>10
<1> QED BY <1>3, <1>4

LEMMA RwsTurns ==
    ASSUME NEW v, NEW len, NEW write, NEW n \in Nat, n = len + 1
    PROVE  \E g : /\ Chunks(v, len, write) = g[n] /\ g[0] = v
                  /\ \A k \in 1..n : g[k] = NextChunk(g[k - 1], len, write)
<1>1. PICK g : g = CHOOSE f : f = [k \in 0..n |-> IF k = 0 THEN v ELSE NextChunk(f[k - 1], len, write)]
  OBVIOUS
<1>2. Chunks(v, len, write) = g[n]
  BY <1>1, Zenon DEF Chunks
<1>3. PICK f : IsRws(f, v, len, write, n)
  BY RwsExists
<1>4. \A k \in 0..n : f[k] = IF k = 0 THEN v ELSE NextChunk(f[k - 1], len, write)
  BY <1>3, Zenon DEF IsRws
<1>5. f = [k \in 0..n |-> f[k]]
  BY <1>3, Zenon DEF IsRws
<1>6. f = [k \in 0..n |-> IF k = 0 THEN v ELSE NextChunk(f[k - 1], len, write)]
  BY <1>4, <1>5
<1>7. g = [k \in 0..n |-> IF k = 0 THEN v ELSE NextChunk(g[k - 1], len, write)]
  BY <1>1, <1>6, Zenon
<1>8. \A k \in 0..n : g[k] = IF k = 0 THEN v ELSE NextChunk(g[k - 1], len, write)
  BY <1>7, Zenon
<1>9. 0 \in 0..n /\ \A k \in 1..n : k \in 0..n /\ k # 0
  OBVIOUS
<1>10. g[0] = v
  BY <1>8, <1>9
<1>11. \A k \in 1..n : g[k] = NextChunk(g[k - 1], len, write)
  BY <1>8, <1>9
<1> QED BY <1>2, <1>10, <1>11

-----------------------------------------------------------------------------
(* sfs_truncfile.                                                           *)

Extended(r, w, c, n) ==
    \/ r.st = "range"
    \/ /\ CallExact(r, c) /\ r.din.size = w.din.size /\ w.din.blocks <= r.din.blocks
       /\ \/ r.st = "ok" /\ r.full = w.full /\ r.din.blocks = w.din.blocks + n
          \/ r.st = "E_NO_MEM" /\ r.full

LEMMA ExtendIs ==
    ASSUME NEW w, NEW c, CallExact(w, c), w.st = "ok", NEW n \in Nat, NEW r,
           r = Extend(w, w.din.blocks, n)
    PROVE  Extended(r, w, c, n)
<1>1. w.din.blocks \in Nat
  BY CallFacts, CallTypes
<1>2. PICK f \in Nat : f = w.din.blocks
  BY <1>1
<1>3. PICK g : r = g[n] /\ g[0] = w /\ \A k \in 1..n : g[k] = LoadNext(g[k - 1], f + k - 1)
  BY <1>2, ExtendsTurns
<1> DEFINE Bad == {x \in Nat : x <= n /\ ~Extended(g[x], w, c, x)}
<1> SUFFICES ASSUME n \in Bad PROVE FALSE
  BY <1>3
<1>4. PICK x \in Bad : \A y \in Bad : x <= y
  BY NatLeast
<1>5. x \in 0..n /\ ~Extended(g[x], w, c, x)
  BY <1>4
<1>6. CASE x = 0
  <2>1. Extended(w, w, c, 0)
    BY <1>1 DEF Extended
  <2> QED BY <1>3, <1>5, <1>6, <2>1
<1>7. CASE x # 0
  <2>1. PICK z \in Nat : x = z + 1 /\ z <= n
    <3>1. x - 1 \in Nat /\ x = (x - 1) + 1 /\ x - 1 <= n
      BY <1>5, <1>7
    <3> QED BY <3>1
  <2>2. Extended(g[z], w, c, z)
    <3>1. z \notin Bad
      BY <1>4, <2>1
    <3> QED BY <2>1, <3>1
  <2>3. PICK v, u : v = g[z] /\ u = g[x]
    OBVIOUS
  <2>4. x \in 1..n /\ x - 1 = z /\ f + x - 1 = f + z
    BY <1>5, <2>1
  <2>5. u = LoadNext(v, f + z)
    BY <1>3, <2>3, <2>4
  <2>6. Extended(v, w, c, z) /\ ~Extended(u, w, c, x)
    BY <1>5, <2>2, <2>3
  <2>7. CASE v.st # "ok"
    <3>1. u = v
      BY <2>5, <2>7 DEF LoadNext, Ok
    <3> QED BY <2>6, <2>7, <3>1 DEF Extended
  <2>8. CASE v.st = "ok"
    <3>1. u = sfs_bmap_load_nolock(v, f + z)
      BY <2>5, <2>8 DEF LoadNext, Ok
    <3>2. /\ CallExact(v, c) /\ v.din.size = w.din.size /\ v.full = w.full /\ v.din.blocks = f + z
      BY <1>2, <2>6, <2>8 DEF Extended
    <3>3. Loaded(u, v, c, f + z)
      BY <2>8, <3>1, <3>2, LoadIs
    <3>4. u.st = "range" \/ u.st = "ok" \/ u.st = "E_NO_MEM"
      BY <3>2, <3>3 DEF Loaded
    <3>5. CASE u.st = "range"
      BY <2>6, <3>5 DEF Extended
    <3>6. CASE u.st = "ok"
      <4>1. CallExact(u, c) /\ u.din.size = v.din.size /\ u.full = v.full /\ u.din.blocks = f + z + 1
        BY <3>2, <3>3, <3>6 DEF Loaded
      <4>2. u.din.blocks = w.din.blocks + x /\ w.din.blocks <= u.din.blocks
        BY <1>2, <2>1, <4>1
      <4> QED BY <2>6, <3>2, <3>6, <4>1, <4>2 DEF Extended
    <3>7. CASE u.st = "E_NO_MEM"
      <4>1. CallExact(u, c) /\ u.din.size = v.din.size /\ u.full /\ u.din.blocks = v.din.blocks
        BY <3>3, <3>7 DEF Loaded
      <4>2. w.din.blocks <= u.din.blocks
        BY <1>2, <3>2, <4>1
      <4> QED BY <2>6, <3>2, <3>7, <4>1, <4>2 DEF Extended
    <3> QED BY <3>4, <3>5, <3>6, <3>7
  <2> QED BY <2>7, <2>8
<1> QED BY <1>6, <1>7

Reduced(r, w, c, n) ==
    /\ CallExact(r, c) /\ r.st = "ok" /\ r.full = w.full
    /\ r.din.size = w.din.size /\ r.din.blocks = w.din.blocks - n

LEMMA ReduceIs ==
    ASSUME NEW w, NEW c, CallExact(w, c), w.st = "ok", NEW n \in Nat, n <= w.din.blocks, NEW r,
           r = Reduce(w, n)
    PROVE  Reduced(r, w, c, n)
<1>1. w.din.blocks \in Nat
  BY CallFacts, CallTypes
<1>3. PICK g : r = g[n] /\ g[0] = w /\ \A k \in 1..n : g[k] = DropLast(g[k - 1])
  BY ReducesTurns
<1> DEFINE Bad == {x \in Nat : x <= n /\ ~Reduced(g[x], w, c, x)}
<1> SUFFICES ASSUME n \in Bad PROVE FALSE
  BY <1>3
<1>4. PICK x \in Bad : \A y \in Bad : x <= y
  BY NatLeast
<1>5. x \in 0..n /\ ~Reduced(g[x], w, c, x)
  BY <1>4
<1>6. CASE x = 0
  <2>1. Reduced(w, w, c, 0)
    BY <1>1 DEF Reduced
  <2> QED BY <1>3, <1>5, <1>6, <2>1
<1>7. CASE x # 0
  <2>1. PICK z \in Nat : x = z + 1 /\ z <= n
    <3>1. x - 1 \in Nat /\ x = (x - 1) + 1 /\ x - 1 <= n
      BY <1>5, <1>7
    <3> QED BY <3>1
  <2>2. Reduced(g[z], w, c, z)
    <3>1. z \notin Bad
      BY <1>4, <2>1
    <3> QED BY <2>1, <3>1
  <2>3. PICK v, u : v = g[z] /\ u = g[x]
    OBVIOUS
  <2>4. x \in 1..n /\ x - 1 = z
    BY <1>5, <2>1
  <2>5. u = DropLast(v)
    BY <1>3, <2>3, <2>4
  <2>6. /\ CallExact(v, c) /\ v.st = "ok" /\ v.full = w.full
        /\ v.din.size = w.din.size /\ v.din.blocks = w.din.blocks - z
    BY <2>2, <2>3 DEF Reduced
  <2>7. u = sfs_bmap_truncate_nolock(v)
    BY <2>5, <2>6 DEF DropLast, Ok
  <2>8. v.din.blocks > 0
    BY <1>1, <1>5, <2>1, <2>6
  <2>9. Dropped(u, v, c)
    BY <2>6, <2>7, <2>8, TruncateIs
  <2>10. u.din.blocks = w.din.blocks - x
    <3>1. u.din.blocks = v.din.blocks - 1
      BY <2>9 DEF Dropped
    <3> QED BY <1>1, <2>1, <2>6, <3>1
  <2>11. Reduced(u, w, c, x)
    BY <2>6, <2>9, <2>10 DEF Reduced, Dropped
  <2> QED BY <1>5, <2>3, <2>11
<1> QED BY <1>6, <1>7

\* A call that ends, with or without an error, or panics, but never because a block is not in
\* use; after a success the file has the size asked for.
Resized(r, w, c, len) ==
    \/ r.st = "size" /\ w.full
    \/ r.st = "range"
    \/ /\ CallExact(r, c) /\ SizeFits(r.din, r.full)
       /\ r.st \in {"ok", "E_NO_MEM", "E_INVAL"}

LEMMA ChangedSize ==
    ASSUME NEW w, NEW c, CallExact(w, c), NEW len \in Nat, NEW n \in DiskInodes,
           n.size = len, n.blocks = w.din.blocks, n.direct = w.din.direct,
           n.indirect = w.din.indirect, NEW r, r = WithDin(w, n)
    PROVE  CallExact(r, c) /\ r.din = n /\ r.st = w.st /\ r.full = w.full /\ r.alen = w.alen
<1>1. /\ IsCall(w) /\ w.unused = Cardinality(w.free) /\ Apart(MapOfCall(w), c.others)
      /\ w.free = Blocks \ (c.others \cup Named(MapOfCall(w)))
      /\ w.din.blocks <= MaxBlocks /\ \A i \in 0..(w.din.blocks - 1) : MapOfCall(w)[i] # 0
      /\ w.din.indirect # 0 => w.din.indirect \in Blocks
  BY CallFacts
<1>2. w.din \in DiskInodes /\ w.disk \in Disks /\ w.sdirty \in BOOLEAN
  BY <1>1, CallTypes
<1>3. /\ IsCall(r) /\ r.din = n /\ r.dirty = TRUE /\ r.free = w.free /\ r.unused = w.unused
      /\ r.sdirty = w.sdirty /\ r.disk = w.disk /\ r.st = w.st /\ r.full = w.full /\ r.alen = w.alen
  <2>1. SetDinIs(r, w, n)
    BY <1>1, SetDin
  <2> QED BY <2>1 DEF SetDinIs
<1>4. MapOfCall(r) = MapOfCall(w)
  <2>1. MapOf(n, w.disk) = MapOf(w.din, w.disk)
    BY <1>1, <1>2, SameMap
  <2> QED BY <1>3, <2>1 DEF MapOfCall
<1>5. r.sdirty \/ ~w.sdirty
  BY <1>2, <1>3
<1>6. Follows(r, w, c)
  BY <1>1, <1>3, <1>4, <1>5 DEF Follows
<1>7. CallExact(r, c)
  BY <1>6, StaysExact
<1> QED BY <1>3, <1>7

LEMMA ChangedSt ==
    ASSUME NEW w, NEW c, CallExact(w, c), NEW s \in Statuses, NEW r, r = WithSt(w, s)
    PROVE  CallExact(r, c) /\ r.din = w.din /\ r.st = s /\ r.full = w.full /\ r.alen = w.alen
<1>1. /\ IsCall(w) /\ w.unused = Cardinality(w.free) /\ Apart(MapOfCall(w), c.others)
      /\ w.free = Blocks \ (c.others \cup Named(MapOfCall(w)))
      /\ w.din.blocks <= MaxBlocks /\ \A i \in 0..(w.din.blocks - 1) : MapOfCall(w)[i] # 0
  BY CallFacts
<1>2. w.dirty \in BOOLEAN /\ w.sdirty \in BOOLEAN /\ w.din.blocks \in Nat
  BY <1>1, CallTypes
<1>3. /\ IsCall(r) /\ r.din = w.din /\ r.dirty = w.dirty /\ r.free = w.free /\ r.unused = w.unused
      /\ r.sdirty = w.sdirty /\ r.disk = w.disk /\ r.st = s /\ r.full = w.full /\ r.alen = w.alen
  <2>1. SetStIs(r, w, s)
    BY <1>1, SetSt
  <2> QED BY <2>1 DEF SetStIs
<1>4. MapOfCall(r) = MapOfCall(w)
  BY <1>3 DEF MapOfCall
<1>5. /\ r.sdirty \/ ~w.sdirty
      /\ r.dirty \/ ~w.dirty
      /\ w.din.blocks <= r.din.blocks
  BY <1>2, <1>3
<1>6. Follows(r, w, c)
  BY <1>1, <1>3, <1>4, <1>5 DEF Follows
<1>7. CallExact(r, c)
  BY <1>6, StaysExact
<1> QED BY <1>3, <1>7

LEMMA TruncfileIs ==
    ASSUME NEW w, NEW c, CallExact(w, c), w.st = "ok", SizeFits(w.din, w.full), NEW len \in Int,
           NEW r, r = sfs_truncfile(w, len)
    PROVE  Resized(r, w, c, len)
<1>1. w.din.blocks \in Nat /\ w.din.size \in Nat /\ w.full \in BOOLEAN
  BY CallFacts, CallTypes
<1>2. CASE len < 0 \/ len > SFS_MAX_FILE_SIZE
  <2>1. r = WithSt(w, "E_INVAL")
    BY <1>2 DEF sfs_truncfile, WithSt
  <2>2. CallExact(r, c) /\ r.din = w.din /\ r.st = "E_INVAL" /\ r.full = w.full
    <3>1. PICK s \in Statuses : s = "E_INVAL"
      BY StatusIs
    <3>2. r = WithSt(w, s)
      BY <2>1, <3>1
    <3>3. CallExact(r, c) /\ r.din = w.din /\ r.st = s /\ r.full = w.full
      BY <3>2, ChangedSt
    <3> QED BY <3>1, <3>3
  <2> QED BY <2>2 DEF Resized
<1>3. CASE ~(len < 0 \/ len > SFS_MAX_FILE_SIZE)
  <2>1. len \in Nat
    BY <1>3
  <2>2. PICK t \in Nat : t = RoundUpDiv(len, SFS_BLKSIZE) /\ len \div SFS_BLKSIZE <= t
    <3>1. len \div SFS_BLKSIZE \in Nat
      BY <2>1, Sizes, DivIs
    <3>2. RoundUpDiv(len, SFS_BLKSIZE)
            = IF len % SFS_BLKSIZE = 0 THEN len \div SFS_BLKSIZE ELSE len \div SFS_BLKSIZE + 1
      BY <2>1, Sizes, RoundUpIs
    <3>3. RoundUpDiv(len, SFS_BLKSIZE) \in Nat /\ len \div SFS_BLKSIZE <= RoundUpDiv(len, SFS_BLKSIZE)
      BY <3>1, <3>2
    <3> QED BY <3>3
  <2>3. CASE w.din.size = len
    <3>1. r = Assert_(w, t = w.din.blocks, "size")
      BY <1>3, <2>2, <2>3 DEF sfs_truncfile
    <3>2. CASE t = w.din.blocks
      <4>1. r = w
        BY <3>1, <3>2 DEF Assert_
      <4> QED BY <4>1 DEF Resized
    <3>3. CASE t # w.din.blocks
      <4>1. r = [w EXCEPT !.st = "size"]
        BY <3>1, <3>3 DEF Assert_, Ok
      <4>2. IsCall(w)
        BY CallFacts
      <4>3. r.st = "size"
        BY <4>1, <4>2 DEF IsCall, CallsWith
      <4>4. w.full
        BY <2>2, <2>3, <3>3 DEF SizeFits
      <4> QED BY <4>3, <4>4 DEF Resized
    <3> QED BY <3>2, <3>3
  <2>4. CASE w.din.size # len
    <3>1. PICK v : v = IF w.din.blocks < t THEN Extend(w, w.din.blocks, t - w.din.blocks)
                       ELSE Reduce(w, w.din.blocks - t)
      OBVIOUS
    <3>2. r = SetSize(v, len, t)
      BY <1>3, <2>2, <2>4, <3>1 DEF sfs_truncfile
    <3>3. \/ v.st = "range"
          \/ /\ CallExact(v, c) /\ v.din.size = w.din.size
             /\ \/ v.st = "ok" /\ v.full = w.full /\ v.din.blocks = t
                \/ v.st = "E_NO_MEM" /\ v.full /\ w.din.blocks <= v.din.blocks
      <4>1. CASE w.din.blocks < t
        <5>1. PICK n \in Nat : n = t - w.din.blocks /\ w.din.blocks + n = t
          <6>1. t - w.din.blocks \in Nat /\ w.din.blocks + (t - w.din.blocks) = t
            BY <1>1, <4>1
          <6> QED BY <6>1
        <5>2. v = Extend(w, w.din.blocks, n)
          BY <3>1, <4>1, <5>1
        <5>3. Extended(v, w, c, n)
          BY <5>2, ExtendIs
        <5> QED BY <5>1, <5>3 DEF Extended
      <4>2. CASE ~(w.din.blocks < t)
        <5>1. PICK n \in Nat : n = w.din.blocks - t /\ w.din.blocks - n = t /\ n <= w.din.blocks
          <6>1. /\ w.din.blocks - t \in Nat /\ w.din.blocks - (w.din.blocks - t) = t
                /\ w.din.blocks - t <= w.din.blocks
            BY <1>1, <4>2
          <6> QED BY <6>1
        <5>2. v = Reduce(w, n)
          BY <3>1, <4>2, <5>1
        <5>3. Reduced(v, w, c, n)
          BY <5>1, <5>2, ReduceIs
        <5> QED BY <5>1, <5>3 DEF Reduced
      <4> QED BY <4>1, <4>2
    <3>4. CASE v.st # "ok"
      <4>1. r = v
        BY <3>2, <3>4 DEF SetSize, Assert_, Ok
      <4>2. CASE v.st = "range"
        BY <4>1, <4>2 DEF Resized
      <4>3. CASE v.st # "range"
        <5>1. CallExact(v, c) /\ v.st = "E_NO_MEM" /\ v.full /\ w.din.blocks <= v.din.blocks
              /\ v.din.size = w.din.size
          BY <3>3, <3>4, <4>3
        <5>2. v.din.blocks \in Nat /\ w.din.size \div SFS_BLKSIZE \in Nat
          BY <1>1, <5>1, CallFacts, CallTypes, Sizes, DivIs
        <5>3. SizeFits(v.din, v.full)
          BY <1>1, <5>1, <5>2 DEF SizeFits
        <5> QED BY <4>1, <5>1, <5>3 DEF Resized
      <4> QED BY <4>2, <4>3
    <3>5. CASE v.st = "ok"
      <4>1. CallExact(v, c) /\ v.full = w.full /\ v.din.blocks = t
        BY <3>3, <3>5
      <4>2. PICK n : n = [v.din EXCEPT !.size = len]
        OBVIOUS
      <4>3. v.din \in DiskInodes
        BY <4>1, CallFacts, CallTypes
      <4>4. /\ n \in DiskInodes /\ n.size = len /\ n.blocks = v.din.blocks /\ n.direct = v.din.direct
            /\ n.indirect = v.din.indirect
        BY <2>1, <4>2, <4>3 DEF DiskInodes
      <4>5. r = WithDin(v, n)
        BY <3>2, <3>5, <4>1, <4>2 DEF SetSize, Ok, WithDin
      <4>6. CallExact(r, c) /\ r.din = n /\ r.st = "ok" /\ r.full = v.full
        BY <2>1, <3>5, <4>1, <4>4, <4>5, ChangedSize
      <4>7. SizeFits(r.din, r.full)
        BY <2>2, <4>1, <4>4, <4>6 DEF SizeFits
      <4> QED BY <4>6, <4>7 DEF Resized
    <3> QED BY <3>4, <3>5
  <2> QED BY <2>3, <2>4
<1> QED BY <1>2, <1>3

LEMMA TryseekIs ==
    ASSUME NEW w, NEW c, CallExact(w, c), w.st = "ok", SizeFits(w.din, w.full), NEW p \in Int,
           NEW r, r = sfs_tryseek(w, p)
    PROVE  Resized(r, w, c, p) /\ (r.st = "ok" => p \in Nat)
<1>1. CASE p < 0 \/ p >= SFS_MAX_FILE_SIZE
  <2>1. r = WithSt(w, "E_INVAL")
    BY <1>1 DEF sfs_tryseek, WithSt
  <2>2. CallExact(r, c) /\ r.din = w.din /\ r.st = "E_INVAL" /\ r.full = w.full
    <3>1. PICK s \in Statuses : s = "E_INVAL"
      BY StatusIs
    <3>2. r = WithSt(w, s)
      BY <2>1, <3>1
    <3>3. CallExact(r, c) /\ r.din = w.din /\ r.st = s /\ r.full = w.full
      BY <3>2, ChangedSt
    <3> QED BY <3>1, <3>3
  <2> QED BY <2>2 DEF Resized
<1>2. CASE ~(p < 0 \/ p >= SFS_MAX_FILE_SIZE)
  <2>1. p \in Nat
    BY <1>2
  <2>2. CASE p > w.din.size
    <3>1. r = sfs_truncfile(w, p)
      BY <1>2, <2>2 DEF sfs_tryseek
    <3> QED BY <2>1, <3>1, TruncfileIs
  <2>3. CASE ~(p > w.din.size)
    <3>1. r = w
      BY <1>2, <2>3 DEF sfs_tryseek
    <3> QED BY <2>1, <3>1 DEF Resized
  <2> QED BY <2>2, <2>3
<1> QED BY <1>1, <1>2

-----------------------------------------------------------------------------
(* sfs_io_nolock.                                                           *)

LEMMA ConcatIs ==
    ASSUME NEW S, NEW a \in Seq(S), NEW b \in Seq(S)
    PROVE  /\ a \o b \in Seq(S) /\ Len(a \o b) = Len(a) + Len(b)
           /\ \A i \in 1..Len(a) : (a \o b)[i] = a[i]
           /\ \A i \in 1..Len(b) : (a \o b)[Len(a) + i] = b[i]
OBVIOUS

PieceOf(b, o, n) == [blk |-> b, off |-> o, size |-> n]

\* The k-th piece of a transfer of [o, e), which o is in the block q, at offset s of it, and
\* e in the block m, at offset t.
PieceAt(o, e, q, s, m, t, k) ==
    IF k = 1 /\ s # 0 THEN PieceOf(q, s, IF m # q THEN SFS_BLKSIZE - s ELSE e - o)
    ELSE IF k <= m - q THEN PieceOf(q + k - 1, 0, SFS_BLKSIZE)
    ELSE PieceOf(m, 0, t)

Split(o, e, q, s, m, t, L) ==
    /\ o \in Nat /\ e \in Nat /\ q \in Nat /\ s \in Nat /\ m \in Nat /\ t \in Nat /\ L \in Nat
    /\ q = o \div SFS_BLKSIZE /\ s = o % SFS_BLKSIZE
    /\ m = e \div SFS_BLKSIZE /\ t = e % SFS_BLKSIZE
    /\ q <= m /\ (q = m => s < t) /\ L = m - q + (IF t = 0 THEN 0 ELSE 1)

LEMMA PiecesAre ==
    ASSUME NEW o, NEW e, NEW q, NEW s, NEW m, NEW t, NEW L, Split(o, e, q, s, m, t, L)
    PROVE  /\ Len(Pieces(o, e)) = L
           /\ \A k \in 1..L : Pieces(o, e)[k] = PieceAt(o, e, q, s, m, t, k)
<1> USE DEF Split
<1> DEFINE blkno == o \div SFS_BLKSIZE
           nblks == e \div SFS_BLKSIZE - blkno
           blkoff == o % SFS_BLKSIZE
           rest == e % SFS_BLKSIZE
           first == IF blkoff # 0
                    THEN <<PieceOf(blkno, blkoff, IF nblks # 0 THEN SFS_BLKSIZE - blkoff ELSE e - o)>>
                    ELSE <<>>
           whole == [i \in 1..(nblks - Len(first)) |-> PieceOf(blkno + Len(first) + i - 1, 0, SFS_BLKSIZE)]
           last == IF rest # 0 THEN <<PieceOf(blkno + nblks, 0, rest)>> ELSE <<>>
<1>0. PICK P : P = PieceOf(q, s, IF m # q THEN SFS_BLKSIZE - s ELSE e - o)
  OBVIOUS
<1>1. PICK a, b, d, F : /\ a = first /\ b = whole /\ d = last /\ F = Len(a)
                        /\ Pieces(o, e) = IF a # <<>> /\ nblks = 0 THEN a ELSE a \o b \o d
  BY DEF Pieces, PieceOf
<1>a. a = IF s # 0 THEN <<P>> ELSE <<>>
  <2>1. nblks = m - q /\ blkno = q /\ blkoff = s /\ (m - q # 0 <=> m # q)
    OBVIOUS
  <2> QED BY <1>0, <1>1, <2>1
<1>b. b = [i \in 1..(m - q - F) |-> PieceOf(q + F + i - 1, 0, SFS_BLKSIZE)]
  <2>1. nblks = m - q /\ blkno = q
    OBVIOUS
  <2>2. b = [i \in 1..(nblks - F) |-> PieceOf(blkno + F + i - 1, 0, SFS_BLKSIZE)]
    BY <1>1, Zenon
  <2> QED BY <2>1, <2>2
<1>d. d = IF t # 0 THEN <<PieceOf(m, 0, t)>> ELSE <<>>
  <2>1. blkno + nblks = m /\ rest = t
    OBVIOUS
  <2> QED BY <1>1, <2>1
<1>p. Pieces(o, e) = IF a # <<>> /\ m = q THEN a ELSE a \o b \o d
  <2>1. nblks = 0 <=> m = q
    OBVIOUS
  <2> QED BY <1>1, <2>1
<1>n. /\ o \in Nat /\ e \in Nat /\ q \in Nat /\ s \in Nat /\ m \in Nat /\ t \in Nat /\ L \in Nat
      /\ q <= m /\ (q = m => s < t) /\ L = m - q + (IF t = 0 THEN 0 ELSE 1)
  OBVIOUS
<1> HIDE DEF blkno, nblks, blkoff, rest, first, whole, last, Split
<1> USE <1>n
<1>2. CASE s # 0 /\ m = q
  <2>1. Pieces(o, e) = <<P>> /\ L = 1
    BY <1>a, <1>p, <1>2
  <2> QED BY <1>0, <1>2, <2>1 DEF PieceAt
<1>3. CASE ~(s # 0 /\ m = q)
  <2>1. F \in Nat /\ F = (IF s # 0 THEN 1 ELSE 0) /\ F <= m - q
    BY <1>1, <1>3, <1>a
  <2>2. Pieces(o, e) = a \o b \o d
    BY <1>a, <1>p, <1>3
  <2>3. PICK S : S = [blk : Nat, off : Nat, size : Int]
    OBVIOUS
  <2>4. m - q - F \in Nat /\ q + (m - q) = m
    BY <2>1
  <2>5. a \in Seq(S) /\ Len(a) = F /\ (F = 1 => a[1] = P)
    <3>1. P \in S
      BY <1>0, <2>3, Sizes DEF PieceOf
    <3>2. CASE s # 0
      <4>1. a = <<P>>
        BY <1>a, <3>2
      <4> QED BY <1>1, <3>1, <4>1
    <3>3. CASE s = 0
      <4>1. a = <<>>
        BY <1>a, <3>3
      <4> QED BY <1>1, <2>1, <3>3, <4>1
    <3> QED BY <3>2, <3>3
  <2>7. b \in Seq(S) /\ Len(b) = m - q - F
    <3>1. PICK n \in Nat : n = m - q - F
      BY <2>4
    <3>2. ASSUME NEW i \in 1..n PROVE PieceOf(q + F + i - 1, 0, SFS_BLKSIZE) \in S
      <4>1. q + F + i - 1 \in Nat
        BY <2>1
      <4> QED BY <2>3, <4>1, Sizes DEF PieceOf
    <3>3. b = [i \in 1..n |-> PieceOf(q + F + i - 1, 0, SFS_BLKSIZE)]
      BY <1>b, <3>1
    <3>4. b \in [1..n -> S]
      BY <3>2, <3>3
    <3>5. b \in Seq(S) /\ Len(b) = n
      BY ONLY <3>4, n \in Nat
    <3> QED BY <3>1, <3>5
  <2>8. d \in Seq(S) /\ Len(d) = (IF t = 0 THEN 0 ELSE 1) /\ (t # 0 => d[1] = PieceOf(m, 0, t))
    <3>1. PieceOf(m, 0, t) \in S
      BY <2>3 DEF PieceOf
    <3>2. CASE t # 0
      <4>1. d = <<PieceOf(m, 0, t)>>
        BY <1>d, <3>2
      <4> QED BY <3>1, <3>2, <4>1
    <3>3. CASE t = 0
      <4>1. d = <<>>
        BY <1>d, <3>3
      <4> QED BY <3>3, <4>1
    <3> QED BY <3>2, <3>3
  <2>9. /\ a \o b \in Seq(S) /\ Len(a \o b) = m - q /\ \A i \in 1..F : (a \o b)[i] = a[i]
        /\ \A i \in 1..(m - q - F) : (a \o b)[F + i] = b[i]
    <3>1. /\ a \o b \in Seq(S) /\ Len(a \o b) = Len(a) + Len(b)
          /\ \A i \in 1..Len(a) : (a \o b)[i] = a[i]
          /\ \A i \in 1..Len(b) : (a \o b)[Len(a) + i] = b[i]
      <4>1. a \in Seq(S) /\ b \in Seq(S)
        BY <2>5, <2>7
      <4> QED BY ONLY <4>1, ConcatIs
    <3>2. F + (m - q - F) = m - q
      BY <2>1
    <3>3. \A i \in 1..(m - q - F) : (a \o b)[F + i] = b[i]
      BY <2>5, <2>7, <3>1
    <3> QED BY <2>5, <2>7, <3>1, <3>2, <3>3
  <2>10. PICK ab : ab = a \o b
    OBVIOUS
  <2>11. /\ Len(ab \o d) = L /\ \A i \in 1..(m - q) : (ab \o d)[i] = ab[i]
         /\ \A i \in 1..Len(d) : (ab \o d)[m - q + i] = d[i]
    <3>1. /\ Len(ab \o d) = Len(ab) + Len(d)
          /\ \A i \in 1..Len(ab) : (ab \o d)[i] = ab[i]
          /\ \A i \in 1..Len(d) : (ab \o d)[Len(ab) + i] = d[i]
      <4>1. ab \in Seq(S) /\ d \in Seq(S)
        BY <2>8, <2>9, <2>10
      <4> QED BY ONLY <4>1, ConcatIs
    <3>2. Len(ab) = m - q /\ Len(ab) + Len(d) = L
      BY <2>8, <2>9, <2>10
    <3> QED BY <3>1, <3>2
  <2>12. ASSUME NEW k \in 1..L PROVE (ab \o d)[k] = PieceAt(o, e, q, s, m, t, k)
    <3>1. CASE k <= F
      <4>1. k = 1 /\ F = 1 /\ s # 0
        BY <2>1, <3>1
      <4>2. 1 \in 1..F /\ 1 \in 1..(m - q)
        BY <2>1, <4>1
      <4>3. (ab \o d)[1] = a[1]
        BY <2>9, <2>10, <2>11, <4>2
      <4> QED BY <1>0, <2>5, <4>1, <4>3 DEF PieceAt
    <3>2. CASE k > F /\ k <= m - q
      <4>1. PICK i \in 1..(m - q - F) : k = F + i
        <5>1. k - F \in 1..(m - q - F) /\ k = F + (k - F)
          BY <2>1, <3>2
        <5> QED BY <5>1
      <4>2. (ab \o d)[k] = b[i]
        <5>1. k \in 1..(m - q)
          BY <3>2
        <5> QED BY <2>9, <2>10, <2>11, <4>1, <5>1
      <4>3. b[i] = PieceOf(q + k - 1, 0, SFS_BLKSIZE)
        <5>1. q + F + i - 1 = q + k - 1
          BY <2>1, <4>1
        <5>2. b[i] = PieceOf(q + F + i - 1, 0, SFS_BLKSIZE)
          BY <1>b, <4>1, Zenon
        <5> QED BY <5>1, <5>2
      <4>4. ~(k = 1 /\ s # 0)
        BY <2>1, <3>2
      <4> QED BY <3>2, <4>2, <4>3, <4>4 DEF PieceAt
    <3>3. CASE k > m - q
      <4>1. k = m - q + 1 /\ t # 0
        BY <3>3
      <4>2. (ab \o d)[k] = d[1]
        <5>1. 1 \in 1..Len(d)
          BY <2>8, <4>1
        <5> QED BY <2>11, <4>1, <5>1
      <4>3. ~(k = 1 /\ s # 0)
        <5>1. k = 1 => m = q
          BY <4>1
        <5> QED BY <1>3, <5>1
      <4>4. PieceAt(o, e, q, s, m, t, k) = PieceOf(m, 0, t)
        BY <3>3, <4>3 DEF PieceAt
      <4> QED BY <2>8, <4>1, <4>2, <4>4
    <3>4. k <= F \/ (k > F /\ k <= m - q) \/ k > m - q
      BY <2>1
    <3> QED BY <3>1, <3>2, <3>3, <3>4
  <2> QED BY <2>2, <2>10, <2>11, <2>12
<1> QED BY <1>2, <1>3

\* The pieces ps of a transfer of [o, e) that begins in the block q: each lies in a block, and
\* they follow each other from ends[0] = o to ends[L] = e.
Cut(ps, o, e, q, L, ends) ==
    /\ L \in Nat /\ L >= 1 /\ Len(ps) = L /\ q \in Nat
    /\ o \div SFS_BLKSIZE = q /\ RoundUpDiv(e, SFS_BLKSIZE) = q + L
    /\ ends \in [0..L -> Nat] /\ ends[0] = o /\ ends[L] = e
    /\ \A k \in 0..L : o <= ends[k] /\ ends[k] <= e /\ ends[k] \div SFS_BLKSIZE <= q + k
    /\ \A k \in 1..L :
           /\ ps[k].blk = q + k - 1 /\ ps[k].off \in Nat /\ ps[k].size \in Nat
           /\ ps[k].off + ps[k].size <= SFS_BLKSIZE
           /\ ends[k - 1] + ps[k].size = ends[k]

LEMMA TimesIs ==
    ASSUME NEW B \in Nat, B > 0, NEW a \in Nat, NEW b \in Nat, a <= b
    PROVE  /\ a * B \in Nat /\ b * B \in Nat /\ a * B <= b * B
           /\ (a + 1) * B = a * B + B
           /\ a < b => a * B + B <= b * B
           /\ (a * B) \div B = a
<1>1. PICK x \in Nat : b = a + x
  <2>1. b - a \in Nat /\ b = a + (b - a)
    OBVIOUS
  <2> QED BY <2>1
<1>2. a * B \in Nat /\ b * B \in Nat /\ b * B = a * B + x * B /\ x * B \in Nat
  BY <1>1
<1>3. (a + 1) * B = a * B + B
  OBVIOUS
<1>4. a < b => a * B + B <= b * B
  <2> SUFFICES ASSUME a < b PROVE a * B + B <= b * B
    OBVIOUS
  <2>1. PICK y \in Nat : x = y + 1
    <3>1. x - 1 \in Nat /\ x = (x - 1) + 1
      BY <1>1
    <3> QED BY <3>1
  <2>2. x * B = y * B + B /\ y * B \in Nat
    BY <2>1
  <2> QED BY <1>2, <2>2
<1>5. (a * B) \div B = a
  BY <1>2, DivUnique
<1> QED BY <1>2, <1>3, <1>4, <1>5

LEMMA CutIs ==
    ASSUME NEW o \in Nat, NEW e \in Nat, o < e
    PROVE  \E q, L, ends : Cut(Pieces(o, e), o, e, q, L, ends)
<1>0. PICK B \in Nat : B = SFS_BLKSIZE /\ B > 0
  BY Sizes
<1>1. PICK q \in Nat, s \in Nat : q = o \div B /\ s = o % B /\ s < B /\ o = q * B + s
  BY <1>0, DivIs
<1>2. PICK m \in Nat, t \in Nat : m = e \div B /\ t = e % B /\ t < B /\ e = m * B + t
  BY <1>0, DivIs
<1>3. q <= m
  <2> SUFFICES ASSUME m < q PROVE FALSE
    OBVIOUS
  <2>1. m * B + B <= q * B /\ m * B \in Nat /\ q * B \in Nat
    BY <1>0, TimesIs
  <2> QED BY <1>0, <1>1, <1>2, <2>1
<1>4. q = m => s < t
  <2>1. q * B \in Nat
    BY <1>0
  <2> QED BY <1>1, <1>2, <2>1
<1>5. PICK L \in Nat : L = m - q + (IF t = 0 THEN 0 ELSE 1) /\ L >= 1 /\ m - q <= L /\ m <= q + L
  <2>1. m - q + (IF t = 0 THEN 0 ELSE 1) \in Nat /\ m - q + (IF t = 0 THEN 0 ELSE 1) >= 1
    BY <1>3, <1>4
  <2> QED BY <1>3, <2>1
<1>6. PICK ps : /\ ps = Pieces(o, e) /\ Len(ps) = L
                /\ \A k \in 1..L : ps[k] = PieceAt(o, e, q, s, m, t, k)
  <2>1. /\ q = o \div SFS_BLKSIZE /\ s = o % SFS_BLKSIZE
        /\ m = e \div SFS_BLKSIZE /\ t = e % SFS_BLKSIZE
    BY <1>0, <1>1, <1>2
  <2>2. L = m - q + (IF t = 0 THEN 0 ELSE 1)
    BY <1>5
  <2>3. Len(Pieces(o, e)) = L /\ \A k \in 1..L : Pieces(o, e)[k] = PieceAt(o, e, q, s, m, t, k)
    <3>1. Split(o, e, q, s, m, t, L)
      BY <1>3, <1>4, <2>1, <2>2 DEF Split
    <3> QED BY <3>1, PiecesAre
  <2> QED BY <2>3
<1>7. RoundUpDiv(e, SFS_BLKSIZE) = q + L
  <2>1. RoundUpDiv(e, B) = IF t = 0 THEN m ELSE m + 1
    BY <1>0, <1>2, RoundUpIs
  <2> QED BY <1>0, <1>3, <1>5, <2>1
<1>8. PICK ends : ends = [k \in 0..L |-> IF k = 0 THEN o ELSE IF k = L THEN e ELSE (q + k) * B]
  OBVIOUS
<1>9. ends[0] = o /\ ends[L] = e
  BY <1>5, <1>8
<1>10. ASSUME NEW k \in 0..L, k # 0 \/ s = 0, k <= m - q
       PROVE  ends[k] = (q + k) * B
  <2>1. CASE k = 0
    BY <1>1, <1>5, <1>9, <1>10, <2>1
  <2>2. CASE k # 0 /\ k = L
    <3>1. t = 0 /\ q + k = m
      BY <1>3, <1>5, <1>10, <2>2
    <3>2. m * B \in Nat
      BY <1>0
    <3> QED BY <1>2, <1>9, <2>2, <3>1, <3>2
  <2>3. CASE k # 0 /\ k # L
    BY <1>8, <2>3
  <2> QED BY <2>1, <2>2, <2>3
<1>11. ASSUME NEW k \in 0..L
       PROVE  ends[k] \in Nat /\ o <= ends[k] /\ ends[k] <= e /\ ends[k] \div B <= q + k
  <2>1. CASE k = 0
    BY <1>1, <1>9, <2>1
  <2>2. CASE k = L
    BY <1>2, <1>5, <1>9, <2>2
  <2>3. CASE k # 0 /\ k # L
    <3>1. k <= m - q /\ q + k <= m /\ q < q + k /\ q + k \in Nat
      BY <1>3, <1>5, <2>3
    <3>2. ends[k] = (q + k) * B
      BY <1>10, <2>3, <3>1
    <3>3. (q + k) * B <= m * B /\ (q + k) * B \in Nat /\ ((q + k) * B) \div B = q + k /\ m * B \in Nat
      BY <1>0, <3>1, TimesIs
    <3>4. q * B + B <= (q + k) * B /\ q * B \in Nat
      BY <1>0, <3>1, TimesIs
    <3> QED BY <1>0, <1>1, <1>2, <3>1, <3>2, <3>3, <3>4
  <2> QED BY <2>1, <2>2, <2>3
<1>12. ASSUME NEW k \in 1..L
       PROVE  /\ ps[k].blk = q + k - 1 /\ ps[k].off \in Nat /\ ps[k].size \in Nat
              /\ ps[k].off + ps[k].size <= B /\ ends[k - 1] + ps[k].size = ends[k]
  <2>0. ps[k] = PieceAt(o, e, q, s, m, t, k) /\ k \in 0..L /\ k - 1 \in 0..L
    BY <1>6
  <2>1. CASE k = 1 /\ s # 0
    <3>1. ps[k] = PieceOf(q, s, IF m # q THEN SFS_BLKSIZE - s ELSE e - o)
      BY <2>0, <2>1 DEF PieceAt
    <3>2. ps[k].blk = q /\ ps[k].off = s /\ ps[k].size = IF m # q THEN B - s ELSE e - o
      BY <1>0, <3>1 DEF PieceOf
    <3>3. CASE m # q
      <4>1. ends[1] = (q + 1) * B
        BY <1>3, <1>10, <2>0, <2>1, <3>3
      <4>2. (q + 1) * B = q * B + B /\ q * B \in Nat
        BY <1>0, TimesIs
      <4> QED BY <1>0, <1>1, <1>9, <2>1, <3>2, <3>3, <4>1, <4>2
    <3>4. CASE m = q
      <4>1. L = 1 /\ ends[1] = e
        BY <1>4, <1>5, <1>9, <3>4
      <4>2. e - o = t - s /\ q * B \in Nat /\ s < t
        <5>1. q * B \in Nat
          BY <1>0
        <5> QED BY <1>1, <1>2, <1>4, <3>4, <5>1
      <4> QED BY <1>0, <1>2, <1>9, <2>1, <3>2, <3>4, <4>1, <4>2
    <3> QED BY <3>3, <3>4
  <2>2. CASE ~(k = 1 /\ s # 0) /\ k <= m - q
    <3>1. ps[k] = PieceOf(q + k - 1, 0, SFS_BLKSIZE)
      BY <2>0, <2>2 DEF PieceAt
    <3>2. ps[k].blk = q + k - 1 /\ ps[k].off = 0 /\ ps[k].size = B
      BY <1>0, <3>1 DEF PieceOf
    <3>3. ends[k] = (q + k) * B
      BY <1>10, <2>0, <2>2
    <3>4. ends[k - 1] = (q + (k - 1)) * B
      <4>1. k - 1 # 0 \/ s = 0
        BY <2>2
      <4>2. k - 1 <= m - q
        BY <1>3, <2>2
      <4> QED BY <1>10, <2>0, <4>1, <4>2
    <3>5. PICK y \in Nat : y = q + (k - 1) /\ q + k = y + 1
      <4>1. q + (k - 1) \in Nat /\ q + k = q + (k - 1) + 1
        OBVIOUS
      <4> QED BY <4>1
    <3>6. y * B + B = (y + 1) * B
      BY <1>0, TimesIs
    <3> QED BY <1>0, <3>2, <3>3, <3>4, <3>5, <3>6
  <2>3. CASE ~(k = 1 /\ s # 0) /\ k > m - q
    <3>1. k = L /\ t # 0 /\ k - 1 = m - q /\ q + (k - 1) = m
      BY <1>3, <1>5, <2>3
    <3>2. ps[k] = PieceOf(m, 0, t)
      BY <2>0, <2>3 DEF PieceAt
    <3>3. ps[k].blk = m /\ ps[k].off = 0 /\ ps[k].size = t
      BY <3>2 DEF PieceOf
    <3>4. ends[k - 1] = m * B
      <4>1. k - 1 # 0 \/ s = 0
        BY <2>3
      <4>2. k - 1 <= m - q
        BY <1>3, <3>1
      <4>3. ends[k - 1] = (q + (k - 1)) * B
        BY <1>10, <2>0, <4>1, <4>2
      <4> QED BY <3>1, <4>3
    <3> QED BY <1>0, <1>2, <1>9, <3>1, <3>3, <3>4
  <2>4. k <= m - q \/ k > m - q
    BY <1>3
  <2> QED BY <2>1, <2>2, <2>3, <2>4
<1>13. ends \in [0..L -> Nat]
  BY <1>8, <1>11
<1>14. Cut(ps, o, e, q, L, ends)
  BY <1>0, <1>1, <1>5, <1>6, <1>7, <1>9, <1>11, <1>12, <1>13 DEF Cut
<1> QED BY <1>6, <1>14

WithWords(w, dk, n) == [w EXCEPT !.disk = dk, !.alen = n]

SetWordsIs(r, w, dk, n) ==
    /\ IsCall(r) /\ r.disk = dk /\ r.alen = n
    /\ r.free = w.free /\ r.unused = w.unused /\ r.sdirty = w.sdirty /\ r.din = w.din /\ r.dirty = w.dirty
    /\ r.st = w.st /\ r.full = w.full

LEMMA SetWords ==
    ASSUME NEW w, IsCall(w), NEW dk \in Disks, NEW n \in Nat
    PROVE  SetWordsIs(WithWords(w, dk, n), w, dk, n)
<1>0. PICK r : r = WithWords(w, dk, n)
  OBVIOUS
<1>1. PICK B : B = {w.buf}
  OBVIOUS
<1>2. w \in CallsWith(B)
  BY <1>1 DEF IsCall
<1>3. r \in CallsWith(B)
  BY <1>0, <1>2 DEF CallsWith, WithWords
<1>4. /\ r.disk = dk /\ r.alen = n /\ r.buf = w.buf
      /\ r.free = w.free /\ r.unused = w.unused /\ r.sdirty = w.sdirty /\ r.din = w.din
      /\ r.dirty = w.dirty /\ r.st = w.st /\ r.full = w.full
  BY <1>0, <1>2 DEF CallsWith, WithWords
<1> QED BY <1>0, <1>1, <1>3, <1>4 DEF IsCall, SetWordsIs

WithRead(w, b, n) == [w EXCEPT !.buf = b, !.alen = n]

SetReadIs(r, w, n) ==
    /\ IsCall(r) /\ r.disk = w.disk /\ r.alen = n
    /\ r.free = w.free /\ r.unused = w.unused /\ r.sdirty = w.sdirty /\ r.din = w.din /\ r.dirty = w.dirty
    /\ r.st = w.st /\ r.full = w.full

LEMMA SetRead ==
    ASSUME NEW w, IsCall(w), NEW b, NEW n \in Nat
    PROVE  SetReadIs(WithRead(w, b, n), w, n)
<1>0. PICK r : r = WithRead(w, b, n)
  OBVIOUS
<1>1. PICK B, C : B = {w.buf} /\ C = {b}
  OBVIOUS
<1>2. w \in CallsWith(B)
  BY <1>1 DEF IsCall
<1>3. r \in CallsWith(C)
  BY <1>0, <1>1, <1>2 DEF CallsWith, WithRead
<1>4. /\ r.disk = w.disk /\ r.alen = n /\ r.buf = b
      /\ r.free = w.free /\ r.unused = w.unused /\ r.sdirty = w.sdirty /\ r.din = w.din
      /\ r.dirty = w.dirty /\ r.st = w.st /\ r.full = w.full
  BY <1>0, <1>2 DEF CallsWith, WithRead
<1> QED BY <1>0, <1>1, <1>3, <1>4 DEF IsCall, SetReadIs

\* Nothing but the words of the file, and how many were moved, has changed.
KeepsMap(r, w, c, n) ==
    /\ IsCall(r) /\ r.alen = n /\ MapOfCall(r) = MapOfCall(w)
    /\ r.free = w.free /\ r.unused = w.unused /\ r.sdirty = w.sdirty /\ r.din = w.din /\ r.dirty = w.dirty
    /\ r.st = w.st /\ r.full = w.full
    /\ \A b \in c.others : r.disk[b] = w.disk[b]

LEMMA KeptMap ==
    ASSUME NEW w, NEW c, CallExact(w, c), NEW n, NEW r, KeepsMap(r, w, c, n)
    PROVE  CallExact(r, c)
<1>1. /\ IsCall(w) /\ w.unused = Cardinality(w.free) /\ Apart(MapOfCall(w), c.others)
      /\ w.free = Blocks \ (c.others \cup Named(MapOfCall(w)))
      /\ w.din.blocks <= MaxBlocks /\ \A i \in 0..(w.din.blocks - 1) : MapOfCall(w)[i] # 0
  BY CallFacts
<1>2. w.dirty \in BOOLEAN /\ w.sdirty \in BOOLEAN /\ w.din.blocks \in Nat
  BY <1>1, CallTypes
<1>3. /\ IsCall(r) /\ r.din = w.din /\ r.dirty = w.dirty /\ r.free = w.free /\ r.unused = w.unused
      /\ r.sdirty = w.sdirty /\ r.full = w.full /\ MapOfCall(r) = MapOfCall(w)
      /\ \A b \in c.others : r.disk[b] = w.disk[b]
  BY DEF KeepsMap
<1>4. /\ r.sdirty \/ ~w.sdirty
      /\ r.dirty \/ ~w.dirty
      /\ w.din.blocks <= r.din.blocks
  BY <1>2, <1>3
<1>5. Follows(r, w, c)
  BY <1>1, <1>3, <1>4 DEF Follows
<1> QED BY <1>5, StaysExact

\* A block that the map of the file names for words is not its indirect block.
LEMMA WordsKeepMap ==
    ASSUME NEW w, NEW c, CallExact(w, c), NEW index \in Nat, index < MaxBlocks, NEW b,
           b = MapOfCall(w)[index], b # 0, NEW dk \in Disks,
           \A x \in Blocks : x # b => dk[x] = w.disk[x]
    PROVE  MapOf(w.din, dk) = MapOf(w.din, w.disk) /\ \A x \in c.others : dk[x] = w.disk[x]
<1>1. b # w.din.indirect
  <2> SUFFICES ASSUME b = w.din.indirect PROVE FALSE
    OBVIOUS
  <2>1. MapOfCall(w)[index] = MapOfCall(w)[MaxBlocks] /\ MapOfCall(w)[index] # 0
    BY CallFacts
  <2>2. index \in Slots /\ MaxBlocks \in Slots
    BY Sizes DEF Slots
  <2>3. index = MaxBlocks
    <3>1. Apart(MapOfCall(w), c.others)
      BY CallFacts
    <3> QED BY <2>1, <2>2, <3>1 DEF Apart
  <2> QED BY <2>3, Sizes
<1>2. w.din.indirect # 0 => dk[w.din.indirect] = w.disk[w.din.indirect]
  BY <1>1, CallFacts
<1>3. \A i \in Slots : At(w.din, dk, i) = At(w.din, w.disk, i)
  BY <1>2 DEF At
<1>4. MapOf(w.din, dk) = MapOf(w.din, w.disk)
  BY <1>3 DEF MapOf
<1>5. b \notin c.others /\ c.others \subseteq Blocks
  <2>1. index \in Slots
    BY Sizes DEF Slots
  <2> QED BY <2>1, CallFacts DEF CallExact
<1> QED BY <1>4, <1>5

\* The words of a piece are among those the caller gave.
LEMMA WordIs ==
    ASSUME NEW x \in Nat, NEW y \in Nat, NEW z \in Nat, NEW i \in Nat, NEW len \in Nat,
           y <= i, i <= y + z - 1, x + z <= len
    PROVE  x + i - y + 1 \in 1..len
OBVIOUS

\* sfs_wbuf, sfs_rbuf and the like move a piece that lies in its block.
LEMMA WordsMoved ==
    ASSUME NEW w, NEW c, CallExact(w, c), w.st = "ok",
           NEW index \in Nat, index < MaxBlocks, w.ino = MapOfCall(w)[index], w.ino # 0,
           NEW p, p.off \in Nat, p.size \in Nat, p.off + p.size <= SFS_BLKSIZE,
           NEW len \in Nat, NEW data \in [1..len -> Nat], w.alen + p.size <= len,
           NEW write \in BOOLEAN, NEW r, r = MoveWords(w, p, data, write)
    PROVE  KeepsMap(r, w, c, w.alen + p.size)
<1>1. IsCall(w) /\ w.alen \in Nat /\ w.disk \in Disks
  BY CallFacts, CallTypes
<1>2. PICK n \in Nat : n = w.alen + p.size
  BY <1>1
<1>3. PICK b : b = w.ino /\ b \in Blocks /\ w.disk[b] \in [Offsets -> Nat]
  <2>1. index \in Slots
    BY Sizes DEF Slots
  <2>2. w.ino \in Blocks
    BY <2>1, CallFacts
  <2> QED BY <1>1, <2>2 DEF Disks
<1>4. CASE write
  <2>1. PICK blk : blk = [i \in Offsets |-> IF i \in p.off..(p.off + p.size - 1)
                                            THEN data[w.alen + i - p.off + 1] ELSE w.disk[b][i]]
    OBVIOUS
  <2>2. PICK dk : dk = [w.disk EXCEPT ![b] = blk]
    OBVIOUS
  <2>3. r = WithWords(w, dk, n)
    BY <1>2, <1>3, <1>4, <2>1, <2>2 DEF MoveWords, Ok, WithWords
  <2>4. blk \in [Offsets -> Nat]
    <3>1. ASSUME NEW i \in Offsets, i \in p.off..(p.off + p.size - 1)
          PROVE  data[w.alen + i - p.off + 1] \in Nat
      <4>1. w.alen + i - p.off + 1 \in 1..len
        <5>1. PICK x \in Nat, y \in Nat, z \in Nat : x = w.alen /\ y = p.off /\ z = p.size
          BY <1>1
        <5>2. i \in Nat /\ y <= i /\ i <= y + z - 1 /\ x + z <= len
          BY <3>1, <5>1, Sizes DEF Offsets
        <5>3. x + i - y + 1 \in 1..len
          BY <5>2, WordIs
        <5> QED BY <5>1, <5>3
      <4> QED BY <4>1
    <3>2. ASSUME NEW i \in Offsets PROVE w.disk[b][i] \in Nat
      BY <1>3
    <3> QED BY <2>1, <3>1, <3>2
  <2>5. dk \in Disks /\ \A x \in Blocks : x # b => dk[x] = w.disk[x]
    BY <1>1, <2>2, <2>4 DEF Disks
  <2>6. MapOf(w.din, dk) = MapOf(w.din, w.disk) /\ \A x \in c.others : dk[x] = w.disk[x]
    BY <1>3, <2>5, WordsKeepMap
  <2>7. SetWordsIs(r, w, dk, n)
    BY <1>1, <2>3, <2>5, SetWords
  <2>8. MapOfCall(r) = MapOfCall(w)
    BY <2>6, <2>7 DEF MapOfCall, SetWordsIs
  <2> QED BY <1>2, <2>6, <2>7, <2>8 DEF KeepsMap, SetWordsIs
<1>5. CASE ~write
  <2>1. PICK buf : buf = w.buf \o [i \in 1..p.size |-> w.disk[w.ino][p.off + i - 1]]
    OBVIOUS
  <2>2. r = WithRead(w, buf, n)
    BY <1>2, <1>5, <2>1 DEF MoveWords, Ok, WithRead
  <2>3. SetReadIs(r, w, n)
    BY <1>1, <2>2, SetRead
  <2>4. MapOfCall(r) = MapOfCall(w)
    BY <2>3 DEF MapOfCall, SetReadIs
  <2> QED BY <1>2, <2>3, <2>4 DEF KeepsMap, SetReadIs
<1> QED BY <1>4, <1>5

\* After k pieces of a transfer that begins at o in the block q.  A failure leaves a file with
\* blocks up to where the words moved end.
Transferred(r, w, c, o, q, ends, k) ==
    \/ IsCall(r) /\ r.st = "range"
    \/ IsCall(r) /\ r.st = "index" /\ q > w.din.blocks
    \/ /\ CallExact(r, c) /\ r.din.size = w.din.size /\ w.din.blocks <= r.din.blocks
       /\ \/ /\ r.st = "ok" /\ r.full = w.full /\ o + r.alen = ends[k]
             /\ k >= 1 => q + k <= r.din.blocks
             /\ r.din.blocks = w.din.blocks \/ r.din.blocks = q + k
          \/ /\ r.st = "E_NO_MEM" /\ r.full
             /\ \E j \in Nat : j <= k /\ o + r.alen = ends[j] /\ q + j <= r.din.blocks

\* One piece of it.
LEMMA MovePieceIs ==
    ASSUME NEW w, NEW c, CallExact(w, c), w.st = "ok", NEW o \in Nat, NEW e \in Nat, NEW ps, NEW q, NEW L,
           NEW ends, Cut(ps, o, e, q, L, ends), NEW len \in Nat, NEW data \in [1..len -> Nat],
           e <= o + len, NEW write \in BOOLEAN, NEW z \in Nat, z + 1 <= L,
           NEW v, Transferred(v, w, c, o, q, ends, z), v.st = "ok",
           NEW r, r = MovePiece(v, ps[z + 1], data, write)
    PROVE  Transferred(r, w, c, o, q, ends, z + 1)
<1>1. /\ CallExact(v, c) /\ v.din.size = w.din.size /\ w.din.blocks <= v.din.blocks
      /\ v.full = w.full /\ o + v.alen = ends[z]
      /\ z >= 1 => q + z <= v.din.blocks
      /\ v.din.blocks = w.din.blocks \/ v.din.blocks = q + z
  BY DEF Transferred
<1>2. PICK p : p = ps[z + 1]
  OBVIOUS
<1>3. q \in Nat /\ L \in Nat /\ z + 1 \in 1..L /\ z \in 0..L /\ z + 1 \in 0..L
  BY DEF Cut
<1>4. /\ p.blk = q + z /\ p.off \in Nat /\ p.size \in Nat /\ p.off + p.size <= SFS_BLKSIZE
      /\ ends[z] + p.size = ends[z + 1]
  <2>1. /\ p.blk = q + (z + 1) - 1 /\ p.off \in Nat /\ p.size \in Nat /\ p.off + p.size <= SFS_BLKSIZE
        /\ ends[(z + 1) - 1] + p.size = ends[z + 1]
    BY <1>2, <1>3 DEF Cut
  <2>2. q + (z + 1) - 1 = q + z /\ (z + 1) - 1 = z
    BY <1>3
  <2> QED BY <2>1, <2>2
<1>5. ends[z] \in Nat /\ ends[z + 1] \in Nat /\ ends[z + 1] <= e
  BY <1>3 DEF Cut
<1>6. PICK b \in Nat, b0 \in Nat : b = v.din.blocks /\ b0 = w.din.blocks /\ v.alen \in Nat
  BY <1>1, CallFacts, CallTypes
<1>7. PICK u : u = sfs_bmap_load_nolock(v, q + z)
  OBVIOUS
<1>8. r = MoveWords(u, p, data, write)
  BY <1>2, <1>4, <1>7 DEF MovePiece, Ok
<1>9. Loaded(u, v, c, q + z)
  BY <1>1, <1>3, <1>7, LoadIs
<1>10. CASE u.st # "ok"
  <2>1. r = u
    BY <1>8, <1>10 DEF MoveWords, Ok
  <2>2. CASE IsCall(u) /\ u.st = "range"
    BY <2>1, <2>2 DEF Transferred
  <2>3. CASE IsCall(u) /\ u.st = "index" /\ q + z > v.din.blocks
    <3>1. q > w.din.blocks
      <4>1. z = 0
        BY <1>1, <1>3, <1>6, <2>3
      <4> QED BY <1>1, <1>3, <1>6, <2>3, <4>1
    <3> QED BY <2>1, <2>3, <3>1 DEF Transferred
  <2>4. CASE /\ CallExact(u, c) /\ u.din.size = v.din.size /\ u.alen = v.alen
             /\ u.st = "E_NO_MEM" /\ u.full /\ q + z = v.din.blocks /\ u.din.blocks = v.din.blocks
    <3>1. z \in Nat /\ z <= z + 1 /\ o + u.alen = ends[z] /\ q + z <= u.din.blocks
      BY <1>1, <1>3, <1>6, <2>4
    <3>2. u.din.size = w.din.size /\ w.din.blocks <= u.din.blocks
      BY <1>1, <2>4
    <3>3. \E j \in Nat : j <= z + 1 /\ o + u.alen = ends[j] /\ q + j <= u.din.blocks
      BY <3>1
    <3> QED BY <2>1, <2>4, <3>2, <3>3 DEF Transferred
  <2> QED BY <1>9, <1>10, <2>2, <2>3, <2>4 DEF Loaded
<1>11. CASE u.st = "ok"
  <2>1. /\ CallExact(u, c) /\ q + z < MaxBlocks /\ q + z <= v.din.blocks
        /\ u.din.size = v.din.size /\ u.alen = v.alen /\ u.full = v.full
        /\ u.ino = MapOfCall(u)[q + z] /\ u.ino # 0
        /\ u.din.blocks = IF q + z = v.din.blocks THEN (q + z) + 1 ELSE v.din.blocks
    BY <1>9, <1>11 DEF Loaded
  <2>2. u.alen + p.size <= len /\ o + (u.alen + p.size) = ends[z + 1]
    <3>1. PICK x \in Nat, y \in Nat, e0 \in Nat, e1 \in Nat :
              x = u.alen /\ y = p.size /\ e0 = ends[z] /\ e1 = ends[z + 1]
      BY <1>4, <1>5, <1>6, <2>1
    <3>2. o + x = e0 /\ e0 + y = e1 /\ e1 <= e
      BY <1>1, <1>4, <1>5, <2>1, <3>1
    <3>3. x + y <= len /\ o + (x + y) = e1
      BY <3>2
    <3> QED BY <3>1, <3>3
  <2>3. KeepsMap(r, u, c, u.alen + p.size)
    <3>1. PICK i \in Nat : i = q + z
      BY <1>3
    <3>2. CallExact(u, c) /\ i < MaxBlocks /\ u.ino = MapOfCall(u)[i] /\ u.ino # 0 /\ u.st = "ok"
      BY <1>11, <2>1, <3>1
    <3>3. p.off \in Nat /\ p.size \in Nat /\ p.off + p.size <= SFS_BLKSIZE
      BY <1>4
    <3> QED BY <1>8, <2>2, <3>2, <3>3, WordsMoved
  <2>4. CallExact(r, c)
    BY <2>1, <2>3, KeptMap
  <2>5. r.din = u.din /\ r.st = "ok" /\ r.full = u.full /\ r.alen = u.alen + p.size
    BY <1>11, <2>3 DEF KeepsMap
  <2>6. /\ q + (z + 1) <= u.din.blocks /\ w.din.blocks <= u.din.blocks
        /\ u.din.blocks = w.din.blocks \/ u.din.blocks = q + (z + 1)
    <3>1. PICK b1 : b1 = u.din.blocks
      OBVIOUS
    <3>2. b1 = IF q + z = b THEN (q + z) + 1 ELSE b
      BY <1>6, <2>1, <3>1
    <3>3. /\ b0 <= b /\ q + z <= b /\ (b = b0 \/ b = q + z)
      BY <1>1, <1>6, <2>1
    <3>4. q + (z + 1) <= b1 /\ b0 <= b1 /\ (b1 = b0 \/ b1 = q + (z + 1))
      BY <1>3, <3>2, <3>3
    <3> QED BY <1>6, <3>1, <3>4
  <2> QED BY <1>1, <2>1, <2>2, <2>4, <2>5, <2>6 DEF Transferred
<1> QED BY <1>10, <1>11

MovesOver(r, w, pieces, data, write, n) ==
    \E g : /\ r = g[n] /\ g[0] = w
           /\ \A k \in 1..n : g[k] = MovePiece(g[k - 1], pieces[k], data, write)

LEMMA MovesOverIs ==
    ASSUME NEW w, NEW pieces, NEW data, NEW write, NEW n, n \in Nat /\ n = Len(pieces),
           NEW r, r = MovePieces(w, pieces, data, write)
    PROVE  MovesOver(r, w, pieces, data, write, n)
BY MovesTurns DEF MovesOver

LEMMA MovePiecesIs ==
    ASSUME NEW w, NEW c, CallExact(w, c), w.st = "ok", w.alen = 0,
           NEW o \in Nat, NEW e \in Nat, NEW ps, NEW q, NEW L,
           NEW ends, Cut(ps, o, e, q, L, ends), NEW len \in Nat, NEW data \in [1..len -> Nat],
           e <= o + len, NEW write \in BOOLEAN, NEW r, r = MovePieces(w, ps, data, write)
    PROVE  Transferred(r, w, c, o, q, ends, L)
<1>1. w.din.blocks \in Nat /\ q \in Nat /\ L \in Nat /\ L = Len(ps) /\ ends[0] = o
  BY CallFacts, CallTypes DEF Cut
<1>3. PICK g : r = g[L] /\ g[0] = w /\ \A k \in 1..L : g[k] = MovePiece(g[k - 1], ps[k], data, write)
  <2>1. MovesOver(r, w, ps, data, write, L)
    BY <1>1, MovesOverIs
  <2> QED BY <2>1 DEF MovesOver
<1> DEFINE Bad == {x \in Nat : x <= L /\ ~Transferred(g[x], w, c, o, q, ends, x)}
<1> SUFFICES ASSUME L \in Bad PROVE FALSE
  BY <1>1, <1>3
<1>4. PICK x \in Bad : \A y \in Bad : x <= y
  BY NatLeast
<1>5. x \in 0..L /\ ~Transferred(g[x], w, c, o, q, ends, x)
  BY <1>1, <1>4
<1>6. CASE x = 0
  <2>1. Transferred(w, w, c, o, q, ends, 0)
    BY <1>1 DEF Transferred
  <2> QED BY <1>3, <1>5, <1>6, <2>1
<1>7. CASE x # 0
  <2>1. PICK z \in Nat : x = z + 1 /\ z <= L
    <3>1. x - 1 \in Nat /\ x = (x - 1) + 1 /\ x - 1 <= L
      BY <1>1, <1>5, <1>7
    <3> QED BY <3>1
  <2>2. Transferred(g[z], w, c, o, q, ends, z)
    <3>1. z \notin Bad
      BY <1>4, <2>1
    <3> QED BY <2>1, <3>1
  <2>3. PICK v, u : v = g[z] /\ u = g[z + 1]
    OBVIOUS
  <2>4. x \in 1..L /\ x - 1 = z /\ z + 1 <= L
    BY <1>1, <1>5, <2>1
  <2>5. u = MovePiece(v, ps[z + 1], data, write)
    BY <1>3, <2>1, <2>3, <2>4
  <2>6. Transferred(v, w, c, o, q, ends, z)
    BY <2>2, <2>3
  <2>7. CASE v.st # "ok"
    <3>1. u = v
      BY <2>5, <2>7 DEF MovePiece, Ok
    <3>2. Transferred(v, w, c, o, q, ends, z + 1)
      <4>1. \A j \in Nat : j <= z => j <= z + 1
        OBVIOUS
      <4> QED BY <2>6, <2>7, <4>1 DEF Transferred
    <3> QED BY <1>5, <2>1, <2>3, <3>1, <3>2
  <2>8. CASE v.st = "ok"
    <3>1. Transferred(u, w, c, o, q, ends, z + 1)
      BY <2>4, <2>5, <2>6, <2>8, MovePieceIs
    <3> QED BY <1>5, <2>1, <2>3, <3>1
  <2> QED BY <2>7, <2>8
<1> QED BY <1>6, <1>7

LEMMA DivMono ==
    ASSUME NEW a \in Nat, NEW b \in Nat, a <= b, NEW B \in Nat, B > 0
    PROVE  a \div B <= b \div B /\ RoundUpDiv(a, B) <= RoundUpDiv(b, B) /\ a \div B <= RoundUpDiv(a, B)
           /\ RoundUpDiv(a, B) \in Nat
<1>1. ASSUME NEW x \in Nat, NEW y \in Nat, x <= y PROVE x \div B <= y \div B /\ x \div B \in Nat
  <2>1. PICK p \in Nat, s \in Nat : p = x \div B /\ s = x % B /\ s < B /\ x = p * B + s
    BY DivIs
  <2>2. PICK q \in Nat, t \in Nat : q = y \div B /\ t = y % B /\ t < B /\ y = q * B + t
    BY DivIs
  <2>3. ~(q < p)
    <3> SUFFICES ASSUME q < p PROVE FALSE
      OBVIOUS
    <3>1. q * B + B <= p * B /\ q * B \in Nat /\ p * B \in Nat
      BY TimesIs
    <3> QED BY <1>1, <2>1, <2>2, <3>1
  <2> QED BY <2>1, <2>2, <2>3
<1>2. a + B - 1 \in Nat /\ b + B - 1 \in Nat /\ a + B - 1 <= b + B - 1 /\ a <= a + B - 1
  OBVIOUS
<1>3. (a + B - 1) \div B <= (b + B - 1) \div B /\ (a + B - 1) \div B \in Nat
  BY <1>1, <1>2
<1>4. a \div B <= (a + B - 1) \div B
  BY <1>1, <1>2
<1>5. a \div B <= b \div B
  BY <1>1
<1> QED BY <1>3, <1>4, <1>5 DEF RoundUpDiv

\* Where the size of a file v ends up after words were moved from o on.
Larger(v, o) == IF o + v.alen > v.din.size THEN o + v.alen ELSE v.din.size

\* The end of sfs_io_nolock.
GrowsTo(r, v, c, o) ==
    /\ CallExact(r, c) /\ r.st = v.st /\ r.full = v.full /\ r.alen = v.alen
    /\ r.din.size = Larger(v, o) /\ r.din.blocks = v.din.blocks

LEMMA GrowIs ==
    ASSUME NEW v, NEW c, CallExact(v, c), NEW o \in Nat, NEW r, r = Grow(v, o)
    PROVE  GrowsTo(r, v, c, o)
<1>1. v.din \in DiskInodes /\ v.din.size \in Nat /\ v.alen \in Nat
  BY CallFacts, CallTypes
<1>2. CASE o + v.alen > v.din.size
  <2>1. PICK len \in Nat : len = o + v.alen
    BY <1>1
  <2>2. PICK n : n = [v.din EXCEPT !.size = len]
    OBVIOUS
  <2>3. /\ n \in DiskInodes /\ n.size = len /\ n.blocks = v.din.blocks /\ n.direct = v.din.direct
        /\ n.indirect = v.din.indirect
    BY <1>1, <2>2 DEF DiskInodes
  <2>4. r = WithDin(v, n)
    BY <1>2, <2>1, <2>2 DEF Grow, WithDin
  <2>5. CallExact(r, c) /\ r.din = n /\ r.st = v.st /\ r.full = v.full /\ r.alen = v.alen
    BY <2>3, <2>4, ChangedSize
  <2> QED BY <1>2, <2>1, <2>3, <2>5 DEF GrowsTo, Larger
<1>3. CASE ~(o + v.alen > v.din.size)
  <2>1. r = v
    BY <1>3 DEF Grow
  <2> QED BY <1>3, <2>1 DEF GrowsTo, Larger
<1> QED BY <1>2, <1>3

\* The result of sfs_io_nolock of len words from offset o: a panic that a block is missing
\* only if o is beyond the end of the file; else no more than len words were moved, and the
\* file reaches to where they end.
IoDone(r, w, c, o, len) ==
    \/ r.st = "range"
    \/ r.st = "index" /\ o > w.din.size
    \/ /\ CallExact(r, c) /\ SizeFits(r.din, r.full)
       /\ r.st \in {"ok", "E_NO_MEM", "E_INVAL"} /\ r.alen <= len
       /\ r.alen # 0 => o + r.alen <= r.din.size

\* What is left when all pieces were moved, or the disk was full before the last one.
LEMMA TransferFits ==
    ASSUME NEW w, NEW c, IsCall(w), SizeFits(w.din, w.full), NEW o \in Nat, NEW e \in Nat, NEW ps, NEW q, NEW L,
           NEW ends, Cut(ps, o, e, q, L, ends), NEW v, Transferred(v, w, c, o, q, ends, L),
           v.st = "ok" \/ v.st = "E_NO_MEM", NEW r, GrowsTo(r, v, c, o)
    PROVE  SizeFits(r.din, r.full) /\ o + r.alen <= e /\ o + r.alen <= r.din.size
<1>0. /\ CallExact(v, c) /\ v.din.size = w.din.size /\ w.din.blocks <= v.din.blocks
      /\ \/ /\ v.st = "ok" /\ v.full = w.full /\ o + v.alen = ends[L]
            /\ L >= 1 => q + L <= v.din.blocks
            /\ v.din.blocks = w.din.blocks \/ v.din.blocks = q + L
         \/ /\ v.st = "E_NO_MEM" /\ v.full
            /\ \E j \in Nat : j <= L /\ o + v.alen = ends[j] /\ q + j <= v.din.blocks
  BY DEF Transferred
<1>1. PICK a \in Nat, s \in Nat, b \in Nat, b0 \in Nat :
          a = v.alen /\ s = w.din.size /\ b = v.din.blocks /\ b0 = w.din.blocks /\ b0 <= b
  BY <1>0, CallFacts, CallTypes
<1>2. PICK B \in Nat : B = SFS_BLKSIZE /\ B > 0
  BY Sizes
<1>3. /\ q \in Nat /\ L \in Nat /\ L >= 1 /\ RoundUpDiv(e, B) = q + L /\ ends[L] = e
      /\ \A k \in 0..L : ends[k] \in Nat /\ ends[k] <= e /\ ends[k] \div B <= q + k
  BY <1>2 DEF Cut
<1>4. s \div B <= b0 /\ s \div B \in Nat /\ (~w.full => b0 = RoundUpDiv(s, B))
  BY <1>1, <1>2, DivIs DEF SizeFits
<1>5. PICK m \in Nat : m = Larger(v, o) /\ m = (IF o + a > s THEN o + a ELSE s)
  BY <1>0, <1>1 DEF Larger
<1>6. /\ o + a <= e /\ (o + a) \div B <= b
      /\ ~v.full => /\ ~w.full /\ o + a = e /\ q + L <= b
                    /\ b = b0 \/ b = q + L
  <2>1. CASE v.st = "ok"
    <3>1. v.full = w.full /\ o + a = e /\ q + L <= b /\ (b = b0 \/ b = q + L)
      BY <1>0, <1>1, <1>3, <2>1
    <3>2. e \div B <= q + L /\ e \div B \in Nat
      BY <1>2, <1>3, DivIs
    <3>3. (o + a) \div B <= b
      BY <1>3, <3>1, <3>2
    <3> QED BY <3>1, <3>3
  <2>2. CASE v.st = "E_NO_MEM"
    <3>1. PICK j \in Nat : j <= L /\ o + a = ends[j] /\ q + j <= b
      BY <1>0, <1>1, <2>2
    <3>2. v.full
      BY <1>0, <2>2
    <3>3. j \in 0..L
      BY <1>3, <3>1
    <3>4. o + a <= e /\ (o + a) \div B <= q + j /\ (o + a) \div B \in Nat
      BY <1>2, <1>3, <3>1, <3>3, DivIs
    <3> QED BY <1>3, <3>1, <3>2, <3>4
  <2> QED BY <2>1, <2>2
<1>7. m \div B <= b
  BY <1>1, <1>4, <1>5, <1>6
<1>8. ~v.full => b = RoundUpDiv(m, B)
  <2> SUFFICES ASSUME ~v.full PROVE b = RoundUpDiv(m, B)
    OBVIOUS
  <2>1. ~w.full /\ o + a = e /\ q + L <= b /\ (b = b0 \/ b = q + L) /\ b0 = RoundUpDiv(s, B)
    BY <1>4, <1>6
  <2>2. CASE o + a > s
    <3>1. m = e /\ s <= e
      BY <1>5, <2>1, <2>2
    <3>2. RoundUpDiv(s, B) <= RoundUpDiv(e, B)
      BY <1>2, <3>1, DivMono
    <3> QED BY <1>3, <2>1, <3>1, <3>2
  <2>3. CASE ~(o + a > s)
    <3>1. m = s /\ e <= s
      BY <1>5, <2>1, <2>3
    <3>2. RoundUpDiv(e, B) <= RoundUpDiv(s, B)
      BY <1>2, <3>1, DivMono
    <3> QED BY <1>1, <1>3, <2>1, <3>1, <3>2
  <2> QED BY <2>2, <2>3
<1>9. r.din.size = m /\ r.din.blocks = b /\ r.full = v.full /\ r.alen = a
  BY <1>1, <1>5 DEF GrowsTo
<1>10. SizeFits(r.din, r.full)
  BY <1>2, <1>7, <1>8, <1>9 DEF SizeFits
<1> QED BY <1>5, <1>6, <1>9, <1>10

LEMMA IoIs ==
    ASSUME NEW w, NEW c, CallExact(w, c), w.st = "ok", SizeFits(w.din, w.full), NEW o \in Nat,
           NEW len \in Nat, len > 0, NEW data \in [1..len -> Nat], NEW write \in BOOLEAN,
           NEW r, r = sfs_io_nolock(w, o, len, data, write)
    PROVE  IoDone(r, w, c, o, len)
<1>1. IsCall(w) /\ w.din.size \in Nat /\ w.full \in BOOLEAN
  BY CallFacts, CallTypes
<1>2. PICK w0 : w0 = WithRead(w, <<>>, 0)
  OBVIOUS
<1>3. SetReadIs(w0, w, 0)
  BY <1>1, <1>2, SetRead
<1>4. w0.alen = 0 /\ w0.din = w.din /\ w0.st = "ok" /\ w0.full = w.full /\ IsCall(w0)
  BY <1>3 DEF SetReadIs
<1>5. KeepsMap(w0, w, c, 0)
  BY <1>3 DEF KeepsMap, SetReadIs, MapOfCall
<1>6. CallExact(w0, c)
  BY <1>5, KeptMap
<1>7. CASE o >= SFS_MAX_FILE_SIZE
  <2>1. PICK s \in Statuses : s = "E_INVAL"
    BY StatusIs
  <2>2. r = WithSt(w0, s)
    BY <1>2, <1>7, <2>1 DEF sfs_io_nolock, WithRead, WithSt
  <2>3. CallExact(r, c) /\ r.din = w0.din /\ r.st = s /\ r.full = w0.full /\ r.alen = w0.alen
    BY <1>6, <2>2, ChangedSt
  <2>4. SizeFits(r.din, r.full) /\ r.alen = 0 /\ r.st = "E_INVAL"
    BY <1>4, <2>1, <2>3
  <2> QED BY <2>3, <2>4 DEF IoDone
<1>8. CASE ~(o >= SFS_MAX_FILE_SIZE) /\ ~write /\ o >= w.din.size
  <2>1. r = w0
    BY <1>2, <1>8 DEF sfs_io_nolock, WithRead
  <2>2. SizeFits(r.din, r.full)
    BY <1>4, <2>1
  <2> QED BY <1>4, <1>6, <2>1, <2>2 DEF IoDone
<1>9. CASE ~(o >= SFS_MAX_FILE_SIZE) /\ ~(~write /\ o >= w.din.size)
  <2>1. PICK ends : ends = {o + len, SFS_MAX_FILE_SIZE} \cup IF write THEN {} ELSE {w.din.size}
    OBVIOUS
  <2>2. PICK e \in Nat : e = Min(ends) /\ o < e /\ e <= o + len
    <3>1. ends \subseteq Nat /\ o + len \in ends /\ \A x \in ends : o < x
      BY <1>1, <1>9, <2>1, Sizes
    <3>2. Min(ends) \in ends /\ Min(ends) <= o + len
      BY <3>1, MinIs
    <3> QED BY <3>1, <3>2
  <2>3. PICK v : v = MovePieces(w0, Pieces(o, e), data, write)
    OBVIOUS
  <2>4. r = Grow(v, o)
    BY <1>2, <1>9, <2>1, <2>2, <2>3 DEF sfs_io_nolock, WithRead
  <2>5. PICK ps : ps = Pieces(o, e)
    OBVIOUS
  <2>6. PICK q, L, at : Cut(ps, o, e, q, L, at)
    BY <2>2, <2>5, CutIs
  <2>7. Transferred(v, w0, c, o, q, at, L)
    BY <1>4, <1>6, <2>2, <2>3, <2>5, <2>6, MovePiecesIs
  <2>8. CASE IsCall(v) /\ (v.st = "range" \/ v.st = "index")
    <3>1. r.st = v.st
      <4>1. v \in CallsWith({v.buf})
        BY <2>8 DEF IsCall
      <4> QED BY <2>4, <4>1 DEF Grow, CallsWith
    <3>2. CASE v.st = "range"
      BY <3>1, <3>2 DEF IoDone
    <3>3. CASE v.st = "index"
      <4>1. q > w.din.blocks
        <5>1. v.st # "range" /\ v.st # "ok" /\ v.st # "E_NO_MEM"
          BY <3>3
        <5> QED BY <1>4, <2>7, <5>1 DEF Transferred
      <4>2. q = o \div SFS_BLKSIZE
        BY <2>6 DEF Cut
      <4>3. w.din.size \div SFS_BLKSIZE <= w.din.blocks /\ w.din.blocks \in Nat
        BY <1>1, CallTypes DEF SizeFits
      <4>4. ~(o <= w.din.size)
        <5> SUFFICES ASSUME o <= w.din.size PROVE FALSE
          OBVIOUS
        <5>1. o \div SFS_BLKSIZE <= w.din.size \div SFS_BLKSIZE
          BY <1>1, Sizes, DivMono
        <5>2. o \div SFS_BLKSIZE \in Nat /\ w.din.size \div SFS_BLKSIZE \in Nat
          BY <1>1, Sizes, DivIs
        <5> QED BY <4>1, <4>2, <4>3, <5>1, <5>2
      <4>5. o > w.din.size
        BY <1>1, <4>4
      <4> QED BY <3>1, <3>3, <4>5 DEF IoDone
    <3> QED BY <2>8, <3>2, <3>3
  <2>9. CASE CallExact(v, c) /\ (v.st = "ok" \/ v.st = "E_NO_MEM")
    <3>1. GrowsTo(r, v, c, o)
      BY <2>4, <2>9, GrowIs
    <3>2. SizeFits(w0.din, w0.full)
      BY <1>4
    <3>3. SizeFits(r.din, r.full) /\ o + r.alen <= e /\ o + r.alen <= r.din.size
      BY <1>4, <2>2, <2>6, <2>7, <2>9, <3>1, <3>2, TransferFits
    <3>4. CallExact(r, c) /\ r.st = v.st
      BY <3>1 DEF GrowsTo
    <3>5. r.alen \in Nat
      BY <3>4, CallFacts, CallTypes
    <3>6. r.alen <= len
      BY <2>2, <3>3, <3>5
    <3> QED BY <2>9, <3>3, <3>4, <3>6 DEF IoDone
  <2> QED BY <2>7, <2>8, <2>9 DEF Transferred
<1> QED BY <1>7, <1>8, <1>9

-----------------------------------------------------------------------------
(* The loops of sysfile_read and sysfile_write.                             *)

LEMMA DataIs ==
    ASSUME NEW len \in Nat, NEW k \in Nat, NEW n \in Nat, k + n <= len
    PROVE  SubSeq(Data(len), k + 1, k + n) \in [1..n -> Nat]
<1>1. PICK s : s = Data(len)
  OBVIOUS
<1>2. s \in [1..len -> Nat]
  BY <1>1 DEF Data
<1>3. s \in Seq(Nat) /\ Len(s) = len
  BY <1>2
<1>4. SubSeq(s, k + 1, k + n) \in Seq(Nat) /\ Len(SubSeq(s, k + 1, k + n)) = n
  BY <1>3
<1>5. PICK t : t = SubSeq(s, k + 1, k + n)
  OBVIOUS
<1>6. t \in Seq(Nat) /\ Len(t) = n
  BY <1>4, <1>5
<1>7. t \in [1..n -> Nat]
  BY <1>6
<1> QED BY <1>1, <1>5, <1>7

\* Between two chunks of a transfer that began at p0 with the call w.
Chunking(v, w, c, p0, len) ==
    \/ v.stop /\ v.w.st = "range"
    \/ v.stop /\ v.w.st = "index" /\ p0 > w.din.size
    \/ /\ CallExact(v.w, c) /\ SizeFits(v.w.din, v.w.full) /\ v.pos \in Nat
       /\ v.w.st \in {"ok", "E_NO_MEM", "E_INVAL"}
       /\ ~v.stop => /\ v.w.st = "ok" /\ v.copied \in Nat /\ v.copied < len
                     /\ (v.w = w /\ v.pos = p0) \/ v.pos <= v.w.din.size

LEMMA MovedIs ==
    ASSUME NEW v, NEW u, NEW len, NEW r, r = Moved(v, u, len)
    PROVE  /\ r.w = u /\ r.pos = v.pos + u.alen /\ r.copied = v.copied + u.alen
           /\ r.stop <=> (u.st # "ok" \/ u.alen = 0 \/ v.copied + u.alen = len)
BY DEF Moved, Ok

LEMMA ChunkIs ==
    ASSUME NEW w, NEW c, NEW p0, NEW len \in Nat, NEW write \in BOOLEAN, NEW v,
           Chunking(v, w, c, p0, len), ~v.stop, NEW r, r = Chunk(v, len, write)
    PROVE  Chunking(r, w, c, p0, len)
<1>1. /\ CallExact(v.w, c) /\ SizeFits(v.w.din, v.w.full) /\ v.pos \in Nat
      /\ v.w.st = "ok" /\ v.copied \in Nat /\ v.copied < len
      /\ (v.w = w /\ v.pos = p0) \/ v.pos <= v.w.din.size
  BY DEF Chunking
<1>2. PICK k \in Nat, p \in Nat : k = v.copied /\ p = v.pos /\ k < len
  BY <1>1
<1>3. PICK x : x = v.w
  OBVIOUS
<1>4. PICK n \in Nat : n = Min({IOBUF_SIZE, len - v.copied}) /\ n > 0 /\ k + n <= len
  <2>1. PICK T : T = {IOBUF_SIZE, len - k}
    OBVIOUS
  <2>2. T \subseteq Nat /\ T # {} /\ len - k \in T /\ \A y \in T : y > 0
    BY <1>2, <2>1, Sizes DEF IOBUF_SIZE
  <2>3. PICK n : n = Min(T) /\ n \in T /\ n <= len - k
    BY <2>2, MinIs
  <2>4. n \in Nat /\ n > 0 /\ k + n <= len
    BY <1>2, <2>2, <2>3
  <2> QED BY <1>2, <2>1, <2>3, <2>4
<1>5. PICK d : d = SubSeq(Data(len), k + 1, k + n) /\ d \in [1..n -> Nat]
  BY <1>4, DataIs
<1>6. PICK u : u = sfs_io_nolock(x, p, n, d, write)
  OBVIOUS
<1>7. r = Moved(v, u, len)
  BY <1>2, <1>3, <1>4, <1>5, <1>6 DEF Chunk
<1>8. IoDone(u, x, c, p, n)
  <2>1. CallExact(x, c) /\ x.st = "ok" /\ SizeFits(x.din, x.full)
    BY <1>1, <1>3
  <2> QED BY <1>4, <1>5, <1>6, <2>1, IoIs
<1>9. /\ r.w = u /\ r.pos = p + u.alen /\ r.copied = k + u.alen
      /\ r.stop <=> (u.st # "ok" \/ u.alen = 0 \/ k + u.alen = len)
  BY <1>2, <1>7, MovedIs
<1>10. CASE u.st = "range"
  <2>1. r.stop
    BY <1>9, <1>10
  <2> QED BY <1>9, <1>10, <2>1 DEF Chunking
<1>11. CASE u.st = "index" /\ p > x.din.size
  <2>1. r.stop
    BY <1>9, <1>11
  <2>2. x.din.size \in Nat
    BY <1>1, <1>3, CallFacts, CallTypes
  <2>3. v.w = w /\ v.pos = p0
    BY <1>1, <1>2, <1>3, <1>11, <2>2
  <2>4. p0 > w.din.size
    BY <1>2, <1>3, <1>11, <2>3
  <2> QED BY <1>9, <1>11, <2>1, <2>4 DEF Chunking
<1>12. CASE /\ CallExact(u, c) /\ SizeFits(u.din, u.full)
            /\ u.st \in {"ok", "E_NO_MEM", "E_INVAL"} /\ u.alen <= n
            /\ u.alen # 0 => p + u.alen <= u.din.size
  <2>1. PICK a \in Nat : a = u.alen
    BY <1>12, CallFacts, CallTypes
  <2>2. r.pos \in Nat
    BY <1>9, <2>1
  <2>3. ASSUME ~r.stop
        PROVE  r.w.st = "ok" /\ r.copied \in Nat /\ r.copied < len /\ r.pos <= r.w.din.size
    <3>1. u.st = "ok" /\ a # 0 /\ k + a # len
      BY <1>9, <2>1, <2>3
    <3>2. k + a < len /\ k + a \in Nat
      BY <1>4, <1>12, <2>1, <3>1
    <3>3. p + a <= u.din.size
      BY <1>12, <2>1, <3>1
    <3> QED BY <1>9, <2>1, <3>1, <3>2, <3>3
  <2> QED BY <1>9, <1>12, <2>2, <2>3 DEF Chunking
<1> QED BY <1>8, <1>10, <1>11, <1>12 DEF IoDone

ChunksOver(r, v, len, write) ==
    \E g : /\ r = g[len + 1] /\ g[0] = v
           /\ \A k \in 1..(len + 1) : g[k] = NextChunk(g[k - 1], len, write)

LEMMA ChunksOverIs ==
    ASSUME NEW v, NEW len \in Nat, NEW write, NEW r, r = Chunks(v, len, write)
    PROVE  ChunksOver(r, v, len, write)
<1>1. PICK n \in Nat : n = len + 1
  OBVIOUS
<1>2. \E g : /\ Chunks(v, len, write) = g[n] /\ g[0] = v
             /\ \A k \in 1..n : g[k] = NextChunk(g[k - 1], len, write)
  BY <1>1, RwsTurns
<1> QED BY <1>1, <1>2 DEF ChunksOver

LEMMA ChunksIs ==
    ASSUME NEW w, NEW c, NEW p0, NEW len \in Nat, NEW write \in BOOLEAN, NEW v,
           Chunking(v, w, c, p0, len), NEW r, r = Chunks(v, len, write)
    PROVE  Chunking(r, w, c, p0, len)
<1>1. PICK L \in Nat : L = len + 1
  OBVIOUS
<1>3. PICK g : r = g[L] /\ g[0] = v /\ \A k \in 1..L : g[k] = NextChunk(g[k - 1], len, write)
  <2>1. ChunksOver(r, v, len, write)
    BY ChunksOverIs
  <2> QED BY <1>1, <2>1 DEF ChunksOver
<1> DEFINE Bad == {x \in Nat : x <= L /\ ~Chunking(g[x], w, c, p0, len)}
<1> SUFFICES ASSUME L \in Bad PROVE FALSE
  BY <1>1, <1>3
<1>4. PICK x \in Bad : \A y \in Bad : x <= y
  BY NatLeast
<1>5. x \in 0..L /\ ~Chunking(g[x], w, c, p0, len)
  BY <1>1, <1>4
<1>6. CASE x = 0
  BY <1>3, <1>5, <1>6
<1>7. CASE x # 0
  <2>1. PICK z \in Nat : x = z + 1 /\ z <= L
    <3>1. x - 1 \in Nat /\ x = (x - 1) + 1 /\ x - 1 <= L
      BY <1>1, <1>5, <1>7
    <3> QED BY <3>1
  <2>2. Chunking(g[z], w, c, p0, len)
    <3>1. z \notin Bad
      BY <1>4, <2>1
    <3> QED BY <2>1, <3>1
  <2>3. PICK y, u : y = g[z] /\ u = g[x]
    OBVIOUS
  <2>4. x \in 1..L /\ x - 1 = z
    BY <1>1, <1>5, <2>1
  <2>5. u = NextChunk(y, len, write)
    BY <1>3, <2>3, <2>4
  <2>6. Chunking(y, w, c, p0, len)
    BY <2>2, <2>3
  <2>7. CASE y.stop
    <3>1. u = y
      BY <2>5, <2>7 DEF NextChunk
    <3> QED BY <1>5, <2>3, <2>6, <3>1
  <2>8. CASE ~y.stop
    <3>1. u = Chunk(y, len, write)
      BY <2>5, <2>8 DEF NextChunk
    <3>2. Chunking(u, w, c, p0, len)
      BY <2>6, <2>8, <3>1, ChunkIs
    <3> QED BY <1>5, <2>3, <3>2
  <2> QED BY <2>7, <2>8
<1> QED BY <1>6, <1>7

-----------------------------------------------------------------------------
(* The files together.                                                      *)

LEMMA HeldSplits ==
    ASSUME NEW nodes, NEW dk, NEW f \in Files
    PROVE  HeldOf(nodes, dk) = OthersOf(nodes, dk, f) \cup Holds(nodes[f], dk)
BY DEF HeldOf, OthersOf

LEMMA HoldsIs ==
    ASSUME NEW n, NEW dk, NEW others, MapExact(n, dk, others)
    PROVE  /\ Holds(n, dk) \subseteq Blocks \ others
           /\ n.indirect # 0 => n.indirect \in Holds(n, dk)
<1>1. Apart(MapOf(n, dk), others)
  BY DEF MapExact
<1>2. Holds(n, dk) \subseteq Blocks \ others
  BY <1>1 DEF Apart, Holds, Named
<1>3. MaxBlocks \in Slots /\ At(n, dk, MaxBlocks) = n.indirect
  BY Sizes DEF Slots, At
<1>4. MapOf(n, dk)[MaxBlocks] = n.indirect
  BY <1>3 DEF MapOf
<1>5. n.indirect # 0 => n.indirect \in Holds(n, dk)
  BY <1>3, <1>4 DEF Holds, Named
<1> QED BY <1>2, <1>5

\* The others of a file hold blocks of the disk, and each file is one of the others' others.
LEMMA OthersIs ==
    ASSUME NEW nodes, NEW dk, NodesExact(nodes, dk), NEW f \in Files
    PROVE  /\ OthersOf(nodes, dk, f) \subseteq Blocks
           /\ \A g \in Files \ {f} : Holds(nodes[g], dk) \subseteq OthersOf(nodes, dk, f)
<1>1. ASSUME NEW g \in Files PROVE Holds(nodes[g], dk) \subseteq Blocks
  <2>1. MapExact(nodes[g], dk, OthersOf(nodes, dk, g))
    BY DEF NodesExact
  <2> QED BY <2>1, HoldsIs
<1> QED BY <1>1 DEF OthersOf

\* The map of an inode depends on the disk only where its indirect block is.
LEMMA MapDepends ==
    ASSUME NEW n, NEW dk, NEW dk2, n.indirect # 0 => dk2[n.indirect] = dk[n.indirect]
    PROVE  MapOf(n, dk2) = MapOf(n, dk)
<1>1. \A i \in Slots : At(n, dk2, i) = At(n, dk, i)
  BY DEF At
<1> QED BY <1>1 DEF MapOf

\* A call on file f ends: f has inode n and the disk is dk2.
Replaced(nodes, dk, f, n, nodes2, dk2) ==
    /\ NodesExact(nodes, dk) /\ f \in Files /\ n \in DiskInodes
    /\ MapExact(n, dk2, OthersOf(nodes, dk, f))
    /\ \A b \in OthersOf(nodes, dk, f) : dk2[b] = dk[b]
    /\ nodes2[f] = n /\ \A g \in Files \ {f} : nodes2[g] = nodes[g]

LEMMA ReplacedIs ==
    ASSUME NEW nodes, NEW dk, NEW f, NEW n, NEW nodes2, NEW dk2, Replaced(nodes, dk, f, n, nodes2, dk2)
    PROVE  /\ NodesExact(nodes2, dk2)
           /\ HeldOf(nodes2, dk2) = OthersOf(nodes, dk, f) \cup Holds(n, dk2)
<1>1. /\ NodesExact(nodes, dk) /\ f \in Files /\ n \in DiskInodes
      /\ MapExact(n, dk2, OthersOf(nodes, dk, f))
      /\ \A b \in OthersOf(nodes, dk, f) : dk2[b] = dk[b]
      /\ nodes2[f] = n /\ \A g \in Files \ {f} : nodes2[g] = nodes[g]
  BY DEF Replaced
<1>2. PICK O : O = OthersOf(nodes, dk, f)
  OBVIOUS
<1>3. ASSUME NEW g \in Files \ {f}
      PROVE  /\ nodes2[g] = nodes[g] /\ MapOf(nodes2[g], dk2) = MapOf(nodes[g], dk)
             /\ Holds(nodes2[g], dk2) = Holds(nodes[g], dk) /\ Holds(nodes[g], dk) \subseteq O
  <2>1. MapExact(nodes[g], dk, OthersOf(nodes, dk, g))
    BY <1>1 DEF NodesExact
  <2>2. Holds(nodes[g], dk) \subseteq O
    BY <1>1, <1>2, OthersIs
  <2>3. nodes[g].indirect # 0 => dk2[nodes[g].indirect] = dk[nodes[g].indirect]
    BY <1>1, <1>2, <2>1, <2>2, HoldsIs
  <2>4. MapOf(nodes[g], dk2) = MapOf(nodes[g], dk)
    BY <2>3, MapDepends
  <2>5. nodes2[g] = nodes[g]
    BY <1>1
  <2> QED BY <2>2, <2>4, <2>5 DEF Holds
<1>4. OthersOf(nodes2, dk2, f) = O
  BY <1>2, <1>3 DEF OthersOf
<1>5. HeldOf(nodes2, dk2) = O \cup Holds(n, dk2)
  BY <1>1, <1>4, HeldSplits
<1>6. Holds(n, dk2) \subseteq Blocks \ O
  BY <1>1, <1>2, HoldsIs
<1>7. ASSUME NEW g \in Files
      PROVE  nodes2[g] \in DiskInodes /\ MapExact(nodes2[g], dk2, OthersOf(nodes2, dk2, g))
  <2>1. CASE g = f
    BY <1>1, <1>2, <1>4, <2>1
  <2>2. CASE g # f
    <3>1. g \in Files \ {f}
      BY <2>2
    <3>2. nodes[g] \in DiskInodes /\ MapExact(nodes[g], dk, OthersOf(nodes, dk, g))
      BY <1>1 DEF NodesExact
    <3>3. PICK a : a = MapOf(nodes[g], dk)
      OBVIOUS
    <3>4. /\ Apart(a, OthersOf(nodes, dk, g)) /\ nodes[g].blocks <= MaxBlocks
          /\ \A i \in 0..(nodes[g].blocks - 1) : a[i] # 0
      BY <3>2, <3>3 DEF MapExact
    <3>5. \A i \in Slots : a[i] # 0 => a[i] \in Holds(nodes[g], dk)
      BY <3>3 DEF Holds, Named
    <3>6. ASSUME NEW i \in Slots, a[i] # 0 PROVE a[i] \in Blocks \ OthersOf(nodes2, dk2, g)
      <4>1. a[i] \in Blocks \ OthersOf(nodes, dk, g)
        BY <3>4, <3>6 DEF Apart
      <4>2. a[i] \in O
        BY <1>3, <3>1, <3>5, <3>6
      <4>3. a[i] \notin Holds(n, dk2)
        BY <1>6, <4>2
      <4>4. ASSUME NEW h \in Files \ {g} PROVE a[i] \notin Holds(nodes2[h], dk2)
        <5>1. CASE h = f
          BY <1>1, <4>3, <5>1
        <5>2. CASE h # f
          <6>1. Holds(nodes2[h], dk2) = Holds(nodes[h], dk)
            BY <1>3, <5>2
          <6> QED BY <4>1, <6>1 DEF OthersOf
        <5> QED BY <5>1, <5>2
      <4> QED BY <4>1, <4>4 DEF OthersOf
    <3>7. Apart(a, OthersOf(nodes2, dk2, g))
      BY <3>4, <3>6 DEF Apart
    <3>8. nodes2[g] = nodes[g] /\ MapOf(nodes2[g], dk2) = a
      BY <1>3, <3>1, <3>3
    <3>9. MapExact(nodes2[g], dk2, OthersOf(nodes2, dk2, g))
      BY <3>4, <3>7, <3>8 DEF MapExact
    <3> QED BY <3>2, <3>8, <3>9
  <2> QED BY <2>1, <2>2
<1>8. NodesExact(nodes2, dk2)
  BY <1>7 DEF NodesExact
<1> QED BY <1>2, <1>5, <1>8

-----------------------------------------------------------------------------
(* The steps.                                                               *)

Context(f) ==
    [others |-> OthersOf(Nodes, disk, f), disk |-> disk, full |-> full,
     store |-> store[f], image |-> image]

LEMMA ContextIs ==
    ASSUME NEW f
    PROVE  /\ Context(f).others = OthersOf(Nodes, disk, f) /\ Context(f).disk = disk
           /\ Context(f).full = full /\ Context(f).store = store[f] /\ Context(f).image = image
BY DEF Context

\* A call begins with an inode, a free map and a disk that fit.
Begins(w, f) ==
    /\ CallExact(w, Context(f)) /\ w.st = "ok" /\ SizeFits(w.din, w.full) /\ w.full = full
    /\ InCore(f) => w.din = sin[f].din

LEMMA CallBegins ==
    ASSUME SfsInv, NEW f \in Files, NEW w, w = Call(f)
    PROVE  Begins(w, f)
<1>1. /\ SfsTypeOK /\ NodesExact(Nodes, disk) /\ SizesInv /\ SuperInv
  BY DEF SfsInv
<1>2. PICK c : c = Context(f)
  OBVIOUS
<1>3. /\ c.others = OthersOf(Nodes, disk, f) /\ c.disk = disk /\ c.full = full
      /\ c.store = store[f] /\ c.image = image
  BY <1>2, ContextIs
<1>4. PICK n, dirty : /\ n = (IF InCore(f) THEN sin[f].din ELSE store[f])
                      /\ dirty = (IF InCore(f) THEN sin[f].dirty ELSE FALSE)
  OBVIOUS
<1>5. Nodes[f] = n /\ n \in DiskInodes
  <2>1. Nodes[f] = n
    BY <1>4 DEF Nodes, Inode
  <2> QED BY <1>1, <2>1 DEF NodesExact
<1>6. dirty \in BOOLEAN
  BY <1>1, <1>4 DEF SfsTypeOK
<1>7. w = [free |-> super.free, unused |-> super.unused, sdirty |-> super.dirty,
           disk |-> disk, din |-> n, dirty |-> dirty,
           st |-> "ok", full |-> full, ino |-> 0, ent |-> 0, alen |-> 0, buf |-> <<>>]
  <2>1. CASE InCore(f)
    BY <1>4, <2>1 DEF Call
  <2>2. CASE ~InCore(f)
    BY <1>4, <2>2 DEF Call, NotLoaded
  <2> QED BY <2>1, <2>2
<1>8. /\ w.free = super.free /\ w.unused = super.unused /\ w.sdirty = super.dirty /\ w.disk = disk
      /\ w.din = n /\ w.dirty = dirty /\ w.st = "ok" /\ w.full = full /\ w.buf = <<>>
  BY <1>7
<1>9. IsCall(w)
  <2>1. /\ super.free \in SUBSET Blocks /\ super.unused \in Nat /\ super.dirty \in BOOLEAN
        /\ disk \in Disks /\ full \in BOOLEAN
    BY <1>1 DEF SfsTypeOK
  <2>2. PICK s \in Statuses : s = "ok"
    BY StatusIs
  <2>3. w = [free |-> super.free, unused |-> super.unused, sdirty |-> super.dirty,
             disk |-> disk, din |-> n, dirty |-> dirty,
             st |-> s, full |-> full, ino |-> 0, ent |-> 0, alen |-> 0, buf |-> <<>>]
    BY <1>7, <2>2
  <2>4. PICK B : B = {<<>>}
    OBVIOUS
  <2>5. w \in CallsWith(B)
    BY <1>5, <1>6, <2>1, <2>3, <2>4 DEF CallsWith
  <2> QED BY <1>8, <2>4, <2>5 DEF IsCall
<1>10. c.others \subseteq Blocks /\ MapExact(w.din, w.disk, c.others)
  BY <1>1, <1>3, <1>5, <1>8, OthersIs DEF NodesExact
<1>11. w.unused = Cardinality(w.free) /\ w.free = Blocks \ (c.others \cup Holds(w.din, w.disk))
  <2>1. HeldOf(Nodes, disk) = c.others \cup Holds(Nodes[f], disk)
    BY <1>3, HeldSplits
  <2> QED BY <1>1, <1>5, <1>8, <2>1 DEF SuperInv
<1>12. ~w.dirty => Alike(c.store, w.din)
  <2> SUFFICES ASSUME ~w.dirty PROVE Alike(c.store, w.din)
    OBVIOUS
  <2>1. CASE InCore(f)
    <3>1. ~sin[f].dirty /\ w.din = sin[f].din
      BY <1>4, <1>8, <2>1
    <3> QED BY <1>1, <1>3, <2>1, <3>1 DEF SizesInv
  <2>2. CASE ~InCore(f)
    <3>1. store[f] = n
      BY <1>4, <2>2
    <3>2. n.blocks <= n.blocks
      BY <1>5 DEF DiskInodes
    <3> QED BY <1>3, <1>5, <1>8, <3>1, <3>2 DEF Alike
  <2> QED BY <2>1, <2>2
<1>13. ~w.sdirty => c.image = [free |-> w.free, unused |-> w.unused]
  BY <1>1, <1>3, <1>8 DEF SuperInv
<1>14. CallExact(w, c)
  BY <1>3, <1>8, <1>9, <1>10, <1>11, <1>12, <1>13 DEF CallExact
<1>15. SizeFits(w.din, w.full)
  <2>1. Inode(f) = n
    BY <1>4 DEF Inode
  <2> QED BY <1>1, <1>8, <2>1 DEF SizesInv
<1>16. InCore(f) => w.din = sin[f].din
  BY <1>4, <1>8
<1> QED BY <1>2, <1>8, <1>14, <1>15, <1>16 DEF Begins

\* How a call on file f may end.
Ends(w, f) ==
    \/ w.st = "range"
    \/ w.st = "index" /\ \E d \in Fds : file[d] # NoFile /\ pos[d] > sin[file[d]].din.size
    \/ w.st = "size" /\ full
    \/ /\ CallExact(w, Context(f)) /\ SizeFits(w.din, w.full)
       /\ w.st \in {"ok", "E_NO_MEM", "E_INVAL"}

\* The files that have descriptors: f, and of the others the same as before.
Opened(files, positions, f) ==
    /\ files \in [Fds -> Files \cup {NoFile}] /\ positions \in [Fds -> Nat]
    /\ \E d \in Fds : files[d] = f
    /\ \A g \in Files \ {f} : (\E d \in Fds : files[d] = g) <=> InCore(g)

LEMMA ReturnPanics ==
    ASSUME SfsInv, panic = "no", NEW f \in Files, NEW w, Ends(w, f), w.st \in Panics,
           NEW files, NEW positions, NEW result, Return(f, w, files, positions, result)
    PROVE  SfsInv'
<1>1. panic' = w.st /\ UNCHANGED <<super, image, disk, store, sin, file, pos, out, full>>
  BY DEF Return
<1>2. /\ \A g : Inode(g)' = Inode(g)
      /\ \A g : InCore(g)' <=> InCore(g)
  BY <1>1 DEF Inode, InCore
<1>3. Nodes' = Nodes
  BY <1>2 DEF Nodes
<1>4. NodesExact(Nodes, disk)'
  <2>1. NodesExact(Nodes', disk')
    BY <1>1, <1>3 DEF SfsInv
  <2> QED BY <2>1
<1>5. SizesInv'
  BY <1>1, <1>2 DEF SfsInv, SizesInv
<1>6. SuperInv'
  <2>1. HeldOf(Nodes, disk)' = HeldOf(Nodes, disk)
    BY <1>1, <1>3 DEF HeldOf
  <2> QED BY <1>1, <2>1 DEF SfsInv, SuperInv
<1>7. SfsTypeOK'
  BY <1>1 DEF SfsInv, SfsTypeOK
<1>8. PanicInv'
  <2>1. w.st = "range" \/ (w.st = "index" /\ \E d \in Fds : file[d] # NoFile /\ pos[d] > sin[file[d]].din.size)
        \/ (w.st = "size" /\ full)
    BY DEF Ends, Panics
  <2> QED BY <1>1, <2>1 DEF PanicInv
<1> QED BY <1>4, <1>5, <1>6, <1>7, <1>8 DEF SfsInv

LEMMA ReturnEnds ==
    ASSUME SfsInv, panic = "no", NEW f \in Files, NEW w, CallExact(w, Context(f)),
           SizeFits(w.din, w.full), w.st \notin Panics,
           NEW files, NEW positions, Opened(files, positions, f), NEW result,
           Return(f, w, files, positions, result)
    PROVE  SfsInv'
<1>0. SfsTypeOK /\ NodesExact(Nodes, disk) /\ SizesInv /\ SuperInv
  BY DEF SfsInv
<1>1. /\ super' = [free |-> w.free, unused |-> w.unused, dirty |-> w.sdirty]
      /\ image' = (IF w.sdirty THEN OutOfDate ELSE image)
      /\ disk' = w.disk
      /\ store' = (IF w.dirty THEN [store EXCEPT ![f] = OutOfDate] ELSE store)
      /\ sin' = [sin EXCEPT ![f] = [din |-> w.din, dirty |-> w.dirty]]
      /\ full' = w.full /\ file' = files /\ pos' = positions /\ panic' = "no"
  BY DEF Return
<1>2. PICK O : O = OthersOf(Nodes, disk, f)
  OBVIOUS
<1>3. /\ IsCall(w) /\ w.unused = Cardinality(w.free) /\ MapExact(w.din, w.disk, O)
      /\ w.free = Blocks \ (O \cup Holds(w.din, w.disk))
      /\ \A b \in O : w.disk[b] = disk[b]
      /\ full => w.full
      /\ ~w.dirty => Alike(store[f], w.din)
      /\ ~w.sdirty => image = [free |-> w.free, unused |-> w.unused]
  BY <1>2, ContextIs DEF CallExact
<1>4. /\ w.free \in SUBSET Blocks /\ w.unused \in Nat /\ w.sdirty \in BOOLEAN /\ w.disk \in Disks
      /\ w.din \in DiskInodes /\ w.dirty \in BOOLEAN /\ w.full \in BOOLEAN
  BY <1>3, CallTypes
<1>5. /\ files \in [Fds -> Files \cup {NoFile}] /\ positions \in [Fds -> Nat]
      /\ \E d \in Fds : files[d] = f
      /\ \A g \in Files \ {f} : (\E d \in Fds : files[d] = g) <=> InCore(g)
  BY DEF Opened
<1>6. store \in [Files -> DiskInodes \cup {OutOfDate}] /\ sin \in [Files -> [din : DiskInodes, dirty : BOOLEAN]]
  BY <1>0 DEF SfsTypeOK
<1>7. SfsTypeOK'
  <2>1. super' \in [free : SUBSET Blocks, unused : Nat, dirty : BOOLEAN]
    BY <1>1, <1>4
  <2>2. store' \in [Files -> DiskInodes \cup {OutOfDate}]
    BY <1>1, <1>6
  <2>3. sin' \in [Files -> [din : DiskInodes, dirty : BOOLEAN]]
    BY <1>1, <1>4, <1>6
  <2> QED BY <1>1, <1>4, <1>5, <2>1, <2>2, <2>3 DEF SfsTypeOK
<1>8. InCore(f)' /\ \A g \in Files \ {f} : InCore(g)' <=> InCore(g)
  BY <1>1, <1>5 DEF InCore
<1>9. /\ sin'[f].din = w.din /\ sin'[f].dirty = w.dirty
      /\ \A g \in Files \ {f} : sin'[g] = sin[g] /\ store'[g] = store[g]
      /\ store'[f] = IF w.dirty THEN OutOfDate ELSE store[f]
  BY <1>1, <1>6
<1>10. Inode(f)' = w.din /\ \A g \in Files \ {f} : Inode(g)' = Inode(g)
  BY <1>8, <1>9 DEF Inode
<1>11. PICK nodes2, dk2 : nodes2 = Nodes' /\ dk2 = disk'
  OBVIOUS
<1>12. nodes2[f] = w.din /\ \A g \in Files \ {f} : nodes2[g] = Nodes[g]
  BY <1>10, <1>11 DEF Nodes
<1>13. Replaced(Nodes, disk, f, w.din, nodes2, dk2)
  BY <1>0, <1>1, <1>2, <1>3, <1>4, <1>11, <1>12 DEF Replaced
<1>14. NodesExact(nodes2, dk2) /\ HeldOf(nodes2, dk2) = O \cup Holds(w.din, w.disk)
  BY <1>1, <1>2, <1>11, <1>13, ReplacedIs
<1>15. NodesExact(Nodes, disk)'
  <2>1. NodesExact(Nodes', disk')
    BY <1>11, <1>14
  <2> QED BY <2>1
<1>16. SizesInv'
  <2> SUFFICES ASSUME NEW g \in Files
               PROVE  /\ SizeFits(Inode(g)', full')
                      /\ InCore(g)' /\ ~sin'[g].dirty => Alike(store'[g], sin'[g].din)
                      /\ store'[g] # OutOfDate => SizeFits(store'[g], full')
    BY DEF SizesInv
  <2>0. \A n : SizeFits(n, full) => SizeFits(n, w.full)
    BY <1>3 DEF SizeFits
  <2>1. CASE g = f
    <3>1. SizeFits(Inode(g)', full')
      BY <1>1, <1>10, <2>1
    <3>2. InCore(g)' /\ ~sin'[g].dirty => Alike(store'[g], sin'[g].din)
      BY <1>3, <1>9, <2>1
    <3>3. store'[g] # OutOfDate => SizeFits(store'[g], full')
      <4> SUFFICES ASSUME store'[g] # OutOfDate PROVE SizeFits(store'[g], full')
        OBVIOUS
      <4>1. store'[g] = store[g] /\ store[g] # OutOfDate
        BY <1>9, <2>1
      <4>2. SizeFits(store[g], full)
        BY <1>0, <4>1 DEF SizesInv
      <4> QED BY <1>1, <2>0, <4>1, <4>2
    <3> QED BY <3>1, <3>2, <3>3
  <2>2. CASE g # f
    <3>1. /\ Inode(g)' = Inode(g) /\ sin'[g] = sin[g] /\ store'[g] = store[g]
          /\ InCore(g)' <=> InCore(g)
      BY <1>8, <1>9, <1>10, <2>2
    <3>2. /\ SizeFits(Inode(g), full)
          /\ InCore(g) /\ ~sin[g].dirty => Alike(store[g], sin[g].din)
          /\ store[g] # OutOfDate => SizeFits(store[g], full)
      BY <1>0 DEF SizesInv
    <3> QED BY <1>1, <2>0, <3>1, <3>2
  <2> QED BY <2>1, <2>2
<1>17. SuperInv'
  <2>1. /\ super'.free = w.free /\ super'.unused = w.unused /\ super'.dirty = w.sdirty
    BY <1>1
  <2>2. super'.free = Blocks \ HeldOf(Nodes', disk')
    BY <1>3, <1>11, <1>14, <2>1
  <2>3. ~super'.dirty => image' = [free |-> super'.free, unused |-> super'.unused]
    BY <1>1, <1>3, <2>1
  <2>4. super'.unused = Cardinality(super'.free)
    BY <1>3, <2>1
  <2> QED BY <2>2, <2>3, <2>4 DEF SuperInv
<1>18. PanicInv'
  BY <1>1 DEF PanicInv
<1> QED BY <1>7, <1>15, <1>16, <1>17, <1>18 DEF SfsInv

LEMMA ReturnKeeps ==
    ASSUME SfsInv, panic = "no", NEW f \in Files, NEW w, Ends(w, f),
           NEW files, NEW positions, w.st \notin Panics => Opened(files, positions, f), NEW result,
           Return(f, w, files, positions, result)
    PROVE  SfsInv'
<1>1. CASE w.st \in Panics
  BY <1>1, ReturnPanics
<1>2. CASE w.st \notin Panics
  <2>1. CallExact(w, Context(f)) /\ SizeFits(w.din, w.full)
    BY <1>2 DEF Ends, Panics
  <2> QED BY <1>2, <2>1, ReturnEnds
<1> QED BY <1>1, <1>2

LEMMA ResizedEnds ==
    ASSUME NEW f, NEW w, Begins(w, f), NEW len, NEW r, Resized(r, w, Context(f), len)
    PROVE  Ends(r, f)
BY DEF Begins, Resized, Ends

LEMMA OpenKeeps ==
    ASSUME SfsInv, NEW d \in Fds, NEW f \in Files, NEW trunc \in BOOLEAN, NEW append \in BOOLEAN,
           Open(d, f, trunc, append)
    PROVE  SfsInv'
<1>1. PICK c, w : c = Call(f) /\ w = IF trunc THEN sfs_truncfile(c, 0) ELSE c
  OBVIOUS
<1>2. PICK files, positions :
          /\ files = [file EXCEPT ![d] = f]
          /\ positions = [pos EXCEPT ![d] = IF append THEN w.din.size ELSE 0]
  OBVIOUS
<1>3. panic = "no" /\ file[d] = NoFile /\ Return(f, w, files, positions, NoRead)
  BY <1>1, <1>2 DEF Open
<1>4. Begins(c, f)
  BY <1>1, CallBegins
<1>5. Ends(w, f)
  <2>1. CASE trunc
    <3>1. w = sfs_truncfile(c, 0)
      BY <1>1, <2>1
    <3>2. Resized(w, c, Context(f), 0)
      <4>1. PICK len \in Int : len = 0
        OBVIOUS
      <4>2. w = sfs_truncfile(c, len) /\ CallExact(c, Context(f)) /\ c.st = "ok" /\ SizeFits(c.din, c.full)
        BY <1>4, <3>1, <4>1 DEF Begins
      <4>3. Resized(w, c, Context(f), len)
        BY <4>2, TruncfileIs
      <4> QED BY <4>1, <4>3
    <3> QED BY <1>4, <3>2, ResizedEnds
  <2>2. CASE ~trunc
    <3>1. w = c
      BY <1>1, <2>2
    <3> QED BY <1>4, <3>1 DEF Begins, Ends
  <2> QED BY <2>1, <2>2
<1>6. w.st \notin Panics => Opened(files, positions, f)
  <2> SUFFICES ASSUME w.st \notin Panics PROVE Opened(files, positions, f)
    OBVIOUS
  <2>1. CallExact(w, Context(f))
    BY <1>5 DEF Ends, Panics
  <2>2. w.din.size \in Nat
    BY <2>1, CallFacts, CallTypes
  <2>3. file \in [Fds -> Files \cup {NoFile}] /\ pos \in [Fds -> Nat]
    BY DEF SfsInv, SfsTypeOK
  <2>4. files \in [Fds -> Files \cup {NoFile}] /\ positions \in [Fds -> Nat]
    BY <1>2, <2>2, <2>3
  <2>5. files[d] = f /\ \A e \in Fds : e # d => files[e] = file[e]
    BY <1>2, <2>3
  <2>6. \A g \in Files \ {f} : (\E e \in Fds : files[e] = g) <=> InCore(g)
    BY <1>3, <2>5, FilesAssumption DEF InCore
  <2> QED BY <2>4, <2>5, <2>6 DEF Opened
<1> QED BY <1>3, <1>5, <1>6, ReturnKeeps

\* A call through a descriptor leaves the descriptors alone, but for their positions.
LEMMA StaysOpen ==
    ASSUME SfsInv, NEW d \in Fds, file[d] # NoFile, NEW p \in Nat
    PROVE  file[d] \in Files /\ InCore(file[d]) /\ Opened(file, [pos EXCEPT ![d] = p], file[d])
<1>1. file \in [Fds -> Files \cup {NoFile}] /\ pos \in [Fds -> Nat]
  BY DEF SfsInv, SfsTypeOK
<1>2. [pos EXCEPT ![d] = p] \in [Fds -> Nat] /\ file[d] \in Files
  BY <1>1
<1> QED BY <1>1, <1>2 DEF Opened, InCore

LEMMA RwKeeps ==
    ASSUME SfsInv, NEW d \in Fds, NEW len \in Lens, NEW write \in BOOLEAN, NEW result,
           panic = "no", file[d] # NoFile, NEW v, v = sysfile_rw(d, len, write),
           Return(file[d], v.w, file, [pos EXCEPT ![d] = v.pos], result)
    PROVE  SfsInv'
<1>1. PICK f : f = file[d]
  OBVIOUS
<1>2. f \in Files /\ InCore(f)
  <2>1. PICK p \in Nat : TRUE
    OBVIOUS
  <2> QED BY <1>1, <2>1, StaysOpen
<1>3. len \in Nat /\ len > 0
  BY FilesAssumption
<1>4. PICK w, c : w = Call(f) /\ c = Context(f)
  OBVIOUS
<1>5. Begins(w, f)
  BY <1>2, <1>4, CallBegins
<1>6. PICK v0 : v0 = [w |-> w, pos |-> pos[d], copied |-> 0, got |-> <<>>, stop |-> FALSE]
  OBVIOUS
<1>7. v = Chunks(v0, len, write)
  BY <1>1, <1>4, <1>6 DEF sysfile_rw
<1>8. pos[d] \in Nat
  BY DEF SfsInv, SfsTypeOK
<1>9. Chunking(v0, w, c, pos[d], len)
  <2>1. v0.w = w /\ v0.pos = pos[d] /\ v0.copied = 0 /\ ~v0.stop
    BY <1>6
  <2>2. CallExact(w, c) /\ SizeFits(w.din, w.full) /\ w.st = "ok"
    BY <1>4, <1>5 DEF Begins
  <2> QED BY <1>3, <1>8, <2>1, <2>2 DEF Chunking
<1>10. Chunking(v, w, c, pos[d], len)
  BY <1>3, <1>7, <1>9, ChunksIs
<1>11. w.din = sin[file[d]].din
  BY <1>1, <1>2, <1>5 DEF Begins
<1>12. Ends(v.w, f)
  <2>1. CASE v.w.st = "range"
    BY <2>1 DEF Ends
  <2>2. CASE v.w.st = "index" /\ pos[d] > w.din.size
    BY <1>11, <2>2 DEF Ends
  <2>3. CASE CallExact(v.w, c) /\ SizeFits(v.w.din, v.w.full) /\ v.w.st \in {"ok", "E_NO_MEM", "E_INVAL"}
    BY <1>4, <2>3 DEF Ends
  <2> QED BY <1>10, <2>1, <2>2, <2>3 DEF Chunking
<1>13. PICK u, positions : u = v.w /\ positions = [pos EXCEPT ![d] = v.pos]
  OBVIOUS
<1>14. u.st \notin Panics => Opened(file, positions, f)
  <2> SUFFICES ASSUME u.st \notin Panics PROVE Opened(file, positions, f)
    OBVIOUS
  <2>1. v.pos \in Nat
    BY <1>10, <1>13 DEF Chunking, Panics
  <2> QED BY <1>1, <1>13, <2>1, StaysOpen
<1>15. Ends(u, f) /\ Return(f, u, file, positions, result)
  BY <1>1, <1>12, <1>13
<1> QED BY <1>2, <1>14, <1>15, ReturnKeeps

LEMMA SeekKeeps ==
    ASSUME SfsInv, NEW d \in Fds, NEW s \in Seeks, Seek(d, s[1], s[2])
    PROVE  SfsInv'
<1>1. PICK f : f = file[d]
  OBVIOUS
<1>2. f \in Files /\ InCore(f) /\ file[d] # NoFile /\ panic = "no"
  <2>1. PICK p \in Nat : TRUE
    OBVIOUS
  <2>2. file[d] # NoFile /\ panic = "no"
    BY DEF Seek
  <2> QED BY <1>1, <2>1, <2>2, StaysOpen
<1>3. s[1] \in Int /\ s[2] \in {"SET", "CUR", "END"}
  BY FilesAssumption
<1>4. pos[d] \in Nat /\ sin[f].din.size \in Nat /\ pos \in [Fds -> Nat]
  BY <1>2 DEF SfsInv, SfsTypeOK, DiskInodes
<1>5. PICK p : p = s[1] + CASE s[2] = "SET" -> 0
                            [] s[2] = "CUR" -> pos[d]
                            [] s[2] = "END" -> sin[f].din.size
  OBVIOUS
<1>6. p \in Int
  <2>1. PICK b : b = CASE s[2] = "SET" -> 0
                       [] s[2] = "CUR" -> pos[d]
                       [] s[2] = "END" -> sin[f].din.size
    OBVIOUS
  <2>2. b \in Int
    <3>1. CASE s[2] = "SET"
      BY <2>1, <3>1
    <3>2. CASE s[2] = "CUR"
      BY <1>4, <2>1, <3>2
    <3>3. CASE s[2] = "END"
      BY <1>4, <2>1, <3>3
    <3> QED BY <1>3, <3>1, <3>2, <3>3
  <2> QED BY <1>3, <1>5, <2>1, <2>2
<1>7. PICK c, w : c = Call(f) /\ w = sfs_tryseek(c, p)
  OBVIOUS
<1>8. PICK positions : positions = [pos EXCEPT ![d] = IF Ok(w) THEN p ELSE @]
  OBVIOUS
<1>9. Return(f, w, file, positions, NoRead)
  <2> DEFINE P == s[1] + CASE s[2] = "SET" -> 0
                           [] s[2] = "CUR" -> pos[d]
                           [] s[2] = "END" -> sin[file[d]].din.size
             W == sfs_tryseek(Call(file[d]), P)
  <2>1. Return(file[d], W, file, [pos EXCEPT ![d] = IF Ok(W) THEN P ELSE @], NoRead)
    BY DEF Seek
  <2>2. P = p
    BY <1>1, <1>5
  <2> HIDE DEF P
  <2>3. W = w
    BY <1>1, <1>7, <2>2
  <2> HIDE DEF W
  <2>4. [pos EXCEPT ![d] = IF Ok(W) THEN P ELSE @] = positions
    BY <1>8, <2>2, <2>3
  <2> QED BY <1>1, <2>1, <2>3, <2>4
<1>10. Begins(c, f)
  BY <1>2, <1>7, CallBegins
<1>11. Resized(w, c, Context(f), p) /\ (w.st = "ok" => p \in Nat)
  <2>1. CallExact(c, Context(f)) /\ c.st = "ok" /\ SizeFits(c.din, c.full)
    BY <1>10 DEF Begins
  <2> QED BY <1>6, <1>7, <2>1, TryseekIs
<1>12. Ends(w, f)
  BY <1>10, <1>11, ResizedEnds
<1>13. Opened(file, positions, f)
  <2>1. PICK q : q = IF Ok(w) THEN p ELSE pos[d]
    OBVIOUS
  <2>2. q \in Nat
    BY <1>4, <1>11, <2>1 DEF Ok
  <2>3. positions = [pos EXCEPT ![d] = q]
    BY <1>8, <2>1
  <2> QED BY <1>1, <1>2, <2>2, <2>3, StaysOpen
<1> QED BY <1>2, <1>9, <1>12, <1>13, ReturnKeeps

LEMMA SameNodes ==
    ASSUME SfsInv, \A g \in Files : Inode(g)' = Inode(g), disk' = disk
    PROVE  NodesExact(Nodes, disk)' /\ HeldOf(Nodes, disk)' = HeldOf(Nodes, disk)
<1>1. Nodes' = Nodes
  BY DEF Nodes
<1>2. NodesExact(Nodes', disk')
  BY <1>1 DEF SfsInv
<1>3. HeldOf(Nodes', disk') = HeldOf(Nodes, disk)
  BY <1>1
<1> QED BY <1>2, <1>3

LEMMA DupKeeps ==
    ASSUME SfsInv, NEW d \in Fds, NEW e \in Fds, Dup(d, e)
    PROVE  SfsInv'
<1>1. /\ panic = "no" /\ file[d] # NoFile /\ file[e] = NoFile
      /\ file' = [file EXCEPT ![e] = file[d]] /\ pos' = [pos EXCEPT ![e] = pos[d]]
      /\ UNCHANGED <<super, image, disk, store, sin, full, panic>>
  BY DEF Dup
<1>2. file \in [Fds -> Files \cup {NoFile}] /\ pos \in [Fds -> Nat]
  BY DEF SfsInv, SfsTypeOK
<1>3. file'[e] = file[d] /\ \A x \in Fds : x # e => file'[x] = file[x]
  BY <1>1, <1>2
<1>4. \A g \in Files : InCore(g)' <=> InCore(g)
  BY <1>1, <1>3, FilesAssumption DEF InCore
<1>5. \A g \in Files : Inode(g)' = Inode(g)
  BY <1>1, <1>4 DEF Inode
<1>6. NodesExact(Nodes, disk)' /\ HeldOf(Nodes, disk)' = HeldOf(Nodes, disk)
  BY <1>1, <1>5, SameNodes
<1>7. SfsTypeOK'
  <2>1. file' \in [Fds -> Files \cup {NoFile}] /\ pos' \in [Fds -> Nat]
    BY <1>1, <1>2
  <2> QED BY <1>1, <2>1 DEF SfsInv, SfsTypeOK
<1>8. SizesInv'
  BY <1>1, <1>4, <1>5 DEF SfsInv, SizesInv
<1>9. SuperInv'
  BY <1>1, <1>6 DEF SfsInv, SuperInv
<1>10. PanicInv'
  BY <1>1 DEF PanicInv
<1> QED BY <1>6, <1>7, <1>8, <1>9, <1>10 DEF SfsInv

\* An inode is as its own copy on the disk.
LEMMA AlikeItself ==
    ASSUME NEW n \in DiskInodes PROVE Alike(n, n)
<1>1. n.blocks \in Nat
  BY DEF DiskInodes
<1> QED BY <1>1 DEF Alike

LEMMA FsyncKeeps ==
    ASSUME SfsInv, NEW d \in Fds, Fsync(d)
    PROVE  SfsInv'
<1>1. PICK f : f = file[d]
  OBVIOUS
<1>2. /\ panic = "no" /\ f # NoFile
      /\ store' = (IF sin[f].dirty THEN [store EXCEPT ![f] = sin[f].din] ELSE store)
      /\ sin' = [sin EXCEPT ![f].dirty = FALSE]
      /\ UNCHANGED <<super, image, disk, file, pos, out, full, panic>>
  BY <1>1 DEF Fsync, sfs_fsync
<1>3. /\ f \in Files /\ store \in [Files -> DiskInodes \cup {OutOfDate}]
      /\ sin \in [Files -> [din : DiskInodes, dirty : BOOLEAN]]
  BY <1>1, <1>2 DEF SfsInv, SfsTypeOK
<1>4. /\ sin'[f].din = sin[f].din /\ ~sin'[f].dirty /\ sin[f].din \in DiskInodes
      /\ \A g \in Files \ {f} : sin'[g] = sin[g] /\ store'[g] = store[g]
      /\ store'[f] = IF sin[f].dirty THEN sin[f].din ELSE store[f]
  BY <1>2, <1>3
<1>5. InCore(f) /\ \A g : InCore(g)' <=> InCore(g)
  BY <1>1, <1>2 DEF InCore
<1>6. \A g \in Files : Inode(g)' = Inode(g)
  BY <1>4, <1>5 DEF Inode
<1>7. NodesExact(Nodes, disk)' /\ HeldOf(Nodes, disk)' = HeldOf(Nodes, disk)
  BY <1>2, <1>6, SameNodes
<1>8. SfsTypeOK'
  <2>1. store' \in [Files -> DiskInodes \cup {OutOfDate}]
    BY <1>2, <1>3, <1>4
  <2>2. sin' \in [Files -> [din : DiskInodes, dirty : BOOLEAN]]
    BY <1>2, <1>3
  <2> QED BY <1>2, <2>1, <2>2 DEF SfsInv, SfsTypeOK
<1>9. SizesInv'
  <2> SUFFICES ASSUME NEW g \in Files
               PROVE  /\ SizeFits(Inode(g)', full')
                      /\ InCore(g)' /\ ~sin'[g].dirty => Alike(store'[g], sin'[g].din)
                      /\ store'[g] # OutOfDate => SizeFits(store'[g], full')
    BY DEF SizesInv
  <2>1. /\ SizeFits(Inode(g), full)
        /\ InCore(g) /\ ~sin[g].dirty => Alike(store[g], sin[g].din)
        /\ store[g] # OutOfDate => SizeFits(store[g], full)
    BY DEF SfsInv, SizesInv
  <2>2. CASE g # f
    BY <1>2, <1>4, <1>5, <1>6, <2>1, <2>2
  <2>3. CASE g = f /\ sin[f].dirty
    <3>1. store'[f] = sin[f].din /\ Alike(sin[f].din, sin[f].din) /\ Inode(f) = sin[f].din
      BY <1>4, <1>5, <2>3, AlikeItself DEF Inode
    <3> QED BY <1>2, <1>4, <1>6, <2>1, <2>3, <3>1
  <2>4. CASE g = f /\ ~sin[f].dirty
    <3>1. store'[f] = store[f]
      BY <1>4, <2>4
    <3> QED BY <1>2, <1>4, <1>5, <1>6, <2>1, <2>4, <3>1
  <2> QED BY <2>2, <2>3, <2>4
<1>10. SuperInv'
  BY <1>2, <1>7 DEF SfsInv, SuperInv
<1>11. PanicInv'
  BY <1>2 DEF PanicInv
<1> QED BY <1>7, <1>8, <1>9, <1>10, <1>11 DEF SfsInv

LEMMA CloseKeeps ==
    ASSUME SfsInv, NEW d \in Fds, Close(d)
    PROVE  SfsInv'
<1>1. PICK f : f = file[d]
  OBVIOUS
<1>2. /\ panic = "no" /\ f # NoFile
      /\ IF \E e \in Fds \ {d} : file[e] = f
         THEN UNCHANGED <<store, sin>>
         ELSE /\ store' = (IF sin[f].dirty THEN [store EXCEPT ![f] = sin[f].din] ELSE store)
              /\ sin' = [sin EXCEPT ![f] = NotLoaded]
      /\ file' = [file EXCEPT ![d] = NoFile] /\ pos' = [pos EXCEPT ![d] = 0]
      /\ UNCHANGED <<super, image, disk, full, panic>>
  BY <1>1 DEF Close
<1>3. /\ f \in Files /\ store \in [Files -> DiskInodes \cup {OutOfDate}]
      /\ sin \in [Files -> [din : DiskInodes, dirty : BOOLEAN]]
      /\ file \in [Fds -> Files \cup {NoFile}] /\ pos \in [Fds -> Nat] /\ disk \in Disks
  BY <1>1, <1>2 DEF SfsInv, SfsTypeOK
<1>4. file'[d] = NoFile /\ \A e \in Fds : e # d => file'[e] = file[e]
  BY <1>2, <1>3
<1>5. InCore(f) /\ \A g \in Files \ {f} : InCore(g)' <=> InCore(g)
  BY <1>1, <1>4, FilesAssumption DEF InCore
<1>6. file' \in [Fds -> Files \cup {NoFile}] /\ pos' \in [Fds -> Nat]
  BY <1>2, <1>3
<1>7. PanicInv'
  BY <1>2 DEF PanicInv
<1>8. CASE \E e \in Fds \ {d} : file[e] = f
  <2>1. InCore(f)'
    BY <1>4, <1>8 DEF InCore
  <2>2. store' = store /\ sin' = sin
    BY <1>2, <1>8
  <2>3. \A g \in Files : InCore(g)' <=> InCore(g)
    BY <1>5, <2>1
  <2>4. \A g \in Files : Inode(g)' = Inode(g)
    BY <2>2, <2>3 DEF Inode
  <2>5. NodesExact(Nodes, disk)' /\ HeldOf(Nodes, disk)' = HeldOf(Nodes, disk)
    BY <1>2, <2>4, SameNodes
  <2>6. SfsTypeOK'
    BY <1>2, <1>6, <2>2 DEF SfsInv, SfsTypeOK
  <2>7. SizesInv'
    BY <1>2, <2>2, <2>3, <2>4 DEF SfsInv, SizesInv
  <2>8. SuperInv'
    BY <1>2, <2>5 DEF SfsInv, SuperInv
  <2> QED BY <1>7, <2>5, <2>6, <2>7, <2>8 DEF SfsInv
<1>9. CASE ~ \E e \in Fds \ {d} : file[e] = f
  <2>1. ~InCore(f)'
    BY <1>2, <1>4, <1>9 DEF InCore
  <2>2. /\ store' = (IF sin[f].dirty THEN [store EXCEPT ![f] = sin[f].din] ELSE store)
        /\ sin' = [sin EXCEPT ![f] = NotLoaded]
    BY <1>2, <1>9
  <2>3. PICK n, m : n = sin[f].din /\ m = store'[f]
    OBVIOUS
  <2>4. /\ n \in DiskInodes /\ m = (IF sin[f].dirty THEN n ELSE store[f])
        /\ \A g \in Files \ {f} : sin'[g] = sin[g] /\ store'[g] = store[g]
    BY <1>3, <2>2, <2>3
  <2>5. Inode(f) = n /\ SizeFits(n, full)
    <3>1. Inode(f) = n
      BY <1>5, <2>3 DEF Inode
    <3> QED BY <1>3, <3>1 DEF SfsInv, SizesInv
  <2>6. Alike(m, n) /\ SizeFits(m, full)
    <3>1. CASE sin[f].dirty
      BY <2>4, <2>5, <3>1, AlikeItself
    <3>2. CASE ~sin[f].dirty
      <4>1. m = store[f] /\ Alike(store[f], n)
        BY <1>3, <1>5, <2>3, <2>4, <3>2 DEF SfsInv, SizesInv
      <4>2. store[f] # OutOfDate
        BY <4>1, FilesAssumption DEF Alike
      <4> QED BY <1>3, <4>1, <4>2 DEF SfsInv, SizesInv
    <3> QED BY <3>1, <3>2
  <2>7. PICK O : O = OthersOf(Nodes, disk, f)
    OBVIOUS
  <2>8. MapExact(n, disk, O)
    BY <1>3, <2>5, <2>7 DEF SfsInv, NodesExact, Nodes
  <2>9. m \in DiskInodes /\ MapExact(m, disk, O) /\ Holds(m, disk) = Holds(n, disk)
    <3>1. m \in DiskInodes /\ m.direct = n.direct /\ m.indirect = n.indirect /\ m.blocks <= n.blocks
      BY <2>6 DEF Alike
    <3>2. n.indirect # 0 => n.indirect \in Blocks
      BY <2>8, HoldsIs
    <3>3. MapOf(m, disk) = MapOf(n, disk)
      BY <1>3, <2>4, <3>1, <3>2, SameMap
    <3>4. n.blocks \in Nat /\ m.blocks \in Nat
      BY <2>4, <3>1 DEF DiskInodes
    <3>5. /\ Apart(MapOf(n, disk), O) /\ n.blocks <= MaxBlocks
          /\ \A i \in 0..(n.blocks - 1) : MapOf(n, disk)[i] # 0
      BY <2>8 DEF MapExact
    <3>6. m.blocks <= MaxBlocks /\ \A i \in 0..(m.blocks - 1) : MapOf(n, disk)[i] # 0
      BY <3>1, <3>4, <3>5, Sizes
    <3>7. MapExact(m, disk, O)
      BY <3>3, <3>5, <3>6 DEF MapExact
    <3> QED BY <3>1, <3>3, <3>7 DEF Holds
  <2>10. Inode(f)' = m /\ \A g \in Files \ {f} : Inode(g)' = Inode(g)
    BY <1>5, <2>1, <2>3, <2>4 DEF Inode
  <2>11. PICK nodes2 : nodes2 = Nodes'
    OBVIOUS
  <2>12. nodes2[f] = m /\ (\A g \in Files \ {f} : nodes2[g] = Nodes[g]) /\ Nodes[f] = n
    BY <1>3, <2>5, <2>10, <2>11 DEF Nodes
  <2>13. Replaced(Nodes, disk, f, m, nodes2, disk)
    BY <1>3, <2>7, <2>9, <2>12 DEF Replaced, SfsInv
  <2>14. NodesExact(nodes2, disk) /\ HeldOf(nodes2, disk) = O \cup Holds(m, disk)
    BY <2>7, <2>13, ReplacedIs
  <2>15. HeldOf(nodes2, disk) = HeldOf(Nodes, disk)
    BY <1>3, <2>7, <2>9, <2>12, <2>14, HeldSplits
  <2>16. NodesExact(Nodes, disk)'
    <3>1. NodesExact(Nodes', disk')
      BY <1>2, <2>11, <2>14
    <3> QED BY <3>1
  <2>17. SfsTypeOK'
    <3>1. store' \in [Files -> DiskInodes \cup {OutOfDate}]
      BY <1>3, <2>2, <2>3, <2>4
    <3>2. NotLoaded \in [din : DiskInodes, dirty : BOOLEAN]
      BY Sizes DEF NotLoaded, EmptyInode, DiskInodes
    <3>3. sin' \in [Files -> [din : DiskInodes, dirty : BOOLEAN]]
      BY <1>3, <2>2, <3>2
    <3> QED BY <1>2, <1>6, <3>1, <3>3 DEF SfsInv, SfsTypeOK
  <2>18. SizesInv'
    <3> SUFFICES ASSUME NEW g \in Files
                 PROVE  /\ SizeFits(Inode(g)', full')
                        /\ InCore(g)' /\ ~sin'[g].dirty => Alike(store'[g], sin'[g].din)
                        /\ store'[g] # OutOfDate => SizeFits(store'[g], full')
      BY DEF SizesInv
    <3>1. CASE g = f
      BY <1>2, <2>1, <2>3, <2>6, <2>10, <3>1
    <3>2. CASE g # f
      <4>1. /\ SizeFits(Inode(g), full)
            /\ InCore(g) /\ ~sin[g].dirty => Alike(store[g], sin[g].din)
            /\ store[g] # OutOfDate => SizeFits(store[g], full)
        BY DEF SfsInv, SizesInv
      <4> QED BY <1>2, <1>5, <2>4, <2>10, <3>2, <4>1
    <3> QED BY <3>1, <3>2
  <2>19. SuperInv'
    <3>1. HeldOf(Nodes', disk') = HeldOf(Nodes, disk)
      BY <1>2, <2>11, <2>15
    <3> QED BY <1>2, <3>1 DEF SfsInv, SuperInv
  <2> QED BY <1>7, <2>16, <2>17, <2>18, <2>19 DEF SfsInv
<1> QED BY <1>8, <1>9

LEMMA RebootKeeps ==
    ASSUME SfsInv, Reboot
    PROVE  SfsInv'
<1>1. /\ super \in [free : SUBSET Blocks, unused : Nat, dirty : BOOLEAN]
      /\ super.unused = Cardinality(super.free)
      /\ ~super.dirty => image = [free |-> super.free, unused |-> super.unused]
  BY DEF SfsInv, SfsTypeOK, SuperInv
<1>2. PICK img : img = sfs_sync /\ img = [free |-> super.free, unused |-> super.unused]
  BY <1>1 DEF sfs_sync
<1>3. /\ panic = "no" /\ image' = img
      /\ super' = [free |-> img.free, unused |-> img.unused, dirty |-> FALSE]
      /\ panic' = (IF img.unused = Cardinality(img.free) THEN "no" ELSE "inuse")
      /\ UNCHANGED <<disk, store, sin, file, pos, out, full>>
  BY <1>2 DEF Reboot
<1>4. img.free = super.free /\ img.unused = super.unused /\ panic' = "no"
  BY <1>1, <1>2, <1>3
<1>5. super'.free = super.free /\ super'.unused = super.unused /\ super'.dirty = FALSE
  BY <1>3, <1>4
<1>6. \A g : InCore(g)' <=> InCore(g)
  BY <1>3 DEF InCore
<1>7. \A g \in Files : Inode(g)' = Inode(g)
  BY <1>3, <1>6 DEF Inode
<1>8. NodesExact(Nodes, disk)' /\ HeldOf(Nodes, disk)' = HeldOf(Nodes, disk)
  BY <1>3, <1>7, SameNodes
<1>9. SfsTypeOK'
  <2>1. super' \in [free : SUBSET Blocks, unused : Nat, dirty : BOOLEAN]
    BY <1>1, <1>3, <1>4
  <2> QED BY <1>3, <1>4, <2>1 DEF SfsInv, SfsTypeOK
<1>10. SizesInv'
  BY <1>3, <1>6, <1>7 DEF SfsInv, SizesInv
<1>11. SuperInv'
  BY <1>1, <1>2, <1>3, <1>5, <1>8 DEF SfsInv, SuperInv
<1>12. PanicInv'
  BY <1>4 DEF PanicInv
<1> QED BY <1>8, <1>9, <1>10, <1>11, <1>12 DEF SfsInv

LEMMA InitExact ==
    ASSUME Init PROVE SfsInv
<1>1. EmptyInode \in DiskInodes /\ NotLoaded \in [din : DiskInodes, dirty : BOOLEAN]
  BY Sizes DEF EmptyInode, DiskInodes, NotLoaded
<1>2. ZeroBlock \in [Offsets -> Nat]
  BY DEF ZeroBlock
<1>3. SfsTypeOK
  <2>1. super \in [free : SUBSET Blocks, unused : Nat, dirty : BOOLEAN]
    BY Sizes DEF Init
  <2>2. disk \in Disks
    BY <1>2 DEF Init, Disks
  <2>3. store \in [Files -> DiskInodes \cup {OutOfDate}] /\ sin \in [Files -> [din : DiskInodes, dirty : BOOLEAN]]
    BY <1>1 DEF Init
  <2> QED BY <2>1, <2>2, <2>3 DEF Init, SfsTypeOK
<1>4. \A f \in Files : ~InCore(f) /\ Inode(f) = EmptyInode /\ store[f] = EmptyInode
  BY FilesAssumption DEF Init, InCore, Inode
<1>5. \A i \in Slots : MapOf(EmptyInode, disk)[i] = 0
  <2>1. ASSUME NEW i \in Slots PROVE At(EmptyInode, disk, i) = 0
    BY Sizes DEF EmptyInode, At, Slots
  <2> QED BY <2>1 DEF MapOf
<1>6. Holds(EmptyInode, disk) = {}
  BY <1>5 DEF Holds, Named
<1>7. \A others : MapExact(EmptyInode, disk, others)
  <2>1. EmptyInode.blocks = 0
    BY DEF EmptyInode
  <2>2. \A others : Apart(MapOf(EmptyInode, disk), others)
    BY <1>5 DEF Apart
  <2>3. 0 <= MaxBlocks /\ \A i \in 0..(0 - 1) : FALSE
    BY Sizes
  <2> QED BY <2>1, <2>2, <2>3 DEF MapExact
<1>8. \A f \in Files : Nodes[f] = EmptyInode
  BY <1>4 DEF Nodes
<1>9. NodesExact(Nodes, disk)
  BY <1>1, <1>7, <1>8 DEF NodesExact
<1>10. HeldOf(Nodes, disk) = {}
  BY <1>6, <1>8 DEF HeldOf
<1>11. SizesInv
  <2>1. EmptyInode.size = 0 /\ EmptyInode.blocks = 0
    BY DEF EmptyInode
  <2>2. 0 \div SFS_BLKSIZE = 0 /\ 0 % SFS_BLKSIZE = 0
    BY Sizes, DivUnique
  <2>3. RoundUpDiv(0, SFS_BLKSIZE) = 0
    BY <2>2, Sizes, RoundUpIs
  <2>4. SizeFits(EmptyInode, full)
    BY <2>1, <2>2, <2>3 DEF SizeFits
  <2> QED BY <1>4, <2>4 DEF SizesInv
<1>12. SuperInv
  <2>1. Cardinality(Blocks) = NrBlocks
    BY Sizes, FS_Interval DEF Blocks
  <2> QED BY <1>10, <2>1 DEF Init, SuperInv
<1>13. PanicInv
  BY DEF Init, PanicInv
<1> QED BY <1>3, <1>9, <1>11, <1>12, <1>13 DEF SfsInv

LEMMA NextKeeps ==
    ASSUME SfsInv, [Next]_vars
    PROVE  SfsInv'
<1>1. ASSUME NEW d \in Fds, NEW f \in Files, NEW trunc \in BOOLEAN, NEW append \in BOOLEAN,
             Open(d, f, trunc, append)
      PROVE  SfsInv'
  BY <1>1, OpenKeeps
<1>2. ASSUME NEW d \in Fds, NEW e \in Fds, Dup(d, e) PROVE SfsInv'
  BY <1>2, DupKeeps
<1>3. ASSUME NEW d \in Fds, Fsync(d) PROVE SfsInv'
  BY <1>3, FsyncKeeps
<1>4. ASSUME NEW d \in Fds, Close(d) PROVE SfsInv'
  BY <1>4, CloseKeeps
<1>5. ASSUME NEW d \in Fds, NEW len \in Lens, Write(d, len) PROVE SfsInv'
  <2>1. PICK v : v = sysfile_rw(d, len, TRUE)
    OBVIOUS
  <2>2. /\ panic = "no" /\ file[d] # NoFile
        /\ Return(file[d], v.w, file, [pos EXCEPT ![d] = v.pos], NoRead)
    BY <1>5, <2>1 DEF Write
  <2> QED BY <2>1, <2>2, RwKeeps
<1>6. ASSUME NEW d \in Fds, NEW len \in Lens, Read(d, len) PROVE SfsInv'
  <2>1. PICK v : v = sysfile_rw(d, len, FALSE)
    OBVIOUS
  <2>2. /\ panic = "no" /\ file[d] # NoFile
        /\ Return(file[d], v.w, file, [pos EXCEPT ![d] = v.pos], v.got)
    BY <1>6, <2>1 DEF Read
  <2> QED BY <2>1, <2>2, RwKeeps
<1>7. ASSUME NEW d \in Fds, NEW s \in Seeks, Seek(d, s[1], s[2]) PROVE SfsInv'
  BY <1>7, SeekKeeps
<1>8. CASE Reboot
  BY <1>8, RebootKeeps
<1>9. CASE UNCHANGED vars
  <2>1. UNCHANGED <<super, image, disk, store, sin, file, pos, full, panic>>
    BY <1>9 DEF vars
  <2>2. \A g : InCore(g)' <=> InCore(g)
    BY <2>1 DEF InCore
  <2>3. \A g \in Files : Inode(g)' = Inode(g)
    BY <2>1, <2>2 DEF Inode
  <2>4. NodesExact(Nodes, disk)' /\ HeldOf(Nodes, disk)' = HeldOf(Nodes, disk)
    BY <2>1, <2>3, SameNodes
  <2>5. SfsTypeOK' /\ PanicInv'
    BY <2>1 DEF SfsInv, SfsTypeOK, PanicInv
  <2>6. SizesInv'
    BY <2>1, <2>2, <2>3 DEF SfsInv, SizesInv
  <2>7. SuperInv'
    BY <2>1, <2>4 DEF SfsInv, SuperInv
  <2> QED BY <2>4, <2>5, <2>6, <2>7 DEF SfsInv
<1>10. CASE Halted
  BY <1>9, <1>10 DEF Halted
<1> QED BY <1>1, <1>2, <1>3, <1>4, <1>5, <1>6, <1>7, <1>8, <1>9, <1>10 DEF Next

\* The file system keeps its invariant: in whatever order files of any size are opened,
\* truncated, read, written, sought, duplicated, synchronised and closed, through any number of
\* descriptors, on a disk of any size that may be full, and after any number of shutdowns, the
\* inodes in memory and on the disk, the free map and the superblock fit together.
THEOREM SfsStaysExact == Spec => []SfsInv
<1>1. Init => SfsInv
  BY InitExact
<1>2. SfsInv /\ [Next]_vars => SfsInv'
  BY NextKeeps
<1> QED BY <1>1, <1>2, PTL DEF Spec

\* The uses of blocks of the property are the places of the maps.
LEMMA UsesAre ==
    ASSUME NEW u
    PROVE  /\ u \in Uses <=> /\ u \in Files \X Slots
                             /\ MapOf(Inode(u[1]), disk)[u[2]] # 0
           /\ u \in Files \X Slots => Used(u) = MapOf(Inode(u[1]), disk)[u[2]]
<1>1. MapIndexes \cup {SFS_NDIRECT + SFS_BLKSIZE} = Slots /\ MaxBlocks = SFS_NDIRECT + SFS_BLKSIZE
  BY Sizes DEF MapIndexes, Slots, MaxBlocks
<1>2. ASSUME NEW n, NEW i \in Slots
      PROVE  MapOf(n, disk)[i] = IF i \in MapIndexes THEN BlockOf(n, i) ELSE n.indirect
  <2>1. MapOf(n, disk)[i] = At(n, disk, i)
    BY DEF MapOf
  <2>2. i \in MapIndexes <=> i # MaxBlocks
    BY <1>1, Sizes DEF MapIndexes, Slots
  <2>3. At(n, disk, i) = IF i \in MapIndexes THEN BlockOf(n, i) ELSE n.indirect
    BY <1>1, <2>2, Sizes DEF At, BlockOf, Slots
  <2> QED BY <2>1, <2>3
<1>3. ASSUME u \in Files \X Slots PROVE Used(u) = MapOf(Inode(u[1]), disk)[u[2]]
  <2>1. u[2] \in Slots
    BY <1>3
  <2> QED BY <1>2, <2>1 DEF Used
<1>4. u \in Uses <=> u \in Files \X Slots /\ Used(u) # 0
  BY <1>1, Zenon DEF Uses, Used
<1> QED BY <1>3, <1>4

LEMMA ImpliesBlocksExact ==
    ASSUME SfsInv PROVE BlocksExact
<1>0. NodesExact(Nodes, disk) /\ SuperInv /\ PanicInv
  BY DEF SfsInv
<1>1. ASSUME NEW f \in Files
      PROVE  /\ Inode(f) \in DiskInodes /\ MapExact(Inode(f), disk, OthersOf(Nodes, disk, f))
             /\ Nodes[f] = Inode(f)
  BY <1>0 DEF NodesExact, Nodes
<1>2. ASSUME NEW f \in Files, NEW i \in Slots, MapOf(Inode(f), disk)[i] # 0
      PROVE  /\ MapOf(Inode(f), disk)[i] \in Holds(Inode(f), disk)
             /\ MapOf(Inode(f), disk)[i] \in Blocks \ OthersOf(Nodes, disk, f)
  BY <1>1, <1>2 DEF Holds, Named, MapExact, Apart
<1>3. ASSUME NEW u1 \in Uses, NEW u2 \in Uses, Used(u1) = Used(u2) PROVE u1 = u2
  <2>1. u1 \in Files \X Slots /\ u2 \in Files \X Slots
    BY UsesAre
  <2>2. PICK f \in Files, i \in Slots : u1 = <<f, i>>
    BY <2>1
  <2>3. PICK g \in Files, j \in Slots : u2 = <<g, j>>
    BY <2>1
  <2>4. /\ MapOf(Inode(f), disk)[i] # 0 /\ Used(u1) = MapOf(Inode(f), disk)[i]
        /\ MapOf(Inode(g), disk)[j] # 0 /\ Used(u2) = MapOf(Inode(g), disk)[j]
    <3>1. u1[1] = f /\ u1[2] = i /\ u2[1] = g /\ u2[2] = j
      BY <2>2, <2>3
    <3> QED BY <2>1, <3>1, UsesAre
  <2>5. f = g
    <3> SUFFICES ASSUME f # g PROVE FALSE
      OBVIOUS
    <3>1. Used(u1) \in Blocks \ OthersOf(Nodes, disk, f)
      BY <1>2, <2>4
    <3>2. Used(u1) \in Holds(Nodes[g], disk)
      BY <1>1, <1>2, <1>3, <2>4
    <3> QED BY <1>0, <3>1, <3>2, OthersIs
  <2>6. i = j
    <3>1. Apart(MapOf(Inode(f), disk), OthersOf(Nodes, disk, f))
      BY <1>1 DEF MapExact
    <3> QED BY <1>3, <2>4, <2>5, <3>1 DEF Apart
  <2> QED BY <2>2, <2>3, <2>5, <2>6
<1>4. HeldOf(Nodes, disk) = {Used(u) : u \in Uses}
  <2>1. ASSUME NEW b \in HeldOf(Nodes, disk) PROVE \E u \in Uses : b = Used(u)
    <3>1. PICK f \in Files : b \in Holds(Nodes[f], disk)
      BY <2>1 DEF HeldOf
    <3>2. PICK i \in Slots : b = MapOf(Inode(f), disk)[i] /\ b # 0
      BY <1>1, <3>1 DEF Holds, Named
    <3>3. PICK u : u = <<f, i>>
      OBVIOUS
    <3>4. u[1] = f /\ u[2] = i /\ u \in Files \X Slots
      BY <3>3
    <3>5. u \in Uses /\ Used(u) = b
      BY <3>2, <3>4, UsesAre
    <3> QED BY <3>5
  <2>2. ASSUME NEW u \in Uses PROVE Used(u) \in HeldOf(Nodes, disk)
    <3>1. u \in Files \X Slots /\ MapOf(Inode(u[1]), disk)[u[2]] # 0 /\ Used(u) = MapOf(Inode(u[1]), disk)[u[2]]
      BY UsesAre
    <3>2. PICK f \in Files, i \in Slots : f = u[1] /\ i = u[2]
      BY <3>1
    <3>3. Used(u) \in Holds(Nodes[f], disk)
      BY <1>1, <1>2, <3>1, <3>2
    <3> QED BY <3>3 DEF HeldOf
  <2> QED BY <2>1, <2>2
<1>5. ASSUME NEW f \in Files, NEW i \in 0..(Inode(f).blocks - 1) PROVE BlockOf(Inode(f), i) # 0
  <2>1. /\ Inode(f).blocks <= MaxBlocks /\ MapOf(Inode(f), disk)[i] # 0
    BY <1>1 DEF MapExact
  <2>2. Inode(f).blocks \in Nat
    BY <1>1 DEF DiskInodes
  <2>3. i \in Slots /\ i # MaxBlocks /\ i \in Nat /\ i < MaxBlocks
    BY <2>1, <2>2, Sizes DEF Slots
  <2>4. MapOf(Inode(f), disk)[i] = At(Inode(f), disk, i)
    BY <2>3 DEF MapOf
  <2>5. At(Inode(f), disk, i) = BlockOf(Inode(f), i)
    BY <2>3 DEF At, BlockOf
  <2> QED BY <2>1, <2>4, <2>5
<1>6. super.free = Blocks \ {Used(u) : u \in Uses} /\ super.unused = Cardinality(super.free)
  BY <1>0, <1>4 DEF SuperInv
<1> QED BY <1>0, <1>3, <1>5, <1>6 DEF BlocksExact, PanicInv

\* Every block of the disk is free or has exactly one user, whatever the files, the
\* descriptors, the sizes of blocks and of the disk: the assertions of sfs_inode.c, sfs_fs.c
\* and bitmap.c on blocks in use never fail.
THEOREM BlocksStayExact == Spec => []BlocksExact
<1>1. SfsInv => BlocksExact
  BY ImpliesBlocksExact
<1> QED BY <1>1, SfsStaysExact, PTL

LEMMA ImpliesStable ==
    ASSUME SfsInv PROVE StableStorage
<1> SUFFICES ASSUME NEW f \in Files, InCore(f), ~sin[f].dirty
             PROVE  store[f] # OutOfDate /\ Content(store[f]) = Content(sin[f].din)
  BY DEF StableStorage
<1>1. Alike(store[f], sin[f].din)
  BY DEF SfsInv, SizesInv
<1>2. PICK s, n : s = store[f] /\ n = sin[f].din
  OBVIOUS
<1>3. s \in DiskInodes /\ s.size = n.size /\ s.direct = n.direct /\ s.indirect = n.indirect
  BY <1>1, <1>2 DEF Alike
<1>4. s # OutOfDate
  BY <1>3, FilesAssumption
<1>5. \A i : BlockOf(s, i) = BlockOf(n, i)
  BY <1>3 DEF BlockOf
<1>6. Content(s) = Content(n)
  BY <1>3, <1>5 DEF Content
<1> QED BY <1>2, <1>4, <1>6

\* What a program has synchronised is on the disk: the inode there gives the content of the
\* file, for files and disks of any size and after any calls.
THEOREM StorageIsStable == Spec => []StableStorage
<1>1. SfsInv => StableStorage
  BY ImpliesStable
<1> QED BY <1>1, SfsStaysExact, PTL

=============================================================================
