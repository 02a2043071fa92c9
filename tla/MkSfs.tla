-------------------------------- MODULE MkSfs --------------------------------
(***************************************************************************)
(* tools/mksfs.c: builds the image of the simple file system from a         *)
(* directory of the host.                                                   *)
(*                                                                          *)
(* Blocks are handed out in order and never given back.  Directory entries  *)
(* and file data are written to the image at once; the inodes and the       *)
(* indirect blocks stay in memory until close_sfs, which writes the free    *)
(* map, the superblock, the indirect blocks and last the inodes.  Any write *)
(* may fail, and bug() ends the program there: what it has not written is   *)
(* zeros, the file having come from dd, and if the superblock is written    *)
(* this is a partial image that looks like a file system.  make deletes it  *)
(* (.DELETE_ON_ERROR), who calls mksfs by hand keeps it.                    *)
(*                                                                          *)
(* host is the directory tree: tree[d] gives the object under each name of  *)
(* the directory d, type, size and base (its first word) describe an        *)
(* object.  An object stands for its st_ino: two names with one object are  *)
(* hard links.                                                              *)
(* A name is a pair of words, so that it has a part an entry may fail to    *)
(* hold; the word 0 ends a name.                                            *)
(*                                                                          *)
(* mk is the struct sfs_fs of the program:                                  *)
(*   file           blocks of the image file                                *)
(*   ninos          blocks used of it (super.blocks)                        *)
(*   next, unused   next_ino and super.unused_blocks                        *)
(*   ci             cache_inode of each inode: [din, l1, l2]                *)
(*   cache          words of the cached (indirect) blocks                   *)
(*   real           the inode of each object met so far                     *)
(*   disk           words of the blocks written to the image                *)
(*   freemap, super, inodes                                                 *)
(*                  what close_sfs has written of the image: the bits of    *)
(*                  the blocks of the free map, the superblock, inodes      *)
(*   left           the writes of this step that will not fail              *)
(*   ino            the block the last allocation handed out                *)
(*   st             "ok", or the bug() or assertion that ended the program  *)
(* stack is the recursion of open_dir, innermost first: the inode, the name *)
(* and the names readdir has not yet returned.  The subpath list has the    *)
(* names of the stack.                                                      *)
(***************************************************************************)
EXTENDS SfsBlocks

CONSTANTS
    SFS_BLKBITS,    \* bits of a block of the free map
    SFS_MAX_NBLKS,  \* blocks used of an image that is larger
    ImgBlocks,      \* the sizes an image file may have, in blocks
    Hosts           \* the host directories looked at

VARIABLES host, mk, stack, img

mkVars == <<host, mk, stack, img>>

SFS_BLKN_SUPER == 0
SFS_BLKN_ROOT == 1
SFS_BLKN_FREEMAP == 2

Dot == <<1, 0>>
DotDot == <<2, 0>>
HiddenName == 7                    \* first word of the names that start with a dot
NameWords == 2
EntryWords == NameWords + 1        \* sizeof(struct sfs_entry)

Root == "/"
None == "none"                     \* no object under this name

\* The words of a file, or of the target of a link.
Content(o) == [i \in 1..host.size[o] |-> host.base[o] + i]

Blank == [magic |-> FALSE]
NoProgram == [st |-> "none"]

mkOk(k) == k.st = "ok"

-----------------------------------------------------------------------------
sfs_alloc_ino(k) ==
    IF k.next < k.ninos
    THEN [k EXCEPT !.ino = k.next, !.next = @ + 1, !.unused = @ - 1]
    ELSE [k EXCEPT !.st = "out of disk space"]

\* A cached block is entered in the hash list of the argument, which is 0 for a
\* new block, and not of its number.
alloc_cache_block(k) ==
    LET v == sfs_alloc_ino(k)
    IN  IF mkOk(v) THEN [v EXCEPT !.cache = (v.ino :> ZeroBlock) @@ @] ELSE v

EmptyCache(type) ==
    [din |-> [type |-> type, nlinks |-> 0, db_indirect |-> 0] @@ EmptyInode,
     l1 |-> 0, l2 |-> 0]

\* ino is 0 for a new inode.
alloc_cache_inode(k, real, ino, type) ==
    LET v == IF ino # 0 THEN [k EXCEPT !.ino = ino] ELSE sfs_alloc_ino(k)
    IN  IF mkOk(v) THEN [v EXCEPT !.ci = (v.ino :> EmptyCache(type)) @@ @,
                                  !.real = (real :> v.ino) @@ @]
                   ELSE v

\* The inode of an object that has one, or 0.
search_cache_inode(k, real) == IF real \in DOMAIN k.real THEN k.real[real] ELSE 0

-----------------------------------------------------------------------------
FreemapBlocks(ninos) == RoundUpDiv(ninos, SFS_BLKBITS)

create_sfs(nblks, left) ==
    LET ninos    == Min({nblks, SFS_MAX_NBLKS})
        next_ino == SFS_BLKN_FREEMAP + FreemapBlocks(ninos)
        k == [file |-> nblks, ninos |-> ninos, next |-> next_ino, unused |-> ninos - next_ino,
              ci |-> <<>>, cache |-> <<>>, real |-> <<>>, disk |-> [b \in Blocks |-> ZeroBlock],
              freemap |-> <<>>, super |-> FALSE, inodes |-> <<>>, left |-> left, ino |-> 0, st |-> "ok"]
    IN  IF next_ino >= ninos THEN [k EXCEPT !.st = "too small"]
        ELSE alloc_cache_inode(k, Root, SFS_BLKN_ROOT, "dir")

\* The assertion and the pwrite, which may fail.  A failed pwrite leaves the block as
\* it was; a torn one is not looked at.
write_block(k, len, b) ==
    IF ~mkOk(k) THEN k
    ELSE IF len > SFS_BLKSIZE \/ b >= k.ninos THEN [k EXCEPT !.st = "assert"]
    ELSE IF k.left = 0 THEN [k EXCEPT !.st = "write failed"]
    ELSE [k EXCEPT !.left = @ - 1]

\* The words, padded with zeros, become the block.
WriteWords(k, words, b) ==
    LET v == write_block(k, Len(words), b)
    IN  IF mkOk(v)
        THEN [v EXCEPT !.disk[b] = [i \in Offsets |-> IF i < Len(words) THEN words[i + 1] ELSE 0]]
        ELSE v

\* The block number is already known, or a new cached block is allocated.  A
\* block that is not the one at hand would be searched under its number, where
\* alloc_cache_block has not put it.
update_cache(k, cb, ino) ==
    CASE ino = 0   -> alloc_cache_block(k)
      [] ino = cb  -> [k EXCEPT !.ino = ino]
      [] OTHER     -> [k EXCEPT !.st = "cache"]

SFS_L0_NBLKS == SFS_NDIRECT
SFS_L1_NBLKS == SFS_BLKSIZE + SFS_L0_NBLKS
SFS_L2_NBLKS == SFS_BLKSIZE * SFS_BLKSIZE + SFS_L1_NBLKS
SFS_LN_NBLKS == SFS_MAX_FILE_SIZE \div SFS_BLKSIZE

ASSUME MkSfsAssumption ==
    /\ SFS_LN_NBLKS <= SFS_L2_NBLKS
    /\ EntryWords <= SFS_BLKSIZE
    /\ SFS_MAX_NBLKS = NrBlocks + 1
    /\ ImgBlocks \subseteq Nat

\* The indirect block of the file that is k.ino gets the entry.
EnterL1(k, f, index, b) ==
    IF mkOk(k) THEN [k EXCEPT !.ci[f].l1 = k.ino, !.ci[f].din.indirect = k.ino,
                              !.cache[k.ino][index] = b]
    ELSE k

\* The same through the double indirect block: first the block of entries ...
EnterL2Table(k, f, l2, index) ==
    IF mkOk(k) THEN [k EXCEPT !.ci[f].l1 = k.ino, !.cache[l2][index] = k.ino] ELSE k

EnterL2(k, f, index) ==
    IF mkOk(k)
    THEN EnterL2Table(update_cache([k EXCEPT !.ci[f].l2 = k.ino, !.ci[f].din.db_indirect = k.ino],
                                   k.ci[f].l1, k.cache[k.ino][index]),
                      f, k.ino, index)
    ELSE k

\* ... then the entry in it.
EnterL2Entry(k, index, b) ==
    IF mkOk(k) THEN [k EXCEPT !.cache[k.ino][index % SFS_BLKSIZE] = b] ELSE k

CountAppended(k, f, size) ==
    IF mkOk(k) THEN [k EXCEPT !.ci[f].din.blocks = @ + 1, !.ci[f].din.size = @ + size] ELSE k

\* nblks and inode.blocks count the same; one field stands for both.
append_block(k, f, size, b) ==
    LET c     == k.ci[f]
        nblks == c.din.blocks
    IN  IF ~mkOk(k) THEN k
        ELSE IF nblks >= SFS_LN_NBLKS THEN [k EXCEPT !.st = "too big"]
        ELSE CountAppended(
                 CASE nblks < SFS_L0_NBLKS -> [k EXCEPT !.ci[f].din.direct[nblks] = b]
                   [] nblks \in SFS_L0_NBLKS..(SFS_L1_NBLKS - 1) ->
                          EnterL1(update_cache(k, c.l1, c.din.indirect), f, nblks - SFS_L0_NBLKS, b)
                   [] OTHER ->
                          EnterL2Entry(
                              EnterL2(update_cache(k, c.l2, c.din.db_indirect), f,
                                      (nblks - SFS_L1_NBLKS) \div SFS_BLKSIZE),
                              nblks - SFS_L1_NBLKS, b),
                 f, size)

CountLink(k, file) == IF mkOk(k) THEN [k EXCEPT !.ci[file].din.nlinks = @ + 1] ELSE k

\* A block just allocated is written and appended to the file.
AppendNew(k, f, words) ==
    IF mkOk(k) THEN append_block(WriteWords(k, words, k.ino), f, Len(words), k.ino) ELSE k

\* Each entry has a block of its own.  sizeof(entry->name) bytes of it are written,
\* not sizeof(*entry): the end of the longest names is lost.
add_entry(k, current, file, name) ==
    IF mkOk(k)
    THEN CountLink(AppendNew(sfs_alloc_ino(k), current, SubSeq(<<file>> \o name, 1, NameWords)),
                   file)
    ELSE k

\* Fault: the rest of a file after its last whole block is left out.
OpenFileWhole(k, file, o) ==
    LET words == Content(o)
        Copy(v, i) ==
            IF mkOk(v)
            THEN AppendNew(sfs_alloc_ino(v), file,
                           SubSeq(words, (i - 1) * SFS_BLKSIZE + 1, i * SFS_BLKSIZE))
            ELSE v
    IN  FoldLeft(Copy, k, [i \in 1..(Len(words) \div SFS_BLKSIZE) |-> i])

\* The words of a regular file, block by block.
open_file(k, file, o) ==
    LET words == Content(o)
        Copy(v, i) ==
            IF mkOk(v)
            THEN AppendNew(sfs_alloc_ino(v), file,
                           SubSeq(words, (i - 1) * SFS_BLKSIZE + 1,
                                  Min({i * SFS_BLKSIZE, Len(words)})))
            ELSE v
    IN  FoldLeft(Copy, k, [i \in 1..RoundUpDiv(Len(words), SFS_BLKSIZE) |-> i])

\* The target of a link fits in one block.
open_link(k, file, o) ==
    IF mkOk(k) THEN AppendNew(sfs_alloc_ino(k), file, Content(o)) ELSE k

\* The inode of the object is the one just allocated.  Every name of a link gets an inode
\* of its own, also two hard links.
LinkInode(k, current, name, o) ==
    IF mkOk(k) THEN add_entry(open_link(k, k.ino, o), current, k.ino, name) ELSE k

add_link(k, current, name, o) ==
    LinkInode(alloc_cache_inode(k, o, 0, "link"), current, name, o)

FileInode(k, current, name, o) ==
    IF mkOk(k) THEN add_entry(open_file(k, k.ino, o), current, k.ino, name) ELSE k

add_file(k, current, name, o) ==
    IF search_cache_inode(k, o) # 0 THEN add_entry(k, current, search_cache_inode(k, o), name)
    ELSE FileInode(alloc_cache_inode(k, o, 0, "file"), current, name, o)

\* The beginning of open_dir: the directory has its two own entries.
OpenDir(k, current, parent) ==
    add_entry(add_entry(k, current, current, Dot), current, parent, DotDot)

\* add_dir up to the loop of open_dir.
DirInode(k, parent) == IF mkOk(k) THEN OpenDir(k, k.ino, parent) ELSE k

add_dir(k, parent, d) ==
    IF search_cache_inode(k, d) # 0 THEN [k EXCEPT !.st = "dir"]
    ELSE DirInode(alloc_cache_inode(k, d, 0, "dir"), parent)

Frame(d, ino, name) ==
    [dir |-> d, ino |-> ino, name |-> name,
     left |-> {n \in DOMAIN host.tree[d] : host.tree[d][n] # None}]

-----------------------------------------------------------------------------
mkInit ==
    /\ host \in Hosts
    /\ mk = NoProgram
    /\ stack = <<>>
    /\ img = Blank

\* How many writes of a step succeed before one fails: no step writes a block twice.
Writes == 0..SFS_MAX_NBLKS
WillWrite(w) == [mk EXCEPT !.left = w]

\* The program goes on with this recursion, or bug() has ended it.
GoOn(k, frames) ==
    /\ mk' = IF mkOk(k) THEN [k EXCEPT !.left = 0] ELSE [st |-> k.st]
    /\ stack' = IF mkOk(k) THEN frames ELSE <<>>
    /\ UNCHANGED <<host, img>>

\* open_img, create_sfs and the call of open_dir for the root.
OpenImg ==
    /\ mk = NoProgram
    /\ img = Blank
    /\ \E nblks \in ImgBlocks, w \in Writes :
          GoOn(DirInode(create_sfs(nblks, w), SFS_BLKN_ROOT),
               <<Frame(Root, SFS_BLKN_ROOT, Dot)>>)

Running == mkOk(mk)
Current == Head(stack)
Taken(n) == [stack EXCEPT ![1].left = @ \ {n}]
Object(n) == host.tree[Current.dir][n]

\* readdir returns the names in any order.  Names with a leading dot are passed over,
\* and what is no file, directory or link, with a warning.
Skip(n) ==
    /\ n[1] = HiddenName \/ host.type[Object(n)] = "special"
    /\ stack' = Taken(n)
    /\ UNCHANGED <<host, mk, img>>

IsA(n, type) == n[1] # HiddenName /\ host.type[Object(n)] = type

AddLink(n) ==
    /\ IsA(n, "link")
    /\ \E w \in Writes : GoOn(add_link(WillWrite(w), Current.ino, n, Object(n)), Taken(n))

AddFile(n) ==
    /\ IsA(n, "file")
    /\ \E w \in Writes : GoOn(add_file(WillWrite(w), Current.ino, n, Object(n)), Taken(n))

EnterDir(n, d, k) == GoOn(k, <<Frame(d, k.real[d], n)>> \o Taken(n))

AddDir(n) ==
    /\ IsA(n, "dir")
    /\ \E w \in Writes : EnterDir(n, Object(n), add_dir(WillWrite(w), Current.ino, Object(n)))

\* add_dir after open_dir: only now the directory is entered in its parent.
EndDir ==
    /\ Current.left = {}
    /\ Len(stack) > 1
    /\ \E w \in Writes :
          GoOn(add_entry(WillWrite(w), stack[2].ino, Current.ino, Current.name), Tail(stack))

-----------------------------------------------------------------------------
\* The bits set in block i of the free map: the blocks that are free.
FreemapBits(next, ninos, i) ==
    LET first == i * SFS_BLKBITS
        start == IF first < next THEN next - first ELSE 0
        end   == IF first + SFS_BLKBITS > ninos THEN ninos - first ELSE SFS_BLKBITS
    IN  IF first + SFS_BLKBITS > next THEN start..(end - 1) ELSE {}

WriteFreemap(k, i) ==
    LET v == write_block(k, SFS_BLKSIZE, SFS_BLKN_FREEMAP + i)
    IN  IF mkOk(v) THEN [v EXCEPT !.freemap = (i :> FreemapBits(v.next, v.ninos, i)) @@ @] ELSE v

\* The superblock and an inode are smaller than a block.
WriteSuper(k) ==
    LET v == write_block(k, 1, SFS_BLKN_SUPER)
    IN  IF mkOk(v) THEN [v EXCEPT !.super = TRUE] ELSE v

flush_cache_block(k, b) ==
    LET v == write_block(k, SFS_BLKSIZE, b)
    IN  IF mkOk(v) THEN [v EXCEPT !.disk[b] = v.cache[b]] ELSE v

flush_cache_inode(k, i) ==
    LET v == write_block(k, 1, i)
    IN  IF mkOk(v) THEN [v EXCEPT !.inodes = (i :> v.ci[i].din) @@ @] ELSE v

WriteHead(k) ==
    WriteSuper(FoldLeft(WriteFreemap, k, [i \in 1..FreemapBlocks(k.ninos) |-> i - 1]))

\* All cached blocks are in the first hash list, the newest at its head.
FlushBlocks(k) ==
    LET Flush(v, b) == IF b \in DOMAIN v.cache THEN flush_cache_block(v, b) ELSE v
    IN  FoldLeft(Flush, k, [i \in 1..k.ninos |-> k.ninos - i])

\* The inodes are in the lists of their st_ino, the root in the first one behind later ones.
\* Whatever is written when a write fails is some set of them.
FlushInodes(k, first) ==
    LET Flush(i, v) == flush_cache_inode(v, i)
    IN  FoldSet(Flush, FoldSet(Flush, k, first), DOMAIN k.ci \ first)

\* Fault: an inode is written before the indirect blocks it refers to.
InodesFirst(k, first) == FlushBlocks(FlushInodes(WriteHead(k), first))

\* The lists of both caches are walked together; the inodes of first come before the others.
close_sfs(k, first) == FlushInodes(FlushBlocks(WriteHead(k)), first)

\* What the image file holds.  Without a superblock the rest does not matter.
ImageOf(k) ==
    IF k.super THEN [magic |-> TRUE, whole |-> mkOk(k), file |-> k.file, blocks |-> k.ninos,
                     unused |-> k.unused, freemap |-> k.freemap, inodes |-> k.inodes,
                     disk |-> k.disk]
    ELSE Blank

Exit(k) ==
    /\ mk' = IF mkOk(k) THEN NoProgram ELSE [st |-> k.st]
    /\ img' = ImageOf(k)
    /\ stack' = <<>>
    /\ UNCHANGED host

\* close_sfs, the last thing create_img does.
CloseSfs ==
    /\ Current.left = {}
    /\ Len(stack) = 1
    /\ \E w \in Writes, first \in SUBSET DOMAIN mk.ci : Exit(close_sfs(WillWrite(w), first))

mkNext ==
    \/ OpenImg
    \/ /\ Running
       /\ \/ \E n \in Current.left : Skip(n) \/ AddLink(n) \/ AddFile(n) \/ AddDir(n)
          \/ EndDir
          \/ CloseSfs
=============================================================================
