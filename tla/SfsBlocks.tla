------------------------------ MODULE SfsBlocks ------------------------------
(***************************************************************************)
(* The block map of a file of the simple file system (kern/fs/sfs): the     *)
(* free map, the direct and indirect blocks of an inode, and reading,       *)
(* writing and resizing through them.                                       *)
(*                                                                          *)
(* No function here gives up the processor (the disk is polled), so each    *)
(* call is one step.  An operator takes the state of the call and returns   *)
(* the next one; the call is a record:                                      *)
(*   free, unused, sdirty  freemap, super.unused_blocks and super_dirty     *)
(*   disk                  the words of each data block                     *)
(*   din, dirty            the inode of the file in memory                  *)
(*   st                    "ok", an error code or the assertion that failed *)
(*   full                  bitmap_alloc has failed, now or before           *)
(*   ino, ent              the results of the look-ups in the block map     *)
(*   alen, buf             what sfs_io_nolock has moved, and what it read   *)
(*                                                                          *)
(* The unit is a word of four bytes, so an indirect block has as many       *)
(* entries as a block has units.  A failing disk access is a panic in       *)
(* dev_disk0.c and returns no error; it is left out.                        *)
(***************************************************************************)
EXTENDS Integers, Sequences, FiniteSets, FiniteSetsExt, SequencesExt

CONSTANTS
    SFS_BLKSIZE,        \* words of a block, and entries of an indirect block
    SFS_NDIRECT,        \* direct blocks of an inode
    SFS_MAX_FILE_SIZE,  \* the limit the code sets on the size of a file
    NrBlocks            \* data blocks of the disk

ASSUME SfsAssumption ==
    /\ {SFS_BLKSIZE, SFS_NDIRECT, NrBlocks} \subseteq Nat \ {0}
    /\ SFS_MAX_FILE_SIZE \in Nat

Blocks == 1..NrBlocks
Offsets == 0..(SFS_BLKSIZE - 1)
ZeroBlock == [i \in Offsets |-> 0]

EmptyInode == [size |-> 0, blocks |-> 0,
               direct |-> [i \in 0..(SFS_NDIRECT - 1) |-> 0], indirect |-> 0]

Errors == {"E_NO_MEM", "E_INVAL"}
Panics == {"index", "size", "range", "inuse"}

Ok(w) == w.st = "ok"

Assert_(w, cond, what) == IF Ok(w) /\ ~cond THEN [w EXCEPT !.st = what] ELSE w

-----------------------------------------------------------------------------
\* sfs_block_inuse panics for a number that is no block.
sfs_block_inuse(w, b) == b \in Blocks /\ b \notin w.free

\* The words of the map are scanned upwards, and the bits of a word.
bitmap_alloc(free) == Min(free)

\* The block is cleared on the disk.
sfs_block_alloc(w) ==
    IF w.free = {}
    THEN [w EXCEPT !.st = "E_NO_MEM", !.full = TRUE]
    ELSE LET b == bitmap_alloc(w.free)
         IN  Assert_([w EXCEPT !.free = @ \ {b}, !.unused = @ - 1, !.sdirty = TRUE,
                               !.disk[b] = ZeroBlock, !.ino = b],
                     w.unused > 0, "inuse")

sfs_block_free(w, b) ==
    Assert_([w EXCEPT !.free = @ \cup {b}, !.unused = @ + 1, !.sdirty = TRUE],
            sfs_block_inuse(w, b), "inuse")

-----------------------------------------------------------------------------
\* Fault: the indirect block that was allocated for nothing stays allocated.
SetEntryLeaks(w, index) ==
    IF Ok(w) THEN [w EXCEPT !.disk[w.ent][index] = w.ino] ELSE w

\* The block w.ino becomes the entry of the indirect block w.ent.  If there was no
\* block for it, an indirect block just allocated is given back.
SetEntry(w, index) ==
    IF Ok(w) THEN [w EXCEPT !.disk[w.ent][index] = w.ino]
    ELSE IF w.din.indirect = 0 THEN sfs_block_free(w, w.ent)
    ELSE w

\* The indirect block is w.ino; its entry is allocated.
AddEntry(w, index) ==
    IF Ok(w) THEN SetEntry(sfs_block_alloc([w EXCEPT !.ent = w.ino]), index) ELSE w

\* The entry of an indirect block; with create, the missing entry, and the
\* missing indirect block before it.
sfs_bmap_get_sub_nolock(w, index, create) ==
    LET ent == w.din.indirect
        ino == IF ent # 0 THEN w.disk[ent][index] ELSE 0
    IN  IF ino # 0 \/ ~create THEN [w EXCEPT !.ent = ent, !.ino = ino]
        ELSE AddEntry(IF ent = 0 THEN sfs_block_alloc(w) ELSE [w EXCEPT !.ino = ent], index)

\* A new direct or indirect block is entered in the inode.
SetDirect(w, index) ==
    IF Ok(w) THEN [w EXCEPT !.din.direct[index] = w.ino, !.dirty = TRUE] ELSE w

SetIndirect(w) ==
    IF Ok(w) /\ w.ent # w.din.indirect
    THEN Assert_([w EXCEPT !.din.indirect = w.ent, !.dirty = TRUE], w.din.indirect = 0, "inuse")
    ELSE w

GetDirect(w, index, create) ==
    IF w.din.direct[index] # 0 \/ ~create
    THEN [w EXCEPT !.ino = w.din.direct[index]]
    ELSE SetDirect(sfs_block_alloc(w), index)

AssertInuse(w, alsoNone) ==
    Assert_(w, (alsoNone /\ w.ino = 0) \/ sfs_block_inuse(w, w.ino), "inuse")

sfs_bmap_get_nolock(w, index, create) ==
    AssertInuse(CASE index < SFS_NDIRECT -> GetDirect(w, index, create)
                  [] index \in SFS_NDIRECT..(SFS_NDIRECT + SFS_BLKSIZE - 1) ->
                         SetIndirect(sfs_bmap_get_sub_nolock(w, index - SFS_NDIRECT, create))
                  [] OTHER -> [w EXCEPT !.st = "range"],
                TRUE)

CountBlock(w, create) == IF Ok(w) /\ create THEN [w EXCEPT !.din.blocks = @ + 1] ELSE w

\* The block with this index, a new one if the index is the number of blocks.
\* blocks++ does not mark the inode dirty; its callers do when they set the size.
sfs_bmap_load_nolock(w, index) ==
    LET create == index = w.din.blocks
    IN  IF index > w.din.blocks THEN [w EXCEPT !.st = "index"]
        ELSE CountBlock(AssertInuse(sfs_bmap_get_nolock(w, index, create), FALSE), create)

\* The indirect block itself is kept when its last entry goes.
sfs_bmap_free_nolock(w, index) ==
    LET ent == w.din.indirect
        i   == index - SFS_NDIRECT
    IN  IF index < SFS_NDIRECT
        THEN IF w.din.direct[index] # 0
             THEN [sfs_block_free(w, w.din.direct[index]) EXCEPT
                       !.din.direct[index] = 0, !.dirty = TRUE]
             ELSE w
        ELSE IF i < SFS_BLKSIZE /\ ent # 0 /\ w.disk[ent][i] # 0
             THEN [sfs_block_free(w, w.disk[ent][i]) EXCEPT !.disk[ent][i] = 0]
             ELSE w

DropBlock(w) == IF Ok(w) THEN [w EXCEPT !.din.blocks = @ - 1, !.dirty = TRUE] ELSE w

sfs_bmap_truncate_nolock(w) == DropBlock(sfs_bmap_free_nolock(w, w.din.blocks - 1))

-----------------------------------------------------------------------------
RoundUpDiv(n, d) == (n + d - 1) \div d

\* The size is only set when the file has all its blocks: what an extension
\* that fails has allocated stays with the file.
SetSize(w, len, tblks) ==
    IF Ok(w) /\ w.din.blocks = tblks THEN [w EXCEPT !.din.size = len, !.dirty = TRUE]
    ELSE Assert_(w, FALSE, "inuse")

LoadNext(w, index) == IF Ok(w) THEN sfs_bmap_load_nolock(w, index) ELSE w
DropLast(w) == IF Ok(w) THEN sfs_bmap_truncate_nolock(w) ELSE w

\* The loops of sfs_truncfile: the n blocks from index first on are added, or the
\* last n taken away, until one fails.
Extend(w, first, n) ==
    LET after[k \in 0..n] == IF k = 0 THEN w ELSE LoadNext(after[k - 1], first + k - 1)
    IN  after[n]

Reduce(w, n) ==
    LET after[k \in 0..n] == IF k = 0 THEN w ELSE DropLast(after[k - 1])
    IN  after[n]

sfs_truncfile(w, len) ==
    LET tblks == RoundUpDiv(len, SFS_BLKSIZE)
        nblks == w.din.blocks
    IN  IF len < 0 \/ len > SFS_MAX_FILE_SIZE THEN [w EXCEPT !.st = "E_INVAL"]
        ELSE IF w.din.size = len THEN Assert_(w, tblks = nblks, "size")
        ELSE SetSize(IF nblks < tblks THEN Extend(w, nblks, tblks - nblks)
                     ELSE Reduce(w, nblks - tblks),
                     len, tblks)

\* A seek beyond the end extends the file.
sfs_tryseek(w, pos) ==
    IF pos < 0 \/ pos >= SFS_MAX_FILE_SIZE THEN [w EXCEPT !.st = "E_INVAL"]
    ELSE IF pos > w.din.size THEN sfs_truncfile(w, pos)
    ELSE w

-----------------------------------------------------------------------------
\* The pieces [offset, endpos) is moved in: up to the first block boundary,
\* whole blocks, and the rest.
Pieces(offset, endpos) ==
    LET blkno  == offset \div SFS_BLKSIZE
        nblks  == endpos \div SFS_BLKSIZE - blkno
        blkoff == offset % SFS_BLKSIZE
        rest   == endpos % SFS_BLKSIZE
        Piece(b, o, n) == [blk |-> b, off |-> o, size |-> n]
        first  == IF blkoff # 0
                  THEN <<Piece(blkno, blkoff,
                               IF nblks # 0 THEN SFS_BLKSIZE - blkoff ELSE endpos - offset)>>
                  ELSE <<>>
        whole  == [i \in 1..(nblks - Len(first)) |->
                       Piece(blkno + Len(first) + i - 1, 0, SFS_BLKSIZE)]
        last   == IF rest # 0 THEN <<Piece(blkno + nblks, 0, rest)>> ELSE <<>>
    IN  IF first # <<>> /\ nblks = 0 THEN first ELSE first \o whole \o last

\* Fault: a piece is written at the start of its block.
MoveWordsAtStart(w, p, data, write) ==
    IF ~Ok(w) THEN w
    ELSE IF write
    THEN [w EXCEPT !.disk[w.ino] =
                       [i \in Offsets |-> IF i < p.size THEN data[w.alen + i + 1] ELSE @[i]],
                   !.alen = @ + p.size]
    ELSE [w EXCEPT !.buf = @ \o [i \in 1..p.size |-> w.disk[w.ino][p.off + i - 1]],
                   !.alen = @ + p.size]

\* sfs_rbuf, sfs_wbuf, sfs_rblock or sfs_wblock of a piece in the block w.ino.
\* data are the words to write.
MoveWords(w, p, data, write) ==
    IF ~Ok(w) THEN w
    ELSE IF write
    THEN [w EXCEPT !.disk[w.ino] =
                       [i \in Offsets |-> IF i \in p.off..(p.off + p.size - 1)
                                          THEN data[w.alen + i - p.off + 1] ELSE @[i]],
                   !.alen = @ + p.size]
    ELSE [w EXCEPT !.buf = @ \o [i \in 1..p.size |-> w.disk[w.ino][p.off + i - 1]],
                   !.alen = @ + p.size]

MovePiece(w, p, data, write) ==
    IF Ok(w) THEN MoveWords(sfs_bmap_load_nolock(w, p.blk), p, data, write) ELSE w

MovePieces(w, pieces, data, write) ==
    LET after[k \in 0..Len(pieces)] ==
          IF k = 0 THEN w ELSE MovePiece(after[k - 1], pieces[k], data, write)
    IN  after[Len(pieces)]

\* The end of sfs_io_nolock: the size grows also if nothing was written.
Grow(w, offset) ==
    IF offset + w.alen > w.din.size
    THEN [w EXCEPT !.din.size = offset + w.alen, !.dirty = TRUE]
    ELSE w

\* sfs_io_nolock for len > 0 words at offset.
sfs_io_nolock(w, offset, len, data, write) ==
    LET w0   == [w EXCEPT !.alen = 0, !.buf = <<>>]
        ends == {offset + len, SFS_MAX_FILE_SIZE} \cup IF write THEN {} ELSE {w.din.size}
    IN  IF offset >= SFS_MAX_FILE_SIZE THEN [w0 EXCEPT !.st = "E_INVAL"]
        ELSE IF ~write /\ offset >= w.din.size THEN w0
        ELSE Grow(MovePieces(w0, Pieces(offset, Min(ends)), data, write), offset)
=============================================================================
