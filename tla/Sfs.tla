--------------------------------- MODULE Sfs ---------------------------------
(***************************************************************************)
(* Files of the simple file system, used through descriptors: open, read,   *)
(* write, seek, dup, fsync and close of kern/fs/file.c and sysfile.c down   *)
(* to the blocks of SfsBlocks, and the shutdown that writes the free map    *)
(* back and the mount that reads it again.                                  *)
(*                                                                          *)
(* The descriptors are those of all processes: each has a table of its own, *)
(* and an open file has an inode in memory that all its descriptors share.  *)
(* Files cannot be created, linked or removed by this system (vop_create,   *)
(* vfs_link and vfs_unlink do not exist), so a file is in its directory     *)
(* always.  The counts of references are the subject of Files.              *)
(***************************************************************************)
EXTENDS SfsBlocks

CONSTANTS
    Files, Fds, NoFile,
    Lens,       \* the lengths of reads and writes
    OutOfDate,  \* what is on the disk is older than what is in memory
    Seeks       \* the arguments of seeks: an offset and where it counts from

\* What an inode on the disk can be: struct sfs_disk_inode.
DiskInodes ==
    [size : Nat, blocks : Nat, direct : [0..(SFS_NDIRECT - 1) -> Nat], indirect : Nat]

ASSUME FilesAssumption ==
    /\ NoFile \notin Files
    /\ OutOfDate \notin DiskInodes
    /\ Lens \subseteq Nat \ {0}
    /\ Seeks \subseteq Int \X {"SET", "CUR", "END"}

VARIABLES
    super,      \* struct sfs_fs: free map, unused_blocks, super_dirty
    image,      \* the free map and the superblock on the disk; OutOfDate if super_dirty
    disk,       \* the data blocks
    store,      \* the inodes on the disk; OutOfDate if dirty
    sin,        \* struct sfs_inode of the open files
    file, pos,  \* struct file of each descriptor
    out,        \* what the last read returned
    full,       \* history: an allocation has failed
    panic

vars == <<super, image, disk, store, sin, file, pos, out, full, panic>>

NoRead == <<>>
NotLoaded == [din |-> EmptyInode, dirty |-> FALSE]

InCore(f) == \E d \in Fds : file[d] = f

Init ==
    /\ super = [free |-> Blocks, unused |-> NrBlocks, dirty |-> FALSE]
    /\ image = [free |-> Blocks, unused |-> NrBlocks]
    /\ disk = [b \in Blocks |-> ZeroBlock]
    /\ store = [f \in Files |-> EmptyInode]
    /\ sin = [f \in Files |-> NotLoaded]
    /\ file = [d \in Fds |-> NoFile]
    /\ pos = [d \in Fds |-> 0]
    /\ out = NoRead
    /\ full = FALSE
    /\ panic = "no"

\* A call on file f begins: sfs_load_inode finds the inode in memory or reads it.
Call(f) ==
    LET node == IF InCore(f) THEN sin[f] ELSE [NotLoaded EXCEPT !.din = store[f]]
    IN  [free |-> super.free, unused |-> super.unused, sdirty |-> super.dirty,
         disk |-> disk, din |-> node.din, dirty |-> node.dirty,
         st |-> "ok", full |-> full, ino |-> 0, ent |-> 0, alen |-> 0, buf |-> <<>>]

\* It ends: with a panic nothing happens any more.
Return(f, w, files, positions, result) ==
    IF w.st \in Panics
    THEN /\ panic' = w.st
         /\ UNCHANGED <<super, image, disk, store, sin, file, pos, out, full>>
    ELSE /\ super' = [free |-> w.free, unused |-> w.unused, dirty |-> w.sdirty]
         /\ image' = IF w.sdirty THEN OutOfDate ELSE image
         /\ disk' = w.disk
         /\ store' = IF w.dirty THEN [store EXCEPT ![f] = OutOfDate] ELSE store
         /\ sin' = [sin EXCEPT ![f] = [din |-> w.din, dirty |-> w.dirty]]
         /\ full' = w.full
         /\ file' = files
         /\ pos' = positions
         /\ out' = result
         /\ UNCHANGED panic

-----------------------------------------------------------------------------
\* file_open and vfs_open of an existing file; O_TRUNC and O_CREAT truncate it.
Open(d, f, trunc, append) ==
    LET w == IF trunc THEN sfs_truncfile(Call(f), 0) ELSE Call(f)
    IN  /\ panic = "no"
        /\ file[d] = NoFile
        /\ Return(f, w, [file EXCEPT ![d] = f],
                  [pos EXCEPT ![d] = IF append THEN w.din.size ELSE 0], NoRead)

Dup(d, e) ==
    /\ panic = "no"
    /\ file[d] # NoFile
    /\ file[e] = NoFile
    /\ file' = [file EXCEPT ![e] = file[d]]
    /\ pos' = [pos EXCEPT ![e] = pos[d]]
    /\ out' = NoRead
    /\ UNCHANGED <<super, image, disk, store, sin, full, panic>>

\* Fault: the inode is only marked clean.
FsyncForgets(f) ==
    /\ UNCHANGED store
    /\ sin' = [sin EXCEPT ![f].dirty = FALSE]

sfs_fsync(f) ==
    /\ store' = IF sin[f].dirty THEN [store EXCEPT ![f] = sin[f].din] ELSE store
    /\ sin' = [sin EXCEPT ![f].dirty = FALSE]

Fsync(d) ==
    /\ panic = "no"
    /\ file[d] # NoFile
    /\ sfs_fsync(file[d])
    /\ UNCHANGED <<super, image, disk, file, pos, out, full, panic>>

\* The last close writes the inode back and sfs_reclaim frees it.
Close(d) ==
    LET f == file[d]
    IN  /\ panic = "no"
        /\ f # NoFile
        /\ IF \E e \in Fds \ {d} : file[e] = f
           THEN UNCHANGED <<store, sin>>
           ELSE /\ store' = IF sin[f].dirty THEN [store EXCEPT ![f] = sin[f].din] ELSE store
                /\ sin' = [sin EXCEPT ![f] = NotLoaded]
        /\ file' = [file EXCEPT ![d] = NoFile]
        /\ pos' = [pos EXCEPT ![d] = 0]
        /\ out' = NoRead
        /\ UNCHANGED <<super, image, disk, full, panic>>

-----------------------------------------------------------------------------
\* A system call moves its words in chunks of the kernel's buffer.
IOBUF_SIZE == SFS_BLKSIZE

\* The words a writer of len words has in its buffer.
Data(len) == [i \in 1..len |-> i]

\* The position and the count after file_read or file_write of a chunk.
Moved(v, w, len) ==
    [w |-> w, pos |-> v.pos + w.alen, copied |-> v.copied + w.alen, got |-> v.got \o w.buf,
     stop |-> ~Ok(w) \/ w.alen = 0 \/ v.copied + w.alen = len]

\* One iteration of the loops of sysfile_read and sysfile_write: the next chunk at
\* the position of the file.
Chunk(v, len, write) ==
    LET n == Min({IOBUF_SIZE, len - v.copied})
    IN  Moved(v, sfs_io_nolock(v.w, v.pos, n, SubSeq(Data(len), v.copied + 1, v.copied + n), write),
              len)

NextChunk(v, len, write) == IF v.stop THEN v ELSE Chunk(v, len, write)

\* The loop: no more than len chunks are moved.
Chunks(v, len, write) ==
    LET after[k \in 0..(len + 1)] == IF k = 0 THEN v ELSE NextChunk(after[k - 1], len, write)
    IN  after[len + 1]

sysfile_rw(d, len, write) ==
    Chunks([w |-> Call(file[d]), pos |-> pos[d], copied |-> 0, got |-> <<>>, stop |-> FALSE],
           len, write)

Write(d, len) ==
    /\ panic = "no"
    /\ file[d] # NoFile
    /\ LET v == sysfile_rw(d, len, TRUE)
       IN  Return(file[d], v.w, file, [pos EXCEPT ![d] = v.pos], NoRead)

Read(d, len) ==
    /\ panic = "no"
    /\ file[d] # NoFile
    /\ LET v == sysfile_rw(d, len, FALSE)
       IN  Return(file[d], v.w, file, [pos EXCEPT ![d] = v.pos], v.got)

\* file_seek: whence is LSEEK_SET, LSEEK_CUR or LSEEK_END.
Seek(d, off, whence) ==
    /\ panic = "no"
    /\ file[d] # NoFile
    /\ LET f == file[d]
           p == off + CASE whence = "SET" -> 0
                        [] whence = "CUR" -> pos[d]
                        [] whence = "END" -> sin[f].din.size
           w == sfs_tryseek(Call(f), p)
       IN  Return(f, w, file, [pos EXCEPT ![d] = IF Ok(w) THEN p ELSE @], NoRead)

\* The superblock and the free map are written if they have changed.
sfs_sync == IF super.dirty THEN [free |-> super.free, unused |-> super.unused] ELSE image

\* fs_cleanup calls sfs_sync when all processes have gone; sfs_do_mount of the
\* next boot reads the free map and counts the free blocks.
Reboot ==
    LET img == sfs_sync
    IN  /\ panic = "no"
        /\ \A d \in Fds : file[d] = NoFile
        /\ image' = img
        /\ super' = [free |-> img.free, unused |-> img.unused, dirty |-> FALSE]
        /\ panic' = IF img.unused = Cardinality(img.free) THEN "no" ELSE "inuse"
        /\ UNCHANGED <<disk, store, sin, file, pos, out, full>>

\* After a panic the kernel runs its monitor for ever.
Halted == panic # "no" /\ UNCHANGED vars

Next ==
    \/ \E d \in Fds :
           \/ \E f \in Files, trunc, append \in BOOLEAN : Open(d, f, trunc, append)
           \/ \E e \in Fds : Dup(d, e)
           \/ Fsync(d)
           \/ Close(d)
           \/ \E len \in Lens : Write(d, len) \/ Read(d, len)
           \/ \E s \in Seeks : Seek(d, s[1], s[2])
    \/ Reboot
    \/ Halted

Spec == Init /\ [][Next]_vars

-----------------------------------------------------------------------------
Inode(f) == IF InCore(f) THEN sin[f].din ELSE store[f]

\* The block that holds the words of a file from index * SFS_BLKSIZE on, or 0.
BlockOf(n, index) ==
    IF index < SFS_NDIRECT THEN n.direct[index]
    ELSE IF n.indirect = 0 THEN 0
    ELSE disk[n.indirect][index - SFS_NDIRECT]

MapIndexes == 0..(SFS_NDIRECT + SFS_BLKSIZE - 1)

Content(n) ==
    [i \in 1..n.size |->
        LET b == BlockOf(n, (i - 1) \div SFS_BLKSIZE)
        IN  IF b = 0 THEN 0 ELSE disk[b][(i - 1) % SFS_BLKSIZE]]

\* The places that name a block: an index of the map, or "indirect".
Uses ==
    {u \in Files \X (MapIndexes \cup {SFS_NDIRECT + SFS_BLKSIZE}) :
        LET n == Inode(u[1])
        IN  IF u[2] \in MapIndexes THEN BlockOf(n, u[2]) # 0 ELSE n.indirect # 0}

Used(u) == LET n == Inode(u[1]) IN IF u[2] \in MapIndexes THEN BlockOf(n, u[2]) ELSE n.indirect

\* Every block is free or has exactly one user, unused_blocks counts the free
\* ones, and a file has a block for each index below din->blocks: nothing is
\* lost or given to two files when an allocation fails half-way
\* (sfs_bmap_get_sub_nolock, sfs_truncfile), when the inode was closed, loaded
\* again, or after a shutdown and a mount.  So the assertions of sfs_inode.c,
\* sfs_fs.c and bitmap.c on blocks in use never fail; assert(index <= din->blocks)
\* only fails for a descriptor whose position is beyond the end of its file,
\* truncated through another one, and assert(tblks == din->blocks) only after the
\* disk was full.
BlocksExact ==
    /\ panic # "inuse"
    /\ panic = "index" => \E d \in Fds : file[d] # NoFile /\ pos[d] > sin[file[d]].din.size
    /\ panic = "size" => full
    /\ \A u1, u2 \in Uses : Used(u1) = Used(u2) => u1 = u2
    /\ super.free = Blocks \ {Used(u) : u \in Uses}
    /\ super.unused = Cardinality(super.free)
    /\ \A f \in Files : \A i \in 0..(Inode(f).blocks - 1) : BlockOf(Inode(f), i) # 0

\* "Force any dirty inode info associated with this file to stable storage": a
\* file whose inode is not dirty has its content on the disk, from the inode
\* written there by sfs_fsync or by the last close.
StableStorage ==
    \A f \in Files : InCore(f) /\ ~sin[f].dirty =>
        store[f] # OutOfDate /\ Content(store[f]) = Content(sin[f].din)

ByteFiles == INSTANCE ByteFiles WITH
    content <- [f \in Files |-> Content(Inode(f))], MaxSize <- SFS_MAX_FILE_SIZE

\* The file system implements files that are sequences of words: what is read
\* is what was written last, over block boundaries, direct and indirect blocks, a
\* full disk, other descriptors' truncations, and closing, loading again and
\* rebooting; gaps are zeros as long as the disk was never full.
Implements == ByteFiles!Spec
=============================================================================
