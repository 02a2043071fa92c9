-------------------------------- MODULE SfsDir --------------------------------
(***************************************************************************)
(* The kernel's view of an image of the simple file system: mounting it     *)
(* (kern/fs/sfs/sfs_fs.c) and its directories (kern/fs/sfs/sfs_inode.c).    *)
(*                                                                          *)
(* A mounted file system fs is the image with the set of free blocks read   *)
(* from the free map.  A call w is the record of SfsBlocks with the inode   *)
(* of the directory in din and two fields more: found, the inode number of  *)
(* the entry a search has met, and slot, the entries still to pass over.    *)
(***************************************************************************)
EXTENDS SfsBlocks

-----------------------------------------------------------------------------
\* The bits of the free map that are set, from all its blocks of blkbits bits.
sfs_init_freemap(image, blkbits) ==
    UNION {{i * blkbits + j : j \in image.freemap[i]} : i \in DOMAIN image.freemap}

\* "ok", an error, or the assertion on the count of the free blocks.
sfs_do_mount(image, blkbits, d_blocks) ==
    CASE ~image.magic -> "E_INVAL"
      [] image.magic /\ image.blocks > d_blocks -> "E_INVAL"
      [] image.magic /\ image.blocks <= d_blocks ->
             IF Cardinality(sfs_init_freemap(image, blkbits)) = image.unused THEN "ok" ELSE "unused"

\* The struct sfs_fs of a mounted image with these free blocks, and the disk.
sfs_fs(image, free) ==
    [free |-> free, blocks |-> image.blocks, unused |-> image.unused,
     inodes |-> image.inodes, disk |-> image.disk]

\* "ok" or the panic sfs_load_inode ends in; sfs_create_inode calls sfs_get_ops.
sfs_load_inode(fs, ino) ==
    IF ino \notin 1..(fs.blocks - 1) \/ ino \in fs.free THEN "inuse"
    ELSE IF ino \notin DOMAIN fs.inodes \/ fs.inodes[ino].nlinks = 0 THEN "nlinks"
    ELSE IF fs.inodes[ino].type \notin {"dir", "file"} THEN "type"
    ELSE "ok"

sfs_gettype(fs, ino) == fs.inodes[ino].type

\* A call on a loaded inode.
OnInode(fs, ino) ==
    [free |-> fs.free, unused |-> fs.unused, sdirty |-> FALSE, disk |-> fs.disk,
     din |-> fs.inodes[ino], dirty |-> FALSE, st |-> "ok", full |-> FALSE,
     ino |-> 0, ent |-> 0, alen |-> 0, buf |-> <<>>, found |-> 0, slot |-> 0]

-----------------------------------------------------------------------------
\* buf is the entry: the inode number and the words of the name.
ReadEntry(w) ==
    IF Ok(w) THEN [w EXCEPT !.buf = [i \in 1..3 |-> w.disk[w.ino][i - 1]]] ELSE w

sfs_dirent_read_nolock(w, slot) == ReadEntry(sfs_bmap_load_nolock(w, slot))

EntryIno(w) == w.buf[1]
EntryName(w) == <<w.buf[2], w.buf[3]>>

\* A search wants the entry with a name or an inode number, or just the next one.
Wanted(w, want) ==
    CASE want.by = "name" -> EntryName(w) = want.is
      [] want.by = "ino"  -> EntryIno(w) = want.is
      [] OTHER            -> TRUE

\* An entry in use is the one looked for, or one to pass over.
MatchEntry(w, want) ==
    IF ~Ok(w) \/ EntryIno(w) = 0 THEN w
    ELSE IF w.slot > 0 THEN [w EXCEPT !.slot = @ - 1]
    ELSE IF Wanted(w, want) THEN [w EXCEPT !.found = EntryIno(w)]
    ELSE w

EndScan(w) == IF Ok(w) /\ w.found = 0 THEN [w EXCEPT !.st = "E_NOENT"] ELSE w

\* The slots in order, until the entry of one matches or a read fails.
ScanSlots(w, want) ==
    LET Slot(v, i) == IF Ok(v) /\ v.found = 0
                      THEN MatchEntry(sfs_dirent_read_nolock(v, i), want) ELSE v
    IN  EndScan(FoldLeft(Slot, w, [i \in 1..w.din.blocks |-> i - 1]))

SFS_MAX_FNAME_LEN == 2      \* in words; EntryName has as many
strlen(name) == Cardinality({i \in DOMAIN name : name[i] # 0})

sfs_dirent_search_nolock(w, name) ==
    IF strlen(name) > SFS_MAX_FNAME_LEN THEN [w EXCEPT !.st = "fname"]
    ELSE ScanSlots(w, [by |-> "name", is |-> name])

sfs_dirent_findino_nolock(w, ino) ==
    ScanSlots(w, [by |-> "ino", is |-> ino])

sfs_getdirentry_sub_nolock(w, slot) ==
    ScanSlots([w EXCEPT !.slot = slot], [by |-> "slot"])

\* offset counts in units of sfs_dentry_size.
sfs_getdirentry(w, slot) ==
    IF slot > w.din.blocks THEN [w EXCEPT !.st = "E_NOENT"]
    ELSE sfs_getdirentry_sub_nolock(w, slot)

\* The inode number and "ok", an error or a panic.
LoadFound(fs, w) == [ino |-> w.found, st |-> IF Ok(w) THEN sfs_load_inode(fs, w.found) ELSE w.st]

sfs_lookup_once(fs, dir, name) == LoadFound(fs, sfs_dirent_search_nolock(OnInode(fs, dir), name))

sfs_lookup(fs, dir, name) ==
    IF fs.inodes[dir].type # "dir" THEN [ino |-> 0, st |-> "E_NOTDIR"]
    ELSE sfs_lookup_once(fs, dir, name)

\* The loop of sfs_namefile: p has the directory, the names found so far and the room
\* left.  The entry w names p.dir in its parent.
PutName(p, parent, w) ==
    LET alen == strlen(EntryName(w)) + 1
    IN  IF ~Ok(w) THEN [p EXCEPT !.st = w.st]
        ELSE IF alen > p.resid THEN [p EXCEPT !.st = "E_NO_MEM"]
        ELSE [p EXCEPT !.dir = parent, !.path = <<EntryName(w)>> \o @, !.resid = @ - alen]

\* The loop ends at the directory that is its own parent.
GoUp(fs, p, up) ==
    IF up.st # "ok" THEN [p EXCEPT !.st = up.st]
    ELSE IF up.ino = p.dir THEN [p EXCEPT !.st = "ok"]
    ELSE PutName(p, up.ino, sfs_dirent_findino_nolock(OnInode(fs, up.ino), p.dir))

sfs_namefile(fs, dir, resid, dotdot) ==
    LET Step(p, i) == IF p.st = "more" THEN GoUp(fs, p, sfs_lookup_once(fs, p.dir, dotdot)) ELSE p
        none == [dir |-> dir, path |-> <<>>, resid |-> resid - 2, st |-> "more"]
    IN  IF resid <= 2 THEN [none EXCEPT !.st = "E_NO_MEM"]
        ELSE FoldLeft(Step, none, [i \in 1..fs.blocks |-> i])
=============================================================================
