-------------------------------- MODULE Image --------------------------------
(***************************************************************************)
(* From the host to the kernel: mksfs builds an image (MkSfs), the kernel   *)
(* boots with it as disk0, mounts it (VfsDev, SfsDir) and reads it.  What   *)
(* both sides say about the layout of the image has to agree: each has its  *)
(* own copy of the structures.                                              *)
(*                                                                          *)
(* The kernel has one process here, with a current directory:               *)
(*   kern     "off", "up" or "panic"                                        *)
(*   fs       the free blocks of the mounted file system, NoFs if none      *)
(*   cwd      the inode of the current directory, 0 if none is held         *)
(*   hcwd     the host directory cwd was made from                          *)
(*   out      the last call with its argument and result                    *)
(* The files are only read: the sfs run is about changing them.             *)
(***************************************************************************)
EXTENDS MkSfs, SfsDir, VfsDev

CONSTANTS
    Names,      \* the names the process uses
    CwdSizes    \* the buffer sizes it passes to getcwd

VARIABLES kern, fs, cwd, hcwd, out

kernVars == <<vdev_list, kern, fs, cwd, hcwd, out>>
vars == <<mkVars, kernVars>>

NoCall == [op |-> "none", dir |-> None, arg |-> "", st |-> "ok", val |-> <<>>]
PanicStates == {"inuse", "nlinks", "type", "range", "index", "size", "unused", "fname"}

Init ==
    /\ mkInit
    /\ vfs_devlist_init
    /\ kern = "off"
    /\ fs = NoFs
    /\ cwd = 0 /\ hcwd = None
    /\ out = NoCall

Build == mkNext /\ UNCHANGED kernVars

\* The result of a call; a failed assertion and a panic stop the kernel.
Return(op, arg, st, val) ==
    /\ out' = [op |-> op, dir |-> hcwd, arg |-> arg, st |-> st, val |-> val]
    /\ kern' = IF st \in PanicStates THEN "panic" ELSE kern

-----------------------------------------------------------------------------
\* The disk has the blocks of the image file.
Mount == IF img = Blank THEN "E_INVAL" ELSE sfs_do_mount(img, SFS_BLKBITS, img.file)

\* kern_init with the image mksfs has made, whole or not: vfs_init, dev_init and
\* sfs_init, which panics if disk0 cannot be mounted.
fs_init ==
    /\ kern = "off"
    /\ \/ mk = NoProgram /\ img # Blank
       \/ mk # NoProgram /\ ~mkOk(mk)
    /\ vdev_list' = IF Mount = "ok" THEN SetFs(dev_init(vdev_list), "disk0", "sfs")
                    ELSE dev_init(vdev_list)
    /\ fs' = IF Mount = "ok" THEN sfs_init_freemap(img, SFS_BLKBITS) ELSE NoFs
    /\ out' = [NoCall EXCEPT !.op = "boot", !.st = Mount]
    /\ kern' = IF Mount = "ok" THEN "up" ELSE "panic"
    /\ UNCHANGED <<mkVars, cwd, hcwd>>

vfs_mount(name) ==
    /\ LET r == MountRet(vdev_list, name)
           m == IF r = "ok" THEN Mount ELSE r
       IN  /\ vdev_list' = IF m = "ok" THEN SetFs(vdev_list, name, "sfs") ELSE vdev_list
           /\ fs' = IF m = "ok" THEN sfs_init_freemap(img, SFS_BLKBITS) ELSE fs
           /\ Return("mount", "", m, <<>>)
    /\ UNCHANGED <<mkVars, cwd, hcwd>>

\* Fault: sfs_unmount does not ask for loaded inodes.
UnmountAlways(loaded) == "ok"

\* sfs_unmount refuses while an inode is loaded; nothing is dirty here.
sfs_unmount(loaded) == IF loaded # {} THEN "E_BUSY" ELSE "ok"

\* The struct sfs_fs of the mounted image.
Fs == sfs_fs(img, fs)

Loaded == {cwd} \ {0}

vfs_unmount(name) ==
    /\ LET r == UnmountRet(vdev_list, name)
           u == IF r = "ok" THEN sfs_unmount(Loaded) ELSE r
       IN  /\ vdev_list' = IF u = "ok" THEN SetFs(vdev_list, name, NoFs) ELSE vdev_list
           /\ fs' = IF u = "ok" THEN NoFs ELSE fs
           /\ Return("unmount", "", u, <<>>)
    /\ UNCHANGED <<mkVars, cwd, hcwd>>

\* Only disk0 can have a file system; what cannot be unmounted is passed over.
vfs_unmount_all ==
    /\ LET gone == Mounted(vdev_list) # {} /\ sfs_unmount(Loaded) = "ok"
       IN  /\ vdev_list' = IF gone THEN SetFs(vdev_list, "disk0", NoFs) ELSE vdev_list
           /\ fs' = IF gone THEN NoFs ELSE fs
    /\ Return("unmount", "", "ok", <<>>)
    /\ UNCHANGED <<mkVars, cwd, hcwd>>

\* chdir to "name:".  The device of stdin or stdout is no directory.
ChdirDevice(name) ==
    LET r  == vfs_get_root(vdev_list, name)
        st == IF r = "root" THEN sfs_load_inode(Fs, SFS_BLKN_ROOT)
              ELSE IF r = "device" THEN "E_NOTDIR" ELSE r
    IN  /\ cwd' = IF st = "ok" THEN SFS_BLKN_ROOT ELSE cwd
        /\ hcwd' = IF st = "ok" THEN Root ELSE hcwd
        /\ Return("chdir_device", "", st, <<>>)
        /\ UNCHANGED <<mkVars, vdev_list, fs>>

\* The host directory a name of a directory stands for.
HostDir(d, n) ==
    IF n = Dot THEN d
    ELSE IF n = DotDot THEN Root
    ELSE CHOOSE o \in {host.tree[d][m] : m \in {x \in DOMAIN host.tree[d] : x[1] = n[1]}} \ {None} :
             host.type[o] = "dir"

\* l is the result of the look-up, st that of the call.
SetCwd(n, l, st) ==
    /\ cwd' = IF st = "ok" THEN l.ino ELSE cwd
    /\ hcwd' = IF st = "ok" THEN HostDir(hcwd, n) ELSE hcwd
    /\ Return("chdir", n, st, <<>>)

ChdirTo(n, l) ==
    SetCwd(n, l, IF l.st = "ok" /\ sfs_gettype(Fs, l.ino) # "dir" THEN "E_NOTDIR" ELSE l.st)

\* chdir to a name in the current directory, which is released.
Chdir(n) ==
    /\ cwd # 0
    /\ ChdirTo(n, sfs_lookup(Fs, cwd, n))
    /\ UNCHANGED <<mkVars, vdev_list, fs>>

\* The process exits: its current directory is released.
Leave ==
    /\ cwd # 0
    /\ cwd' = 0
    /\ hcwd' = None
    /\ out' = NoCall
    /\ UNCHANGED <<mkVars, vdev_list, kern, fs>>

ReadWhole(w) == sfs_io_nolock(w, 0, w.din.size, <<>>, FALSE)
ReadReturns(n, w) == Return("read", n, w.st, w.buf)

ReadAt(n, l) ==
    IF l.st # "ok" THEN Return("read", n, l.st, <<>>)
    ELSE IF sfs_gettype(Fs, l.ino) # "file" THEN Return("read", n, "dir", <<>>)
    ELSE ReadReturns(n, ReadWhole(OnInode(Fs, l.ino)))

\* The whole of a file, by its name in the current directory.
Read(n) ==
    /\ cwd # 0
    /\ ReadAt(n, sfs_lookup(Fs, cwd, n))
    /\ UNCHANGED <<mkVars, vdev_list, fs, cwd, hcwd>>

\* The names of the current directory: getdirentry with the next offset until it fails.
ListEntry(l, e) ==
    IF Ok(e) THEN [l EXCEPT !.names = Append(@, EntryName(e))] ELSE [l EXCEPT !.st = e.st]

ListAll(w) ==
    LET More(l, slot) == IF l.st = "ok" THEN ListEntry(l, sfs_getdirentry(w, slot)) ELSE l
    IN  FoldLeft(More, [names |-> <<>>, st |-> "ok"], [i \in 1..(w.din.blocks + 1) |-> i - 1])

ListReturns(l) == Return("list", "", l.st, l.names)

List ==
    /\ cwd # 0
    /\ ListReturns(ListAll(OnInode(Fs, cwd)))
    /\ UNCHANGED <<mkVars, vdev_list, fs, cwd, hcwd>>

\* vfs_getcwd: the name of the device and a colon, a word each, then the path.
CwdReturns(size, p) ==
    Return("getcwd", size, p.st, <<vfs_get_devname(vdev_list, "sfs")>> \o p.path)

Getcwd(size) ==
    /\ cwd # 0
    /\ CwdReturns(size, IF size < 2 THEN [st |-> "E_NO_MEM", path |-> <<>>]
                        ELSE sfs_namefile(Fs, cwd, size - 2, DotDot))
    /\ UNCHANGED <<mkVars, vdev_list, fs, cwd, hcwd>>

Use ==
    /\ kern = "up"
    /\ \/ \E d \in DevNames : vfs_mount(d) \/ vfs_unmount(d) \/ ChdirDevice(d)
       \/ vfs_unmount_all
       \/ \E n \in Names : Chdir(n) \/ Read(n)
       \/ List
       \/ \E size \in CwdSizes : Getcwd(size)
       \/ Leave

Next == Build \/ fs_init \/ Use

Spec == Init /\ [][Next]_vars

-----------------------------------------------------------------------------
(* Properties *)

\* The blocks of an inode of the image: the indirect ones, and the data in order.
TableBlocks(i) ==
    LET d == img.inodes[i]
        second == IF d.db_indirect = 0 THEN {} ELSE {img.disk[d.db_indirect][j] : j \in Offsets}
    IN  ({d.indirect, d.db_indirect} \cup second) \ {0}

DataBlock(i, n) ==
    LET d == img.inodes[i]
        m == n - SFS_L1_NBLKS
    IN  IF n < SFS_L0_NBLKS THEN d.direct[n]
        ELSE IF n < SFS_L1_NBLKS THEN img.disk[d.indirect][n - SFS_L0_NBLKS]
        ELSE img.disk[img.disk[d.db_indirect][m \div SFS_BLKSIZE]][m % SFS_BLKSIZE]

DataBlocks(i) == {DataBlock(i, n) : n \in 0..(img.inodes[i].blocks - 1)}

Inodes == DOMAIN img.inodes
Directories == {i \in Inodes : img.inodes[i].type = "dir"}
Entries(i) == UNION {{<<d, n>> : n \in {m \in 0..(img.inodes[d].blocks - 1) :
                                            img.disk[DataBlock(d, m)][0] = i}} : d \in Directories}

\* The image mksfs leaves is exact: the reserved blocks, the inodes, the indirect
\* blocks and the data blocks do not overlap and together with the blocks of the free
\* map are the whole image, unused_blocks counts the free map, nlinks of an inode is the
\* number of directory entries that name it, and an inode has a block for each index
\* below its blocks.  A write of mksfs that fails after the one of the superblock leaves
\* an image with some inodes missing, which the kernel mounts like a whole one; what is
\* in it is still consistent: each inode there has all its blocks, and no block of
\* it is another's or free.  The kernel mounts every image with a superblock, without the
\* assertion of sfs_do_mount failing, and no other (close_sfs, add_entry, append_block,
\* sfs_do_mount).
ImageExact ==
    /\ img # Blank /\ kern = "off" =>
          LET reserved == 0..(SFS_BLKN_FREEMAP + FreemapBlocks(img.blocks) - 1)
              free     == sfs_init_freemap(img, SFS_BLKBITS)
              Parts(i) == Cardinality(TableBlocks(i)) + img.inodes[i].blocks
              owned    == UNION {TableBlocks(i) \cup DataBlocks(i) : i \in Inodes}
          IN  /\ 0 \notin owned
              /\ Cardinality(owned) = MapThenSumSet(Parts, Inodes)
              /\ owned \cap (Inodes \cup reserved) = {}
              /\ Inodes \cap reserved \subseteq {SFS_BLKN_ROOT}
              /\ free \cap (owned \cup Inodes \cup reserved) = {}
              /\ Cardinality(free) = img.unused
              /\ img.whole =>
                    /\ SFS_BLKN_ROOT \in Inodes
                    /\ free \cup owned \cup Inodes \cup reserved = 0..(img.blocks - 1)
                    /\ \A i \in Inodes : img.inodes[i].nlinks = Cardinality(Entries(i))
    /\ mk.st \in {"none", "ok", "out of disk space", "too big", "too small", "write failed"}
    /\ out.op \in {"boot", "mount"} => out.st # "unused" /\ (out.st = "E_INVAL") = (img = Blank)

\* The names mksfs puts into the image, and the form the kernel finds them in.
Visible(d) ==
    {n \in DOMAIN host.tree[d] :
        /\ host.tree[d][n] # None
        /\ n[1] # HiddenName
        /\ host.type[host.tree[d][n]] # "special"}
Stored(n) == <<n[1], 0>>
Slots(d) == 2 + Cardinality(Visible(d))
PathTo(d) == IF d = Root THEN <<>> ELSE <<Stored(CHOOSE n \in Visible(Root) : host.tree[Root][n] = d)>>

\* What getcwd needs for a path: the device and its colon, each name and its slash, the
\* first slash and the end of the string, and a word for an empty path.
Room(path) == 4 + Max({1, 2 * Len(path)})

\* What reading the object o, found under its name, returns.
ReadsAs(o) ==
    CASE host.type[o] = "link" -> out.st = "type"
      [] host.type[o] = "dir"  -> out.st = "dir"
      [] host.type[o] = "file" ->
             IF host.size[o] <= SFS_L1_NBLKS * SFS_BLKSIZE
             THEN out.st = "ok" /\ out.val = Content(o)
             ELSE out.st = "range"

ChangesTo(o) ==
    CASE host.type[o] = "link" -> out.st = "type"
      [] host.type[o] = "dir"  -> out.st = "ok" /\ hcwd = o
      [] host.type[o] = "file" -> out.st = "E_NOTDIR"

\* Matches(o): the call found the object o.  A directory with more entries than
\* its direct and indirect blocks hold ends the search in a panic.
Finds(n, Matches(_)) ==
    LET same == {m \in Visible(out.dir) : Stored(m) = n}
    IN  IF Len(n) > SFS_MAX_FNAME_LEN THEN out.st = "fname"
        ELSE \/ same = {} /\ out.st = "E_NOENT"
             \/ \E m \in same : Matches(host.tree[out.dir][m])
             \/ same # {} /\ ~img.whole /\ out.st = "nlinks"
             \/ Slots(out.dir) > SFS_L1_NBLKS /\ out.st = "range"

\* The kernel sees the tree of the host in the image.  A name leads to the object
\* the host has under it, hard links to one file included, with all its words; a listing
\* has each visible name once, after "." and ".."; the path of the current directory is
\* the host's.  The exceptions are these and no others: a name longer than an
\* entry holds is known by its beginning only, a symbolic link panics when it is
\* looked up (sfs_get_ops), and so does what lies behind the double indirect block
\* (sfs_bmap_get_nolock), in a file or in a directory, a name longer than
\* SFS_MAX_FNAME_LEN (sfs_dirent_search_nolock; the path, of up to FS_MAX_FPATH_LEN
\* characters, comes there as one name), and, in a partial image, a name whose inode mksfs
\* has not written (sfs_load_inode).
TreeKept ==
    /\ out.op = "read" /\ out.arg \notin {Dot, DotDot} => Finds(out.arg, ReadsAs)
    /\ out.op = "chdir" =>
          IF out.arg \in {Dot, DotDot}
          THEN out.st = "ok" /\ hcwd = IF out.arg = Dot THEN out.dir ELSE Root
          ELSE Finds(out.arg, ChangesTo)
    /\ out.op = "list" =>
          \/ /\ out.st = "E_NOENT"
             /\ Slots(out.dir) <= SFS_L1_NBLKS
             /\ Len(out.val) = Slots(out.dir)
             /\ out.val[1] = Dot /\ out.val[2] = DotDot
             /\ \A n \in {Stored(m) : m \in Visible(out.dir)} :
                   Cardinality({i \in DOMAIN out.val : out.val[i] = n})
                       = Cardinality({m \in Visible(out.dir) : Stored(m) = n})
          \/ out.st = "range" /\ Slots(out.dir) > SFS_L1_NBLKS
    /\ out.op = "getcwd" =>
          \/ /\ out.st = "ok"
             /\ out.val = <<"disk0">> \o PathTo(out.dir)
             /\ out.arg >= Room(PathTo(out.dir))
          \/ out.st = "E_NO_MEM" /\ out.arg < Room(PathTo(out.dir))
          \/ out.st = "range" /\ Slots(Root) > SFS_L1_NBLKS

\* The list of devices and the mounted file system agree, whatever the order of mounts and
\* unmounts: disk0 has a file system in the list exactly when one is in memory, an
\* inode is only held of a mounted one, and the inode held is the one the image has for
\* that directory (vfs_mount, vfs_unmount, vfs_unmount_all, sfs_unmount).
MountExact ==
    kern = "up" =>
        /\ (Mounted(vdev_list) = {"disk0"}) = (fs # NoFs)
        /\ Mounted(vdev_list) \subseteq {"disk0"}
        /\ cwd # 0 => /\ fs # NoFs
                      /\ Fs.inodes[cwd].type = "dir"
                      /\ (cwd = SFS_BLKN_ROOT) = (hcwd = Root)
=============================================================================
