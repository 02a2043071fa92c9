-------------------------------- MODULE Files --------------------------------
(***************************************************************************)
(* The tables of open files and the counts that keep inodes in memory:      *)
(* kern/fs/file.c, fs.c and the calls of them in fork, exec and exit; the   *)
(* virtual file system (kern/fs/vfs) with its lookup and its working        *)
(* directories; the inode cache of sfs_inode.c; the devices of kern/fs/devs. *)
(*                                                                          *)
(* ref_count and open_count of an inode are moved by hand at every place    *)
(* that gets, keeps or gives back an inode.  A call gives up the processor  *)
(* only when it waits for a character of the console (dev_stdin_read), so   *)
(* every other call is one step; in the middle of a read the process holds  *)
(* the file with a second count.  What is in the files is the subject of    *)
(* Sfs.                                                                     *)
(*                                                                          *)
(* A call is a record of ref, open, incore (the inodes of the file system   *)
(* in memory), node (the inode it has found) and st: "ok", an error code,   *)
(* or the assertion that failed: "vop" for a missing operation of the       *)
(* inode, "limit" for a count of MAX_INODE_COUNT, "count" for all others.   *)
(***************************************************************************)
EXTENDS Integers, Sequences, FiniteSets, FiniteSetsExt, SequencesExt

CONSTANTS
    InitProc, Users,        \* initproc and the processes that may be
    NENTRY,                 \* FILES_STRUCT_NENTRY: the files of a process
    MAX_INODE_COUNT,        \* the counts of an inode in use are below it
    Dirs, RegFiles, Devs,   \* the inodes
    Root, Parent,           \* the root directory; where each inode is, ".." of a directory
    OpenFlags,              \* the flags of open that are tried
    Paths,                  \* the paths that are tried: where they start and a name
    None,
    MaxOpen, MaxLeaks       \* bounds on the open descriptors and on the references lost by open

Procs == {InitProc} \cup Users
SfsNodes == Dirs \cup RegFiles
Nodes == SfsNodes \cup Devs
Fds == 0..(NENTRY - 1)
OpenFiles == [node : Nodes, open_count : Nat, readable : BOOLEAN, writable : BOOLEAN]

ASSUME FilesAssumption ==
    /\ IsFiniteSet(Users) /\ InitProc \notin Users
    /\ NENTRY \in Nat /\ NENTRY > 2
    /\ MAX_INODE_COUNT \in Nat \ {0}
    /\ Root \in Dirs /\ Devs \cap SfsNodes = {}
    /\ Parent \in [SfsNodes -> Dirs] /\ Parent[Root] = Root
    /\ \A path \in Paths : path.from \in {"cwd", "boot", "fs"} \cup Devs
    /\ None \notin Nodes \cup Fds \cup OpenFiles

VARIABLES
    ref, open,      \* ref_count and open_count of each inode
    incore,         \* the inodes on sfs->inode_list
    fd_array,       \* filesp->fd_array: the file of each descriptor, or None
    pwd,            \* filesp->pwd
    alive,          \* the processes with a filesp
    reading,        \* the descriptor a process waits on in dev_stdin_read
    leaked,         \* history: references that nobody holds
    panic

nodeVars == <<ref, open, incore>>
vars == <<nodeVars, fd_array, pwd, alive, reading, leaked, panic>>

EmptyTable == [fd \in Fds |-> None]

\* fs_init adds the devices; init_main makes disk0 the boot file system and its
\* root the working directory of initproc.
Init ==
    /\ ref = [n \in Nodes |-> IF n = Root THEN 2 ELSE IF n \in Devs THEN 1 ELSE 0]
    /\ open = [n \in Nodes |-> 0]
    /\ incore = {Root}
    /\ fd_array = [p \in Procs |-> EmptyTable]
    /\ pwd = [p \in Procs |-> IF p = InitProc THEN Root ELSE None]
    /\ alive = {InitProc}
    /\ reading = [p \in Procs |-> None]
    /\ leaked = [n \in Nodes |-> 0]
    /\ panic = "no"

-----------------------------------------------------------------------------
Ok(c) == c.st = "ok"

Fail(c, what) == IF Ok(c) THEN [c EXCEPT !.st = what] ELSE c

Assert_(c, cond, what) == IF cond THEN c ELSE Fail(c, what)

\* The tables sfs_node_dirops, sfs_node_fileops and dev_node_ops.
Vops(n) ==
    CASE n \in Dirs -> {"open", "close", "fstat", "fsync", "namefile", "getdirentry",
                        "reclaim", "gettype", "lookup"}
      [] n \in RegFiles -> {"open", "close", "read", "write", "fstat", "fsync", "reclaim",
                            "gettype", "tryseek", "truncate"}
      [] n \in Devs -> {"open", "close", "read", "write", "fstat", "gettype", "tryseek", "lookup"}

inode_check(c, n) ==
    IF c.ref[n] < c.open[n] \/ c.open[n] < 0 THEN Fail(c, "count")
    ELSE Assert_(c, c.ref[n] < MAX_INODE_COUNT /\ c.open[n] < MAX_INODE_COUNT, "limit")

\* __vop_op.
Vop(c, n, op) == IF op \in Vops(n) THEN inode_check(c, n) ELSE Fail(c, "vop")

inode_ref_inc(c, n) == [c EXCEPT !.ref[n] = @ + 1]

\* The last reference goes: sfs_reclaim takes the inode off its list and
\* inode_kill frees it.
Reclaim(c, n) ==
    IF c.ref[n] > 0 THEN c
    ELSE Assert_([Vop(c, n, "reclaim") EXCEPT !.incore = @ \ {n}], c.open[n] = 0, "count")

inode_ref_dec(c, n) ==
    Reclaim(Assert_([c EXCEPT !.ref[n] = @ - 1], c.ref[n] > 0, "count"), n)

inode_open_inc(c, n) == [c EXCEPT !.open[n] = @ + 1]

LastClose(c, n) == IF c.open[n] = 0 THEN Vop(c, n, "close") ELSE c

inode_open_dec(c, n) ==
    LastClose(Assert_([c EXCEPT !.open[n] = @ - 1], c.open[n] > 0, "count"), n)

\* sfs_load_inode: the inode on the list, or a new one with a count of one.
sfs_load_inode(c, n) ==
    IF n \in c.incore THEN inode_ref_inc(c, n)
    ELSE [c EXCEPT !.incore = @ \cup {n}, !.ref[n] = 1, !.open[n] = 0]

-----------------------------------------------------------------------------
\* get_device: the inode a path starts from, with a reference.  "cwd" is a path
\* without colon or leading slash, "boot" is /path, "fs" is :path, and a device
\* stands for its own name and a colon.
Start(p, from) == CASE from = "cwd" -> pwd[p] [] from \in {"boot", "fs"} -> Root [] OTHER -> from

get_device(c, p, from) ==
    IF from = "fs"
    THEN inode_ref_dec(sfs_load_inode(inode_ref_inc(c, pwd[p]), Root), pwd[p])
    ELSE inode_ref_inc(c, Start(p, from))

\* The names of a directory: its entries and "..".
Entry(dir, name) ==
    IF name = ".." THEN Parent[dir]
    ELSE IF name \in SfsNodes \ {Root} /\ Parent[name] = dir THEN name
    ELSE None

\* sfs_lookup, and dev_lookup, which knows no names.
Lookup(c, start, name) ==
    LET n == IF start \in Dirs THEN Entry(start, name) ELSE None
    IN  IF ~Ok(c) THEN c
        ELSE IF n = None THEN [c EXCEPT !.st = "E_NOENT"]
        ELSE [sfs_load_inode(c, n) EXCEPT !.node = n]

\* Fault: the inode the path starts from is not given back.
LookupKeepsStart(c, p, path) ==
    LET start == Start(p, path.from)
    IN  IF path.name = "" THEN [get_device(c, p, path.from) EXCEPT !.node = start]
        ELSE Lookup(Vop(get_device(c, p, path.from), start, "lookup"), start, path.name)

\* The whole path after the device is one name.
vfs_lookup(c, p, path) ==
    LET start == Start(p, path.from)
    IN  IF path.name = "" THEN [get_device(c, p, path.from) EXCEPT !.node = start]
        ELSE inode_ref_dec(
                 Lookup(Vop(get_device(c, p, path.from), start, "lookup"), start, path.name), start)

CanWrite(flags) == flags.acc # "O_RDONLY"

\* sfs_opendir, sfs_openfile, dev_open with stdin_open: may it be opened so?  The
\* devices are opened like stdin; stdout takes O_WRONLY and the disk any flags.
MayOpen(n, flags) ==
    CASE n \in Dirs -> flags.acc = "O_RDONLY" /\ ~flags.append
      [] n \in RegFiles -> TRUE
      [] n \in Devs -> flags = [acc |-> "O_RDONLY", creat |-> FALSE, excl |-> FALSE,
                                trunc |-> FALSE, append |-> FALSE]

\* vfs_open after the lookup.  O_CREAT truncates also a file that exists; with
\* O_EXCL the reference of the lookup is not given back.  No inode has vop_create.
OpenNode(c, flags) ==
    IF c.st = "E_NOENT" /\ flags.creat THEN [c EXCEPT !.st = "vop"]
    ELSE IF ~Ok(c) THEN c
    ELSE IF flags.excl /\ flags.creat THEN [c EXCEPT !.st = "E_EXISTS"]
    ELSE IF ~MayOpen(c.node, flags)
         THEN Fail(inode_ref_dec(Vop(c, c.node, "open"), c.node), "E_INVAL")
    ELSE IF flags.trunc \/ flags.creat
         THEN Vop(inode_open_inc(Vop(c, c.node, "open"), c.node), c.node, "truncate")
    ELSE inode_open_inc(Vop(c, c.node, "open"), c.node)

vfs_open(c, p, path, flags) ==
    IF flags.trunc /\ ~CanWrite(flags) THEN [c EXCEPT !.st = "E_INVAL"]
    ELSE OpenNode(vfs_lookup(c, p, path), flags)

vfs_close(c, n) == inode_ref_dec(inode_open_dec(c, n), n)

-----------------------------------------------------------------------------
Call == [ref |-> ref, open |-> open, incore |-> incore, node |-> None, st |-> "ok"]

Failed(c) == c.st \in {"vop", "limit", "count"}

\* The counts after a call; a failed assertion stops the system.
Return(c) ==
    /\ ref' = c.ref
    /\ open' = c.open
    /\ incore' = c.incore
    /\ panic' = IF Failed(c) THEN c.st ELSE "no"

\* A running process enters the kernel.
Enters(p) == panic = "no" /\ p \in alive /\ reading[p] = None

Free(p) == {fd \in Fds : fd_array[p][fd] = None}

NrOpen(ps) == Cardinality({x \in ps \X Fds : fd_array[x[1]][x[2]] # None})

NewFile(n, flags) ==
    [node |-> n, open_count |-> 1, readable |-> flags.acc # "O_WRONLY", writable |-> CanWrite(flags)]

\* file_open: fd_array_alloc takes the first free descriptor.
Open(p, path, flags) ==
    /\ Enters(p)
    /\ Free(p) # {}
    /\ NrOpen(Procs) < MaxOpen
    /\ \E c \in {vfs_open(Call, p, path, flags)} :
           /\ c.st = "E_EXISTS" => FoldFunction(+, 0, leaked) < MaxLeaks
           /\ Return(c)
           /\ leaked' = IF c.st = "E_EXISTS" THEN [leaked EXCEPT ![c.node] = @ + 1] ELSE leaked
           /\ fd_array' = IF Ok(c)
                          THEN [fd_array EXCEPT ![p][Min(Free(p))] = NewFile(c.node, flags)]
                          ELSE fd_array
    /\ UNCHANGED <<pwd, alive, reading>>

\* fd_array_close and fd_array_free of a file that nobody is using.
fd_array_close(c, file) ==
    IF file = None THEN c
    ELSE vfs_close(Assert_(c, file.open_count = 1, "count"), file.node)

Close(p, fd) ==
    /\ Enters(p)
    /\ fd_array[p][fd] # None
    /\ Return(fd_array_close(Call, fd_array[p][fd]))
    /\ fd_array' = [fd_array EXCEPT ![p][fd] = None]
    /\ UNCHANGED <<pwd, alive, reading, leaked>>

\* fd_array_dup of one file.
DupFile(c, file) ==
    IF file = None THEN c ELSE inode_open_inc(inode_ref_inc(c, file.node), file.node)

Dup(p, from, to) ==
    /\ Enters(p)
    /\ fd_array[p][from] # None
    /\ to \in Free(p)
    /\ NrOpen(Procs) < MaxOpen
    /\ Return(DupFile(Call, fd_array[p][from]))
    /\ fd_array' = [fd_array EXCEPT ![p][to] = fd_array[p][from]]
    /\ UNCHANGED <<pwd, alive, reading, leaked>>

\* file_read of the console waits: fd_array_acquire holds the file meanwhile.
ReadBegin(p, fd) ==
    /\ Enters(p)
    /\ fd_array[p][fd] # None
    /\ fd_array[p][fd].readable
    /\ fd_array[p][fd].node \in Devs
    /\ fd_array' = [fd_array EXCEPT ![p][fd].open_count = @ + 1]
    /\ reading' = [reading EXCEPT ![p] = fd]
    /\ UNCHANGED <<nodeVars, pwd, alive, leaked, panic>>

ReadEnd(p) ==
    /\ panic = "no"
    /\ reading[p] # None
    /\ fd_array' = [fd_array EXCEPT ![p][reading[p]].open_count = @ - 1]
    /\ reading' = [reading EXCEPT ![p] = None]
    /\ UNCHANGED <<nodeVars, pwd, alive, leaked, panic>>

\* file_read, file_write, file_seek, file_fstat, file_fsync and file_getdirentry
\* acquire the file, call the inode's operation and release the file.
FileOp(p, fd, op) ==
    /\ Enters(p)
    /\ fd_array[p][fd] # None
    /\ op = "read" => fd_array[p][fd].readable /\ fd_array[p][fd].node \notin Devs
    /\ op = "write" => fd_array[p][fd].writable
    /\ Return(Vop(Call, fd_array[p][fd].node, op))
    /\ UNCHANGED <<fd_array, pwd, alive, reading, leaked>>

-----------------------------------------------------------------------------
\* vfs_set_curdir of the directory that was found, or of something else: its
\* type is asked for unless it is the working directory.
SetDir(c, p) ==
    IF Ok(c) /\ c.node \in Dirs THEN inode_ref_dec(inode_ref_inc(c, c.node), pwd[p]) ELSE c

vfs_set_curdir(c, p) == IF c.node = pwd[p] THEN c ELSE SetDir(Vop(c, c.node, "gettype"), p)

\* vfs_chdir.
Chdir(p, path) ==
    /\ Enters(p)
    /\ \E c \in {vfs_lookup(Call, p, path)} :
           /\ Return(IF Ok(c) THEN inode_ref_dec(vfs_set_curdir(c, p), c.node) ELSE c)
           /\ pwd' = IF Ok(c) /\ c.node \in Dirs THEN [pwd EXCEPT ![p] = c.node] ELSE pwd
    /\ UNCHANGED <<fd_array, alive, reading, leaked>>

\* One turn of sfs_namefile: ".." is loaded and the directory given back.
Climb(c) ==
    IF c.node = Root THEN c
    ELSE [inode_ref_dec(sfs_load_inode(c, Parent[c.node]), c.node) EXCEPT !.node = Parent[c.node]]

\* The last turn: at the root, or the name does not fit.
LastTurn(c) ==
    IF c.node = Root
    THEN inode_ref_dec(inode_ref_dec(sfs_load_inode(c, Root), Root), Root)
    ELSE inode_ref_dec(Climb(c), Parent[c.node])

\* sfs_namefile, in a buffer with room for so many names.
sfs_namefile(c, n, room) ==
    LET at[i \in 0..room] == IF i = 0 THEN [inode_ref_inc(c, n) EXCEPT !.node = n]
                             ELSE Climb(at[i - 1])
    IN  LastTurn(at[room])

\* vfs_getcwd.
Getcwd(p, room) ==
    /\ Enters(p)
    /\ Return(inode_ref_dec(sfs_namefile(Vop(inode_ref_inc(Call, pwd[p]), pwd[p], "namefile"),
                                         pwd[p], room),
                            pwd[p]))
    /\ UNCHANGED <<fd_array, pwd, alive, reading, leaked>>

-----------------------------------------------------------------------------
\* dup_files.
DupFiles(c, p) ==
    LET at[fd \in 0..NENTRY] == IF fd = 0 THEN c ELSE DupFile(at[fd - 1], fd_array[p][fd - 1])
    IN  at[NENTRY]

\* do_fork: copy_files with dup_files; the child has no table yet.
Fork(p, q) ==
    /\ Enters(p)
    /\ q \in Users \ alive
    /\ NrOpen(Procs) + NrOpen({p}) <= MaxOpen
    /\ Return(DupFiles(inode_ref_inc(Call, pwd[p]), p))
    /\ fd_array' = [fd_array EXCEPT ![q] = fd_array[p]]
    /\ pwd' = [pwd EXCEPT ![q] = pwd[p]]
    /\ alive' = alive \cup {q}
    /\ UNCHANGED <<reading, leaked>>

\* The files of the descriptors from first up to end are closed.
CloseFiles(c, p, first, end) ==
    LET at[fd \in first..end] ==
          IF fd = first THEN c ELSE fd_array_close(at[fd - 1], fd_array[p][fd - 1])
    IN  at[end]

files_destroy(c, p) == CloseFiles(inode_ref_dec(c, pwd[p]), p, 0, NENTRY)

Gone(p) ==
    /\ fd_array' = [fd_array EXCEPT ![p] = EmptyTable]
    /\ pwd' = [pwd EXCEPT ![p] = None]
    /\ alive' = alive \ {p}
    /\ UNCHANGED <<reading, leaked>>

\* do_exit: put_files.
Exit(p) ==
    /\ Enters(p)
    /\ Return(files_destroy(Call, p))
    /\ Gone(p)

\* files_closeall keeps the descriptors 0 and 1.
Kept(p) == [fd \in Fds |-> IF fd < 2 THEN fd_array[p][fd] ELSE None]

files_closeall(c, p) == CloseFiles(c, p, 2, NENTRY)

RDONLY == [acc |-> "O_RDONLY", creat |-> FALSE, excl |-> FALSE, trunc |-> FALSE, append |-> FALSE]

\* do_execve has closed the files, opened the program, and reads it: load_icode
\* seeks in it.
Seeked(c) == IF Ok(c) THEN Vop(c, c.node, "tryseek") ELSE c

Opened(p, path) == Seeked(vfs_open(files_closeall(Call, p), p, path, RDONLY))

\* load_icode succeeds and closes the program.
Exec(p, path) ==
    /\ Enters(p)
    /\ \E c \in {Opened(p, path)} :
           \/ Failed(c) /\ Return(c)
           \/ Ok(c) /\ c.node \in RegFiles /\ Return(vfs_close(c, c.node))
    /\ fd_array' = [fd_array EXCEPT ![p] = Kept(p)]
    /\ UNCHANGED <<pwd, alive, reading, leaked>>

\* The descriptors left and the working directory, when do_execve gives up.
Destroyed(c, p) == CloseFiles(inode_ref_dec([c EXCEPT !.st = "ok"], pwd[p]), p, 0, 2)

\* The program is not found or not loaded: do_execve exits, with the program
\* still open in the second case.
ExecFails(p, path) ==
    /\ Enters(p)
    /\ \E c \in {Opened(p, path)} :
           \/ Ok(c) /\ Return(vfs_close(Destroyed(c, p), c.node))
           \/ ~Ok(c) /\ ~Failed(c) /\ Return(Destroyed(c, p))
    /\ Gone(p)

\* After a panic the kernel runs its monitor for ever.
Halted == panic # "no" /\ UNCHANGED vars

\* initproc only forks; the other processes make any system calls.
Next ==
    \/ \E p \in Procs, q \in Users : Fork(p, q)
    \/ \E p \in Users :
           \/ \E path \in Paths :
                  \/ \E flags \in OpenFlags : Open(p, path, flags)
                  \/ Chdir(p, path)
                  \/ Exec(p, path)
                  \/ ExecFails(p, path)
           \/ \E fd \in Fds :
                  \/ Close(p, fd)
                  \/ \E to \in Fds : Dup(p, fd, to)
                  \/ ReadBegin(p, fd)
                  \/ \E op \in {"read", "write", "tryseek", "fstat", "fsync", "getdirentry"} :
                         FileOp(p, fd, op)
           \/ ReadEnd(p)
           \/ \E room \in 0..1 : Getcwd(p, room)
           \/ Exit(p)
    \/ Halted

Spec == Init /\ [][Next]_vars

-----------------------------------------------------------------------------
Descriptors(n) == {x \in Procs \X Fds : fd_array[x[1]][x[2]] # None /\ fd_array[x[1]][x[2]].node = n}

\* The references that something holds: descriptors, working directories, the
\* boot file system, the list of devices.
Holders(n) ==
    Cardinality(Descriptors(n)) + Cardinality({p \in Procs : pwd[p] = n})
        + (IF n = Root \/ n \in Devs THEN 1 ELSE 0)

CountsExact ==
    /\ panic # "count"
    /\ \A n \in Devs : ref[n] > 0
    /\ panic = "no" =>
          /\ \A n \in Nodes :
                 /\ ref[n] = Holders(n) + leaked[n]
                 /\ open[n] = Cardinality(Descriptors(n))
          /\ incore = {n \in SfsNodes : ref[n] > 0}

\* One reference more, and some inode has too many.
AtLimit == \E n \in Nodes : ref[n] + 1 >= MAX_INODE_COUNT

\* The counts of every inode are those of its holders, whatever forks, dups,
\* execs, exits, failed opens and look-ups came before: no inode is freed while it
\* is used, and one without holders is given up, but for the references that
\* vfs_open loses with O_CREAT|O_EXCL.  No assertion on the balance of the counts
\* of inodes and files fails (inode_check, inode_ref_dec, inode_open_dec,
\* inode_kill, fd_array_close, files_destroy), and a device inode, which has no
\* vop_reclaim, is never reclaimed.  The assertion of inode_check that the counts
\* stay below MAX_INODE_COUNT can fail, but only in a call made when an inode has
\* all but one of that many references: so many holders and lost references.
RefsExact ==
    [][/\ CountsExact /\ CountsExact'
       /\ panic = "no" /\ panic' = "limit" => AtLimit]_vars

=============================================================================
