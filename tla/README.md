# Verification of uCore

This directory is a TLA+ development for the operating system kernel in
`src/ucore_os`: TLA+ modules translated from the C sources, TLC
configurations that check them on small instances, and TLAPS proofs that hold
for every instance. `PROJECT.json` is its index: which definition models
which lines (`map`), what each run checks (`runs`), which slip in the code each
property would notice (`mutants`), what is proved (`theorems`), where the code is
hard to test (`hazards`) and where code and comments disagree (`findings`).
Paths below are relative to `src/ucore_os`.

## 1. The system

uCore is a teaching kernel for one 32-bit x86 processor: protected processes,
preemptive round robin of user code, a non-preemptive kernel, semaphores and
monitors, demand-paged memory, and a small inode file system.

| Component | State it keeps | Operations |
|---|---|---|
| process management, `kern/process/proc.c` | `proc_struct`: state, `wait_state`, `flags`, family links `parent`/`cptr`/`yptr`/`optr`, `nr_process`, pid hash | `do_fork`, `do_exit`, `do_wait`, `do_kill`, `do_yield`, `do_sleep`, `do_execve`, `do_brk`, `init_main`, `cpu_idle` |
| pid allocation, `get_pid` | static `last_pid`, `next_safe` | one call per fork |
| scheduler, `kern/schedule/` | run queue, time slices, `current`, `need_resched` | `wakeup_proc`, `schedule`, `RR_*`, `sched_class_proc_tick` |
| timers, `kern/schedule/sched.c` | delta list of timers | `add_timer`, `del_timer`, `run_timer_list` |
| semaphores, wait queues, `kern/sync/sem.c`, `wait.c` | value and queue of each semaphore, `wait_t` on each waiter's stack | `up`, `down`, `try_down`, `wakeup_queue` |
| monitors, `kern/sync/monitor.c` | mutex, next, `next_count`, `count` of each condition variable | `cond_wait`, `cond_signal` |
| dining philosophers, `kern/sync/check_sync.c` | table of states | the two solutions, as kernel threads |
| console driver, `kern/driver/console.c` | ring `cons`, modifier keys `shift` | `kbd_proc_data`, `serial_proc_data`, `cons_intr`, `cons_getc` |
| console input, `kern/fs/devs/dev_stdin.c` | buffer and its wait queue | `dev_stdin_write` (interrupt), `dev_stdin_read` |
| page allocator, `kern/mm/default_pmm.c`, `pmm.c` | free list, `property`, `nr_free` | `page_init`, `alloc_pages`, `free_pages` |
| virtual memory, `kern/mm/vmm.c`, page tables in `pmm.c` | areas of each `mm_struct`, `mmap_cache`, break, page table entries, page reference counts | `mm_map`, `mm_unmap`, `mm_brk`, `dup_mmap`, `exit_mmap`, `do_pgfault`, `page_insert`, `unmap_range`, `copy_range`, `load_icode` |
| kernel heap, `kern/mm/kmalloc.c` | circular list of free units, list of big blocks | `kmalloc`, `kfree`, `slob_alloc`, `slob_free` |
| swap, `kern/mm/swap*.c`, `kern/fs/swap` | FIFO of pages, swap entries, the device | `swap_in`, `swap_out`, `check_swap` |
| file table, `kern/fs/file.c`, `fs.c`, `sysfile.c` | descriptors of each process, position and `open_count` of a file, working directory | open, close, read, write, seek, dup, fsync, chdir, getcwd; fork, exec and exit of a process |
| VFS, `kern/fs/vfs` | `ref_count` and `open_count` of each inode, boot file system, device list | `vfs_lookup`, `vfs_open`, `vfs_close`, `inode_ref_dec`, `inode_open_dec`, `vfs_add_dev`, `vfs_mount`, `vfs_unmount` |
| SFS, `kern/fs/sfs` | free map, superblock, inodes in memory with `dirty`, direct and indirect blocks | `sfs_load_inode`, `sfs_reclaim`, `sfs_io_nolock`, `sfs_truncfile`, `sfs_fsync`, `sfs_sync`, `sfs_lookup`, `sfs_getdirentry`, `sfs_namefile`, mount, unmount |
| image builder, `tools/mksfs.c` | block cache, inodes, free map of the image | `open_dir`, `open_file`, `open_link`, `append_block`, `close_sfs` |
| traps, `kern/trap/trap.c` | trap frames | dispatch, the path back to user mode |

How they interact. Every blocking operation sets its own process SLEEPING with
a reason (`wait_state`), puts itself where its waker will look (a wait queue, the
timer list, or just the family links), and calls `schedule()`. Every waker calls
`wakeup_proc`. Interrupts share this state with system calls: the clock runs the
timer list and the scheduler's tick, the keyboard and the serial port fill the buffers of
the console and wake readers. Short regions disable interrupts; between them a tick may come, also
inside a system call, because the system call gate is a trap gate. Kernel code is
not preempted: it gives up the processor only in `schedule()`.

What is hard about it, and what correctness means for each part:

- *Scheduler*: the run queue must hold exactly the processes that can run and do
  not, though forks, exits, kills, timers and semaphores all change it, and a process
  may be woken between marking itself SLEEPING and calling `schedule()`.
- *Timers*: a delta list under insertion, expiry of several at once and removal from
  the middle must wake everybody, nobody early.
- *Processes*: exits, orphans and waits race through the family links without a
  lock; a zombie runs on a stack its parent will free; kill meets its victim anywhere.
- *Semaphores and monitors*: hand-over instead of a re-check after waking: correct only
  if nothing else can wake a waiter and no signal is ever left over.
- *Console*: an interrupt reads bytes of two devices and passes on one character; two kinds
  of wakeup (character, kill) may reach one reader before it runs.
- *Page allocator, heap and memory*: any sequence of allocations, splits, merges, forks,
  faults and moves of the break must keep lists sorted, disjoint and complete.
- *Page replacement*: table, FIFO list and device must agree, over disk errors too.
- *Image*: two programs with their own copies of the structures of the disk have to mean
  the same by them.
- *Files*: counts of references moved by hand on every path, failing ones too; an inode
  that is only written when it is dirty; a disk that is full in the middle of a call.

The `hazards` of `PROJECT.json` list these at the line where they bite.

## 2. Modules

```
                Sched ----------------------------------.   Console
               /  |  \                                   \   /
              /  Timers  Semaphore                       Stdin
             |     |      |     \      \
              \    |      |  Philosopher Monitor     WeakSemaphore
             ProcLife  SemClients  |   \   /  \
                                PhilSema  PhilCondvar
PidAlloc  GetPid                      \   /
                                   CheckSync

PageAlloc    Pmm            VmArea           SfsBlocks           VfsDev
            /   \             |             /    |     \           /
         Swap   Kmalloc      Vmm   Files  Sfs  MkSfs  SfsDir      /
            \   /                          |       \    |        /
         KernelMemory                  ByteFiles     Image -----'
```

A module of proofs extends the module it is about:

```
             SchedProofs               ResourceProofs   KernelMemoryProofs   VmmProofs   SfsProofs
            /     |     \              (GetPid, Files)
ProcLifeProofs    |    StdinProofs
              SyncProofs
        (SemClients, CheckSync)
```

| Module | Models | State and steps |
|---|---|---|
| `Sched` | `sched.c`, `default_sched.c` | `WakeupProc`, `Schedule`, `RR_enqueue`, `ProcTick`; the other modules use these wherever the code calls the functions |
| `Timers` | the timer list | `AddTimerBegin/Pass/Link`, `DelTimer`, `RunTimerBegin/Step`: one step per loop iteration; history `left` counts the ticks each sleeper owes |
| `ProcLife` | `proc.c`, end of `trap()`, clock interrupt, `init_main`, `cpu_idle` | `pc[p]` is the point where p's kernel stack stands; a step goes from one point where an interrupt can come, or where the processor is given up, to the next; `Tick` and `Input` are the interrupts |
| `GetPid`, `PidAlloc` | `get_pid` | one step per loop iteration; `PidAlloc` is the promise |
| `Semaphore`, `SemClients`, `WeakSemaphore` | `sem.c`, `wait.c` | `Up`, `Down`, `DownSched`, `DownWake`, `TryDown`; arbitrary clients with kills and ticks; `WeakSemaphore` is the counting semaphore of the textbooks |
| `Monitor` | `monitor.c` | `cond_wait`, `cond_signal` cut at each `up` and `down` |
| `Philosopher`, `PhilSema`, `PhilCondvar`, `CheckSync` | `check_sync.c` | the philosopher loop, the two ways of taking forks, and the composition |
| `Console` | `console.c`, input side | `Present` (a device has a byte), `kbd_proc_data`, `cons_getc`, `Acknowledge`; histories of what was accepted |
| `Stdin` | `dev_stdin.c`, the interrupt in `trap.c` | `Input` (an interrupt from its acknowledgement to `dev_stdin_write`), readers, kills |
| `Pmm`, `PageAlloc` | `default_pmm.c`, `page_init` | `page_init` one step per entry of the memory map, loops of `default_free_pages` one step per iteration; `PageAlloc` is first fit over the set of free pages |
| `Swap` | `swap.c`, `swap_fifo.c`, `swapfs.c`, faults on swapped pages | `check_swap` from hiding the free list to restoring it; accesses, faults, victims, disk errors |
| `Kmalloc` | `kmalloc.c` | free list from `slobfree` on; `kmalloc` and `kfree` with the pages they take and return as steps |
| `KernelMemory` | their composition | boot, `check_swap`, then the heap and the other users of pages until memory runs out |
| `VmArea`, `Vmm` | `vmm.c`, parts of `pmm.c` and `proc.c` | areas as records; exec, load, fork, exit, page fault, break |
| `SfsBlocks` | block map, free map and transfers of `sfs_inode.c`, `bitmap.c`, `sfs_io.c` | operators from the state of a call (a record) to the next; a failed assertion or an error is its field `st` |
| `Sfs`, `ByteFiles` | `file.c` and `sysfile.c` on files of SFS, shutdown and mount | `Open`, `Dup`, `Write`, `Read`, `Seek`, `Fsync`, `Close`, `Reboot`; `ByteFiles` is the promise: a file is a sequence of words |
| `MkSfs` | `tools/mksfs.c` | one step per directory entry, `close_sfs` at the end, any write of a step may fail and end the program; blocks down to words |
| `SfsDir` | directories, mount, inode loading of `kern/fs/sfs` | operators like those of `SfsBlocks` |
| `VfsDev` | `vfsdev.c` | the list of devices |
| `Image` | host, `mksfs`, boot and reading | `Build`, `Boot`, mounts and unmounts, `chdir`, look-up, read, listing, `getcwd` |
| `Files` | `file.c`, `fs.c`, `kern/fs/vfs`, inode cache of `sfs_inode.c`, `dev.c` | the counts of every inode over `Open`, `Close`, `Dup`, `ReadBegin/End`, `FileOp`, `Chdir`, `Getcwd`, `Fork`, `Exec`, `ExecFails`, `Exit` |
| `MC*` | | the instances TLC runs |
| `*Proofs` | | lemmas and theorems |

Conventions. A failing `assert` does not disable an action: it sets `panic`, so that
"no assertion fails" is a property. Definitions keep the names of the code where
they can. A definition whose comment begins with *Fault:* is a plausible slip in the
definition that follows it. No specification uses one; `mutants` pairs each with a
property, and TLC finds the property violated when the slip replaces the
definition.

Abstractions, by module:

- `Sched`: one run queue, as in the code. The stride scheduler in the tree is not compiled.
- `ProcLife`: a pid is the process itself. Memory and files of a process are left out
  (`Vmm` has the memory). The kernel threads of `check_sync` make any of the calls
  kernel code makes, sleep among them; their semaphore waits are `SemClients`' and
  `CheckSync`'s subject. `user_main` becomes a user process at once. The calls of a user
  process that sleep are `do_wait`, `do_sleep` and the read of the console: the semaphores of
  `mm_struct`, of the file systems and of the device list are free whenever they are taken.
  Of the console only the sleep and the interrupt are here, the buffer is `Stdin`'s: a read
  may find what it wants or sleep, and after a character return or sleep again.
- `Timers`: a timer is named by its process, since it lives on that process's stack.
- `Philosopher`: a sleep ends at any time, which covers every choice of times.
- `CheckSync`: one group of philosophers at a time; the two share only the processor.
- `Console`: a key stands for the scan codes with the same entries in the tables; what is
  typed comes from a set of scripts, of the keys as a person presses them, from which
  `ScanCodes` makes the bytes. The keyboard controller, the serial port (its FIFO is off)
  and the interrupt controller are external: one byte per device, one latched request per
  device. The output side is left out.
- `Stdin`: `wakeup_queue` is one process per step.
- `Pmm`, `Swap`, `Kmalloc`: addresses count in the units of the allocator. Kernel code is not
  preempted and no interrupt handler allocates, so a call is a step but for the loops of
  `page_init` and `default_free_pages`. `check_swap` allocates its `mm_struct` and area from the heap;
  they are freed again and are left out. A page holds one word, which a write changes.
  Pages are replaced only in `check_swap`: at any other time `check_mm_struct` is null.
- `MkSfs`, `SfsDir`, `Image`: a name is two words, the second of which an entry does not
  hold, like the last characters of names of 253 to 255. The host's names have at most
  255 characters (NAME_MAX), so that the test of `mksfs` for longer ones never fires; the names
  a process of the kernel uses may be longer. A write of `mksfs` that fails leaves its block as
  it was; a block of which a part was written is left out. The inodes are written in the order of
  the hash of their `st_ino`, so any set of them may be there when a write fails. The
  image was zeros before (`dd` in the Makefile). The kernel only reads; it
  boots with a whole image and with any that `mksfs` left unfinished. (`make` removes such an image;
  after `mksfs` by hand, or a crash of the host, it stays.) The kernel calls
  `vfs_mount` once; `vfs_unmount`, `vfs_unmount_all` and further mounts are the
  interface, called in any order.
- `VmArea`, `Vmm`: addresses are page numbers, as the code rounds them. A physical page
  is named after the mapping it is allocated for, which is a renaming as long as no
  page is lost, and losing one is what `FramesExact` forbids. Pages for page tables and
  `kmalloc` are left out (`KernelMemory` has them as callers). When memory is used up, `alloc_page` enters
  `swap_out` with a null `mm_struct` (`pmm.c:177`); the model halts there. The self-tests
  that run before `init_main` are not modelled.
- `SfsBlocks`, `Sfs`: a file consists of words, so that an indirect block has as many
  entries as a block has words, as in the code (`SFS_BLK_NENTRY`). A call is one step: no
  function of SFS gives up the processor, since the disk is polled, and so the semaphores
  of `sfs_lock.c` are always free when they are taken. The kernel's buffer in
  `sysfile_read` has the size of a block, as in the code. The inode on the disk is
  `OutOfDate` while the one in memory is dirty, and the same holds of the free map: nothing
  reads either in that time. Directories do not change, as nothing creates or removes
  files. An error of the disk is a panic in `dev_disk0.c`, so no call of SFS fails for it.
- `Files`: content, positions and names are left out; the tree of directories is a constant.
  The console is the only device whose read sleeps; it stands for the devices, so every
  device has the `open` of `stdin`, which refuses writers. Names fit an entry (what a longer one
  does is in `Image`). A fork
  that fails does so before `copy_files`: `copy_mm` needs single pages only, and when there
  is none `alloc_pages` does not return (see `Vmm`). `reclaim_count` is 1 for every inode in
  memory, as reclaiming is never interrupted. After a failed assertion the system halts.

## 3. Runs

| Run | Module | Instance | Checks |
|---|---|---|---|
| `proc_safety` | `ProcLife` | 3 processes besides idle and init, one of them a kernel thread, sleeps of 1 and 2 ticks, slice 1, one killed and not yet dead at a time; 2.1 million states | `TypeOK`, `RunQueueExact`, `NoAssertFails`, `TimerListExact`, `FamilyExact`, `NoLostChildExit`, `ReapSafe`, `SleepNotEarly` |
| `proc_liveness` | `ProcLife` | 2 processes, slice 2, one of them killable; 116 thousand states | `RunnableRuns`, `SleeperWakes`, `InitReaps`, `KilledExitsOrWaits` |
| `semaphores` | `SemClients` | 4 clients, 2 semaphores, values up to 2 | `WaitQueueExact`, `Implements` |
| `check_sync` | `CheckSync` | 4 philosophers, one meal each, both solutions; 182 thousand states | `NeighboursNeverEat`, `ForksExact`, `MonitorExact`, `AllQuit` |
| `console` | `Stdin` | 2 readers, buffer of 2, ring of 3, 14 scripts of up to 5 key events and 3 serial bytes; 579 thousand states | `RingExact`, `ConsoleExact`, `KeysExact`, `WaitersExact` |
| `get_pid` | `GetPid` | 6 processes, pids below 8 | `PidsUnique`, `GetPidReturns`, `Implements` |
| `kernel_memory` | `KernelMemory` | 4 entries of a memory map with 11 usable pages, `check_swap` with 4 pages and 1 disk error, heap requests of 1 to 17 units with pages of 8; 742 thousand states | `AssertsHold`, `PagesExact`, `HeapExact`, `ContentKept`, `FifoExact`, `Implements` |
| `vmm` | `Vmm` | 2 processes, 6 pages of user space, 6 physical pages, three programs, breaks up to the stack; 32 thousand states | `AreasExact`, `FramesExact` |
| `vmm_overlap` | `Vmm` | a break beyond the bottom of the stack | `NoAssertFails`: violated |
| `sfs` | `Sfs` | 2 files, 2 descriptors, 4 blocks of 2 words, 1 direct block, transfers of 3 words, size limit 9; 52 thousand states | `BlocksExact`, `StableStorage`, `Implements` |
| `files` | `Files` | initproc and 2 processes, tables of 3 of which 3 descriptors may be open, 2 directories, a file, the console, MAX_INODE_COUNT 9; 150 thousand states | `RefsExact` |
| `image` | `Image` | 210 host directories, image of 28 blocks of 3 words with a free map of two blocks, each write failing; 90 thousand states | `ImageExact`, `TreeKept`, `MountExact` |

Why these bounds are enough for the interesting cases:

- Three processes give a parent, a child and a grandchild: orphans with a dead, a
  dying and a live child, kills of any of them, and initproc both asleep and awake while
  it inherits. Two lengths of sleep give equal and different expiry times, and with three
  sleepers a removal from the middle of the timer list. `MaxKilled` 1 lets the next process be
  killed when the one before is a zombie; the proofs have no such bound. `MAX_PROCESS` equals the number
  of proc_structs, so that fork fails as well.
- Four clients on two semaphores: two woken and not yet run, one queued, one that calls
  `up` or `try_down` in between.
- Four philosophers: two may eat at once, and each has two different neighbours. With
  one meal each, every order of taking and putting forks still occurs.
- A buffer of 2 and a ring of 3 wrap, fill and overrun within four characters. The scripts
  release modifiers before and after the keys they are meant for, hold both keys of a
  modifier, put prefixed codes next to plain ones and Caps Lock next to Shift; a burst of two
  bytes in a loop of `cons_intr` coalesces requests.
- With 6 processes and pids below 8, the numbers run out and wrap, and the scan restarts.
- A hole between two regions of memory keeps blocks from merging across it; what `check_swap`
  leaves allows merges with neither, either and both neighbours. A reserved entry, an entry
  beyond KMEMSIZE and ends that are no page boundaries exercise `page_init`. The heap's sizes
  are one unit, half a page, the size whose assertion fails, the smallest big block and one
  that `find_order` rounds down. 8 faults with 4 pages replace each page twice.
- Two processes of up to four areas: a heap that extends the data and a heap of its own,
  grown and given back in parts and in whole, copied by fork, and loads that fail after
  their first segment. 6 physical pages let a process with a heap fork, and still run out.
- Transfers of 3 words over blocks of 2 begin and end inside blocks and cross from the
  direct to the indirect ones; 4 blocks are too few for two files with an indirect block, so
  that every allocation fails in some behaviour. The limit of 9 words lies above the
  reach of direct and indirect blocks (6 words), as SFS_MAX_FILE_SIZE does. Two
  descriptors are two positions in one file, or two files that compete for blocks.
- Two processes with tables of 3 reach the descriptors that exec keeps (0 and 1) and the
  one it closes; with `MaxOpen` 3 a file can be open in both after a fork and once more by
  dup. `MaxLeaks` 1 bounds the references lost by O_CREAT|O_EXCL, each like the first.
  `MAX_INODE_COUNT` 9 is low enough for the references of the root to reach it and high enough
  for everything else to happen below it.
- Blocks of 3 words give a file all of direct, indirect and double indirect blocks. The host
  directories have hard links, a symbolic link, a special file, a subdirectory with a hidden
  file, names that are too long for an entry, and files too large for `mksfs`. No step of
  `mksfs` writes a block twice, so `Writes`, the numbers of writes that succeed in a step, has
  every place at which one can fail.

Deadlock is checked in every run but `vmm`, `vmm_overlap`, `image` and `console`: there a
panic stops the kernel, the last exit leaves nobody to act, and Ctrl-Alt-Del resets the
machine. In `ProcLife`, `Sfs` and `Files` a panic
stutters (`Halted`).

Symmetry is used in safety runs only, among processes that run the same code.

### Fairness

`ProcLife!FairSpec` assumes that kernel code and interrupt handlers run in finite time and
that the clock keeps ticking. Fairness is strong for the kernel's own steps and for the
tick, since the two alternate: a tick is held back while interrupts are off, kernel code is
held back while the handler runs. Nothing is assumed of user code, which may loop for ever;
that its slice ends is the clock's doing. `CheckSync!FairSpec` adds that every sleep ends,
which `SleeperWakes` shows of the timer list. That anybody types is not assumed: `Input` is not
fair, only its handler is. `GetPid!FairSpec` lets the loop, which runs
with interrupts off, go on.

### What the violated property says

- `vmm_overlap`: `find_vma` returns an area only if it contains the address, so the test
  before `mm_brk` (`proc.c:1324`) sees no area that begins above the old break. A
  break beyond the bottom of the stack reaches `check_vma_overlap`, whose assertion
  (`vmm.c:132`) fails. This is recorded in `findings`.

### What else the runs show about the code

Some properties say exactly how far the code keeps a promise:

- `KilledExitsOrWaits`: `do_kill` wakes its victim, but `trap()` looks at PF_EXITING before it
  calls `schedule()` (`trap.c:347`, `trap.c:353`) and not after. A process killed while it is
  preempted there goes back to user mode and may make one more call. If that is `do_wait` or a
  read of the console, it sleeps with PF_EXITING set, and as a second kill returns at once
  (`proc.c:1102`), only the exit of a child or a character ends its sleep. A reader whom a
  character wakes besides the kill may sleep again in the same call. The property
  shows that these two sleeps are the only ways for a killed user process to stay; neither
  `do_sleep` nor a loop in user mode keeps it.
- `WaitersExact`: a reader of the console that a kill has woken is in the wait queue until it
  runs. A character typed in that moment overwrites its `wakeup_flags`
  (`dev_stdin.c:66`), and if another reader takes the character, the killed one sleeps
  again.
- `ConsoleExact`: `cons_getc` takes one character per interrupt. When a request coalesces with
  one still latched, or a key was pressed before `kbd_init` drains the keyboard into the
  ring, one character too many is in the ring, and from then on each key brings up the
  character before it. The property shows that this is the only way for a character to
  stay behind. The ring has no test for room (`console.c:252`): CONSBUFSIZE
  characters in it are lost together (`wrapped`).
- `KeysExact`: with both Shift keys down, the release of one clears the bit of both
  (`console.c:404`); everything else is decoded as the keys are.
- `AssertsHold` of `KernelMemory`: `kmalloc` of 4080 to 4087 bytes fails the assertion of
  `slob_alloc` (`kmalloc.c:99`), since the test in `__kmalloc` leaves out the header that is
  added; the counts that `check_swap` expects do not survive a disk error. `alloc_pages`
  stops the kernel only when no page is free.
- `HeapExact`: a size above two pages that is no power of two times a page may be rounded down
  by `find_order` (`kmalloc.c:226`): 8193 bytes get two pages.
- `ContentKept`: `swap_in` ignores a failed read (`swap.c:126`): the page then holds what was in
  its frame.
- `PagesExact` of `KernelMemory`: `check_swap` frees its pages into the temporary list and
  restores the old one (`swap.c:256-267`): its four pages and the page table are lost.
- `BlocksExact`: `assert(index <= din->blocks)` (`sfs_inode.c:409`) fails when a process writes
  through a descriptor that stands beyond the end of a file truncated through another
  one, and only then; `assert(tblks == din->blocks)` (`sfs_inode.c:1089`) fails when a file
  of size 0 that kept blocks from a failed extension is truncated, and only after the disk
  was full; the panic at `sfs_inode.c:328` is reached by files longer than the block map.
  `sfs_bmap_load_nolock` counts a new block (`din->blocks++`, `sfs_inode.c:420`) without
  marking the inode dirty. If only an entry of the indirect block was added and the
  extension then fails on a full disk, closing the file forgets the count but not the
  entry; a later truncation to 0 leaves that block with the file (`inode.h:148` says that
  the excess blocks are discarded), and an extension after it shows its old words.
  `ByteFiles` therefore promises zeros in a gap only as long as the disk was never full.
- `TreeKept`: `add_entry` writes as many bytes as a name has from the beginning of an entry,
  252 characters of the name are written and names of 253 to 255 lose one to three
  (`mksfs.c:520`); a symbolic link makes the kernel panic when it is looked up
  (`sfs_inode.c:51`), and what lies behind the double indirect block, which only `mksfs` knows,
  does so when it is read. `sfs_lookup` takes the whole path for one name, and a path may have
  4095 characters: one of more than 255 fails the assertion at `sfs_inode.c:508`, where a
  shorter one is not found. In a partial image a name whose inode was not written ends
  in the assertion of `sfs_load_inode` on `nlinks`.
- `ImageExact`: `alloc_cache_block` files every new block under the hash of 0 (`mksfs.c:233`);
  no search follows that would miss it. This also puts all of them into the first list, so
  `close_sfs` writes every indirect block before any inode, but after the superblock
  (`mksfs.c:405`). If a later write fails, the kernel mounts the partial image like a whole one:
  nothing in the image says that it is not. The property shows that what is in it is consistent
  all the same; with the inodes first (the mutant), one would name blocks that are not there.
- `Implements` of `Sfs`: a failed write beyond the end still extends the file to its position
  (`sfs_inode.c:749`).
- `RefsExact`: open with O_CREAT|O_EXCL of an existing file keeps the reference of the look-up
  (`vfsfile.c:56`), so that the inode is never reclaimed; the history variable `leaked` counts
  these. `inode_check` asserts that counts are below `MAX_INODE_COUNT`, 65,536
  (`inode.c:120`), and no function that takes a reference looks: 65,535 such opens of one file,
  each failing, are enough to stop the kernel at the next operation on it. The property
  therefore has two parts: the counts are those of their holders for as long as no assertion has
  failed, and none on counts fails but this one, in a call made when some inode has
  `MAX_INODE_COUNT - 1` references or more.
- Assertions that are no panic of a model because another property implies them: `swap.c:97`
  (`FifoExact`: a page of the list is mapped), `swap_fifo.c:73` (`FifoExact`: the list has the
  pages of all frames), `swap_fifo.c:119` (`ContentKept`), `sfs_inode.c:342` (`BlocksExact`: an
  indirect block is in use).
- In `Files` the panic "vop" (a missing operation, `inode.h:199`) is reached by a read of a
  directory or a seek in it, hence by exec of a directory, by fsync of the console, and by
  O_CREAT of a name that does not exist or of a directory.

## 4. Proofs

`tlapm` checks every proof; nothing is assumed but the named ASSUMEs of the modules.

**`ProcLifeProofs`**: `TypeCorrect`, `RunQueueIsExact`, `AssertionsHold`,
`TimerListIsExact`, `ReapIsSafe`, `SleepIsNotEarly`, `FamiliesAreExact`, `NoChildExitLost`,
for any number of processes, any slice, any set of sleep times and kernel threads, any number
of kills at a time, and with initproc killable too. Assumptions: `SchedAssumption` and `ProcAssumption` (idle and initproc
are two processes, NULL is none, sleeps are at least one tick long: `do_sleep(0)` returns at
once).

For these the inductive invariant is `IInv == SchedInv /\ LinkInv /\ PcInv /\ TimerInv`.
`RunQueueExact` is not inductive by itself: that `wakeup_proc` never enqueues a process
twice needs that the woken process is neither a zombie nor queued, which follows from where
its stack stands. `PcInv` therefore ties `state` and `wait_state` of each process to its
`pc`: a zombie is between the middle of `do_exit` and its end, a sleeper in `do_wait` or
`do_sleep` or in a read, and only the current process can be at a point that is no resting point.
`TimerInv` says that a linked timer belongs to a process inside `do_sleep`, each to another
one, that only the handler sees an expired head, and what the cursor of `add_timer` has
subtracted so far; without the last part the encoding would not survive the insertion. There
is a lemma per action or group of alike actions (`ForkKeeps`, `WaitFoundKeeps`,
`LinkKeeps`, `TickKeeps`, ...), each with one step per part of the invariant, over
`SchedProofs` (what `WakeupProc` and `Schedule` do to the run queue, and what `Append`, `Tail`,
`InsertAt` and `RemoveAt` do to elements and ranges). `ReapIsSafe` uses
that only `WaitFound` makes a process free; `SleepIsNotEarly` that an expired timer has
`left` zero by the delta encoding.

The families need a second invariant on top of the first, `FamilyInv == TreeInv /\
NoLostChildExit`. `FamilyExact` alone says that `cptr` and `optr` list the children of each
process, and that is no help when a process leaves the middle of its list. `IsFamily` says
what the pointers mean, relative to an order: there is an `age` for each process, the moment
at which `set_links` or the loop of `do_exit` put it at the head of the list it is in, and
`cptr` is the youngest child, `optr` the next older sibling, `yptr` the next younger one. The
last has an exception, `Stale`: the loop of `do_exit` takes the head off the list of the dying
process and leaves the `yptr` of the next one as it was; the next turn of the loop overwrites
it before anybody follows it. `PlaceInv` says that initproc is the child of idle and never
dies, and that nobody's parent is gone, `CountInv` that `nr_process` is the size of the
(finite) set of processes on the lists, and `BirthInv` that a process is younger than its
parent unless that is initproc, which adopts orphans. So the oldest process besides initproc
is a child of initproc, and `LastOne` shows that when `do_wait` of initproc finds no child
there is no other process left, which is what `init_main` asserts (the pointers, and
`nr_process == 2`). The age, the order of creation and the counter are quantified in the
invariant, not variables of the specification. That a list of children, followed by `optr`,
reaches each child is shown by taking the youngest one that it does not reach (`NatLeast`),
and so is what the search of `do_wait` for a zombie finds; no induction over lists is needed.
`NoChildExitLost` is the race of `do_exit` and `do_wait`: a zombie whose parent waits for it
has woken the parent, or will before it gives up the processor.

**`ResourceProofs`** is about what processes share. For `GetPid`: `PidsAreUnique` and
`GetPidImplements`, for every MAX_PROCESS and MAX_PID with MAX_PID > MAX_PROCESS. The
strengthening is `SafeRange`: between calls no live pid is strictly between `last_pid` and
`next_safe`; inside the loop this holds of the part of the list already visited. The
refinement maps `live` to the set of pids on `proc_list`.

For `Files`: `RefsAreExact`, for any finite set of processes, tables of any size above 2 and
any inodes and tree of directories. Assumption: `FilesAssumption` (the parent of the root is
the root; a path starts at the working directory, the boot file system, its own file system or
a device; `MAX_INODE_COUNT` is positive). A call works on a record with the counts of all
inodes, and is `Good(c, R, O)` when it has failed no assertion on the balance of counts, and
the one on their limit only if `AtLimit` held before the call, its counts are R and O, R is at least O and `Base`
together (the boot file system holds the root, the list of devices the devices) and the inodes
in memory are those with a reference. One lemma per function of `kern/fs/vfs` and `file.c`
says how it moves R and O, on its failing paths too: a look-up gives the caller a reference
nobody else has (`Spare`), an open moves it into the descriptor, a climb of `getcwd` exchanges
the one of the directory for the one of its parent. `Below(R, k)` bounds what a call has taken:
`inode_check` looks when the call holds at most one reference more to an inode than there
were before it, which is why the limit is not met earlier. The loops over a table (`dup_files`,
`files_destroy`, `files_closeall`) move the counts by `Row`, the number of descriptors of the
table that are of each inode; that a loop does so is shown by taking the least index at which
it does not, and so is what the climb of `getcwd` keeps. The invariant while nothing has
failed is `NodesInv /\ ProcsInv /\ CountsInv`: the counts are balanced; a file's own
`open_count` is 2 exactly while its process waits in a read of it, and a process that is gone
has an empty table and no working directory; and the references of an inode are its
descriptors, the working directories in it, `Base` and what was `leaked`. The sums range over
the tables of all processes, and `AddUp` reduces a step to what it changes at one of them.

**`SyncProofs`** is about semaphores and what is built on them. For `SemClients`:
`ClientsTypeCorrect`, `WaitQueueIsExact`, `RunQueueStaysExact` and `SemaphoreImplemented`,
for any semaphores, a finite set of clients
that call `up`, `down` and `try_down` in any order, ticks and kills between any two steps, and
any bound `MaxValue` on the values. `SemInv` joins the wait queues to the run queue: `up`
picks the first waiter and makes it runnable in one step with interrupts off, so a waiter is
in a queue exactly until it is picked, and between the `schedule()` of `down` and the look at
`wakeup_flags` a process either sleeps unpicked or is runnable and picked. `down` asserts that
it was woken by `up`, so the proof has to show that nobody else wakes it; that `do_kill` does
not is `wait_state` being without WT_INTERRUPTED. The refinement to `WeakSemaphore` has one
lemma per action, which names the abstract step it is. A permit that `up` handed to a waiter
counts as available until the waiter runs: such an `up` is a `Release`, and the waiter's
return from `down` the `Enter`, for which the invariant has to provide the permit.

For `CheckSync`: `NeighboursApart`, `PermitsExact`, `MonitorIsExact` and `PhilWaitQueues`,
for every number N >= 2 of philosophers, every TIMES and every slice, in both versions. TLC
checks N = 4. With semaphores, `SemaAt(i)` ties the entry of philosopher i in the table, its
permit and the point it has reached. With the monitor, `GateInv` is what a reader of Hoare's
monitor knows: one philosopher inside, at most one signaller, which waits for the one it
signalled and only as long as that one is inside; the mutex has its permit when nobody is
inside, and `next_count` counts the signaller. Both use that a kernel thread loses the
processor only where it calls `schedule()` (`ThreadInv`).

**`StdinProofs`**: `BufferIsExact`, `WaitersAreExact`, `ReadersStayScheduled`, for every
finite set of readers, every size of the buffer and all lengths of reads. `RingInv` needs the
window of the ring modulo its size in both directions (a write at `p_wpos` overwrites nothing
between `p_rpos` and `p_wpos`); `ReadersInv` that while somebody waits the buffer is empty,
unless the interrupt is still waking the waiters. They
hold for whatever the console driver delivers.

`ConsoleIsExact` is about the driver in front of it, for every size of its ring, every set of
scripts and every order of bytes and interrupts. `ConsInv` says that the ring holds, at the
positions modulo its size, what was accepted and not given to `dev_stdin_write`, unless it
wrapped; and that as long as each byte had an interrupt of its own (`coalesced` is false),
the requests latched are at least as many as the characters in the ring and the bytes in
the devices together: one byte gives at most one character, and one interrupt takes one
character out of the ring. The loop of `cons_intr` over the bytes of a device is `Feed`,
and what it keeps is shown for the least number of bytes at which it would not. Which
character the decoder makes of a byte is left open.

**`KernelMemoryProofs`**: `PagesAreExact`, `PagesImplement`, `SwapKeepsContent`, `SwapIsFifo`,
`HeapIsExact`, `AssertsAfterBoot` and `CodeAssertsHold`, for every memory map, page size, set of
requests, number of frames and script of accesses. Assumptions: `PmmAssumption` (usable
entries of the memory map rise and leave a page between them), `SwapAssumption` and
`KmallocAssumption` (types of the constants; a page has more units than a big block's
descriptor).

- *Pages.* `PagesInv` is `PmmInv` with what each phase of the boot knows. `PmmInv` says that
  the blocks of the list rise and do not touch, that `property` and the mark are right at the
  head of each, and that list, blocks in use and the pages of the call under way part the
  managed pages; in the middle of `default_free_pages` the call's block overlaps none of the list and
  touches none of those the loop has visited (`FreeingOK`). `HiddenInv` is needed because `check_swap` puts
  the list aside and starts with an empty one, `TakeInv` and `GiveInv` say which of its pages it
  has so far, `AccessInv` that those in use are the page of the page table and the pages of
  the list of `swap_fifo.c`, and that there is no free page between faults, and `BigInv` ties the
  blocks of `kmalloc` to the pages they came from.
- *Refinement to `PageAlloc`.* Blocks that touch are joined, so n contiguous free pages lie in
  one block and the first block that is large enough starts with the lowest n of them; when
  none is found there are no such pages. While `check_swap` hides the list, the hidden pages
  are the free ones and those of `check_swap` are in use; what it does among them is a
  stutter. `default_free_pages` frees at its first step, and its loops are stutters.
- *Swap.* `SwapInv`: the table, the list of `swap_fifo.c` and the device agree. An entry that
  is present has a page of the list, which leads back to it, and one that is not leads to its
  own slot (`TableInv`); the list is in the order of the loads, but for the victim that has
  made room (`OrderInv`); the content is in the page or the slot (`Kept`). That the list is as
  long as there are frames whenever a fault finds no free page is a count of the frames
  (`FrameCount`).
- *Heap.* `HeapInv`: from `arena` on, all the way round the circular list, addresses rise and
  blocks do not touch (`RingOK`: `slobfree` may stand anywhere); the blocks of the list and
  those in use part the units of the pages the heap has (`Cut`), each block in use has one
  owner (`Owners`) and is as long as was asked for (`Records`).
- *Assertions.* `AssertsAfterBoot` needs nothing but these. `CodeAssertsHold` is stated for the
  4 frames and the script of `_fifo_check_swap`, since the numbers of faults that it asserts are
  right for that script only. `ChecksInv` says that the pages of `check_rp` rise, because
  `alloc_page` gives the lowest one, that `check_content_set` loads page m into
  `check_rp[m]`, and what the list is after each access of the script.

**`VmmProofs`**: `AreasStayExact` and `FramesStayExact`, for any finite or infinite set of
processes, any number of physical pages, any programs, sizes of the stack and breaks.
Assumptions: `VmAreaAssumption` and `VmmAssumption` (types of the constants; there are names
enough for the segments of each program, its stack and its heap, since `kmalloc` does not
fail here). Both theorems have the hypothesis `BelowStack`: the segments of each program rise,
as those of an ELF file do, and they end, like the breaks that are asked for, below every
place where `load_icode` may put the stack. It cannot be dropped: the run `vmm_overlap` breaks
`NoAssertFails` with a break above the bottom of the stack. The constants of the run `vmm`
satisfy it.

The invariant is `VmInv == Stages /\ Tables /\ PageCounts` with no assertion failed.
`AreasExact` speaks of the pages up to the break, which is too little for the next move of the
break. `InUser` says which areas there are: those of the program end at `brk_start` or below,
and if the break is above it exactly one more, `HeapArea`, begins at `brk_start` or further down
and ends at the break; the others are stacks. So `mm_unmap` of the end of the heap hits one
area (`HitIs`) and cuts it (`UnmapIs`), and `mm_brk` either extends that area or, when the
break is still at `brk_start`, inserts a new one (`GrowIs`), for which the last part of
`InUser` keeps a name. During `load_icode`, `Loading` says that all areas are below the
segments to come. One lemma per function of `vmm.c` says what it does to the set of areas and
that the list stays sorted, its count and its cache right: `Insertion` (with the
assertions of `check_vma_overlap`), `MapIs`, `RemovedIs`, `FreedIs`, `ExtendIs`, `CachedIs`. That
`dup_mmap` copies them all is shown for the least number of turns of its loop at which it would
not (`DupIs`). `Tables` says that an entry holds the page named after it and is in an area
with its rights, so `exit_mmap`, which visits the areas only, finds every page (`FreeMmIs`).

**`SfsProofs`**: `SfsStaysExact`, `BlocksStayExact` and `StorageIsStable`, for any files and
descriptors, blocks of any size, any number of direct blocks, a disk of any size, any lengths of
transfers and any seeks. Assumptions: `SfsAssumption` and `FilesAssumption` (types of the
constants; transfers have at least one word; `OutOfDate` is no inode).

The invariant is `SfsInv`. `BlocksExact` speaks of what all inodes name together; a call sees
one inode, so `MapExact` says of one that it names blocks, none twice and none of the `others`,
and that it has one for each index below `blocks`. The indirect block is one more place of the
map (`Slots`), and `At` reads the entries from the disk, so a write of words must be shown to
hit no indirect block (`WordsKeepMap`). `SizeFits` ties blocks and size: `blocks` is the size
rounded up as long as the disk was never full, and never less than the size rounded down, which
is what `assert(index <= din->blocks)` needs. `Alike` is needed for `StableStorage`:
`sfs_bmap_load_nolock` increments `blocks` without setting `dirty`, so a clean inode may have
more blocks than the one on the disk; it cannot have other blocks or another size, and
these determine the content.

A call works on a record w, and `CallExact(w, c)` says what holds of it at any moment, in the
context c of the other files and of what is on the disk. One lemma per function says what it
makes of such a record, on its failing paths too: `AllocIs` and `FreeIs` for the free map,
`GetDirectIs`, `SubEntry`, `SubIndirect` and `GetIs` for the look-up of a block (an indirect
block that was allocated goes back when there is none for the entry), `LoadIs`, `TruncateIs`,
`TruncfileIs`, `TryseekIs`, `IoIs`. `Cut` says of the pieces of a transfer that they follow each
other, are non-empty and lie inside one block each (`CutIs`). What a loop keeps (`ExtendIs`,
`ReduceIs`, `MovePiecesIs`, `ChunksIs`) is shown at the least turn at which it would not. At
the end of a call `ReplacedIs` puts the inode back among the others, and `ReturnEnds` and
`ReturnPanics` restore the invariant; there is one lemma per action (`OpenKeeps`, `RwKeeps`,
`SeekKeeps`, `CloseKeeps`, `RebootKeeps` and so on).

Only model-checked:

- liveness (`RunnableRuns`, `SleeperWakes`, `InitReaps`, `KilledExitsOrWaits`, `AllQuit`,
  `GetPidReturns`): out of the prover's reach;
- `KeysExact`: what the decoder makes of a sequence of bytes is a fold over
  it, and what a fold computes for every sequence needs an induction the prover cannot do;
- the refinement of `Sfs` to `ByteFiles`: the proofs say which blocks a call leaves to a file,
  and not which words are in them;
- `Image` (`ImageExact`, `TreeKept`, `MountExact`): mksfs and the directories are nested
  folds over the entries of a tree.

## 5. What is not modelled

- a crash before `fs_cleanup`: the free map on the disk is then older than the inodes
  (`sfs_fs.c:34`), and the code promises nothing about it;
- the two levels of the page tables and the pages that hold them: `exit_mmap` (`vmm.c:286`)
  visits only the tables under areas that are left;
- the block device loop of `dev_disk0.c`, `dev_stdout.c`, and the output side of `console.c`
  (video memory, parallel and serial port): transfers of bytes without state of their own but
  a cursor;
- `ide.c`, `clock.c`, `picirq.c`, boot code, `entry.S`, `vectors.S`, descriptor tables: machine
  level, straight-line; `sfs_lock.c`, whose semaphores are never contended;
- the debugging monitor, `printfmt`, `string`, the kernel's list macros: formatting and data
  structures that the models replace by sequences and sets;
- user programs: the models let a process make any sequence of calls instead;
- `tools/sign.c`, `tools/vector.c` and the LLVM pass in `CheckPass`: not part of the running
  system.

## 6. Plan

1. *Core, done*: `Sched`, `Timers`, `ProcLife` with proofs; `GetPid` with proofs.
2. *Synchronisation, done*: `Semaphore` and its refinement, `Monitor`, philosophers.
3. *Memory, done*: `VmArea`, `Vmm`; `Pmm` and its refinement, `Swap` and `Kmalloc`, composed
   in `KernelMemory`.
4. *Files, done*: `Files` for the counts of inodes, `SfsBlocks` and `Sfs` with the refinement
   to `ByteFiles`; `MkSfs`, `SfsDir` and `VfsDev`, composed in `Image`.
5. *Console, done*: `Console` and `Stdin`.
6. *Proofs, done*: `ProcLife` with the families, `GetPid`, `SemClients` with its refinement,
   `CheckSync`, `Stdin` with the ring of `Console`, `KernelMemory` with the refinement of `Pmm`
   to `PageAlloc`, `Files`, `Vmm`, `Sfs`.
7. *Proofs, next*, in this order: the refinement of `Sfs` to `ByteFiles`, `VfsDev`
   (`MountExact`).
