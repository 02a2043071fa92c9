-------------------------------- MODULE VfsDev --------------------------------
(***************************************************************************)
(* The device list of the virtual file system (kern/fs/vfs/vfsdev.c).       *)
(*                                                                          *)
(* vdev_list holds the vfs_dev_t's, the newest first: the name, whether a   *)
(* file system may be mounted on the device, and the one that is (NoFs if   *)
(* none).  Every function holds vdev_list_sem from its first look at the    *)
(* list to its last, and the functions it calls meanwhile do not sleep, so  *)
(* each call is one step.  Memory for a vfs_dev_t is taken to be there.     *)
(*                                                                          *)
(* The kernel itself calls vfs_add_dev three times and vfs_mount once, all  *)
(* in fs_init; vfs_unmount and vfs_unmount_all are the interface the list   *)
(* offers, and have no caller yet.                                          *)
(***************************************************************************)
EXTENDS Integers, Sequences, SequencesExt

CONSTANTS NoFs, DevNames

VARIABLE vdev_list

vfs_devlist_init == vdev_list = <<>>

\* The first element of the list a test holds for, or 0.
First(list, Test(_)) == SelectInSeq(list, Test)

check_devname_conflict(list, name) == \A i \in DOMAIN list : list[i].devname # name

\* The list and the result of vfs_do_add; list_add puts the device in front.
vfs_do_add(list, name, fs, mountable) ==
    IF check_devname_conflict(list, name)
    THEN <<[devname |-> name, fs |-> fs, mountable |-> mountable]>> \o list
    ELSE list

vfs_add_dev(list, name, mountable) == vfs_do_add(list, name, NoFs, mountable)

\* dev_init adds the devices in this order.
dev_init(list) ==
    vfs_add_dev(vfs_add_dev(vfs_add_dev(list, "stdin", FALSE), "stdout", FALSE), "disk0", TRUE)

find_mount(list, name) ==
    LET Is(v) == v.mountable /\ v.devname = name IN First(list, Is)

find_dev(list, name) ==
    LET Is(v) == v.devname = name IN First(list, Is)

\* What vfs_get_root answers: the file system to take the root of, the device itself,
\* or an error.
vfs_get_root(list, name) ==
    LET i == find_dev(list, name)
    IN  IF i = 0 THEN "E_NO_DEV"
        ELSE IF list[i].fs # NoFs THEN "root"
        ELSE IF ~list[i].mountable THEN "device"
        ELSE "E_NA_DEV"

\* The device a file system is mounted on.
vfs_get_devname(list, fs) ==
    LET Is(v) == v.fs = fs IN list[First(list, Is)].devname

\* Whether vfs_mount gets as far as to call mountfunc.
MountRet(list, name) ==
    LET i == find_mount(list, name)
    IN  IF i = 0 THEN "E_NO_DEV" ELSE IF list[i].fs # NoFs THEN "E_BUSY" ELSE "ok"

\* Whether vfs_unmount gets as far as to call fsop_sync and fsop_unmount.
UnmountRet(list, name) ==
    LET i == find_mount(list, name)
    IN  IF i = 0 THEN "E_NO_DEV" ELSE IF list[i].fs = NoFs THEN "E_INVAL" ELSE "ok"

SetFs(list, name, fs) == [list EXCEPT ![find_mount(list, name)].fs = fs]

\* The devices vfs_unmount_all unmounts.
Mounted(list) == {list[i].devname : i \in {j \in DOMAIN list : list[j].mountable /\ list[j].fs # NoFs}}
=============================================================================
