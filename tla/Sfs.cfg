SPECIFICATION Spec
CONSTANTS
    f1 = f1
    f2 = f2
    d1 = d1
    d2 = d2
    Files = {f1, f2}
    Fds = {d1, d2}
    NoFile = NoFile
    OutOfDate = OutOfDate
    SFS_BLKSIZE = 2
    SFS_NDIRECT = 1
    SFS_MAX_FILE_SIZE = 9
    NrBlocks = 4
    Lens = {3}
    Seeks <- MCSeeks
SYMMETRY Symmetry
INVARIANTS BlocksExact StableStorage
PROPERTIES Implements
