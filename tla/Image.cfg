\* An image of 28 blocks, with two blocks of free map, made from each of the
\* host directories; blocks of 3 words, so the double indirect block is reached.
CONSTANTS
    SFS_BLKSIZE = 3
    SFS_NDIRECT = 1
    SFS_MAX_FILE_SIZE = 27
    NrBlocks = 27
    SFS_BLKBITS = 16
    SFS_MAX_NBLKS = 28
    ImgBlocks <- MCImgBlocks
    Hosts <- MCHosts
    Names <- MCNames
    DevNames = {"disk0", "stdin"}
    CwdSizes = {4, 5, 6}
    NoFs = NoFs
SPECIFICATION Spec
CHECK_DEADLOCK FALSE
INVARIANTS
    ImageExact
    TreeKept
    MountExact
