SPECIFICATION Spec
CONSTANTS
    MemMap <- BiosMap
    PGSIZE = 4
    KMEMSIZE = 60
    FreeMem = 6
    Sizes = {2}
    N = 4
    FifoScript <- CodeScript
    MaxFaults = 8
    MaxErrors = 1
    PAGE_SIZE = 8
    KSizes = {1, 4, 6, 8, 17}
    MaxLive = 2
INVARIANTS AssertsHold PagesExact HeapExact ContentKept FifoExact
PROPERTIES Implements
