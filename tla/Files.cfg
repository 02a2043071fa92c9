SPECIFICATION Spec
CONSTANTS
    root = root
    sub = sub
    file = file
    stdin = stdin
    p1 = p1
    p2 = p2
    None = None
    InitProc = init
    Users = {p1, p2}
    NENTRY = 3
    MAX_INODE_COUNT = 9
    Dirs = {root, sub}
    RegFiles = {file}
    Devs = {stdin}
    Root = root
    Parent <- MCParent
    OpenFlags <- MCFlags
    Paths <- MCPaths
    MaxOpen = 3
    MaxLeaks = 1
SYMMETRY Symmetry
PROPERTIES RefsExact
