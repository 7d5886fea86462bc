CONSTANTS
    Parts = {"vm"}
    Timer = {t1, t2, t3, t4}
    Modulus = 5
    NPAGE = 5
    NULL = NULL
    PAGE = 6
    NPage = 3
    BigUnits = 2
    KSizes = {1, 3, 6, 12}
    NProc = 4
    MAX_PROCESS = 5
    MAX_PID = 7
    HASH_LIST_SIZE = 2
    NVirt = 5
    NPhys = 4
    Managers = {"clock", "fifo"}
    max_swap_offset = 8
    Proc = {p1, p2}
    NFrame = 18
    Fan = 2
    PGSIZE = 2
    USERBASE = 2
    USTACKPAGE = 2
    EagerStack = 1
    Bytes = {7}
    Extents = {1, 3}
    Watched = {4, 6, 15}
    Programs <- TwoTables
    Letters = {37, 48, 200}
    MaxString = 3
    Cells = 5
    Numbers = {0, 1, 7, 8, 15, 16, 127, 128, 255, 256, 4660, 8192}
    Widths = {0, 1, 2, 6}
    Sizes = {0, 1, 4, 9}
    INT_BITS = 8
    LONG_BITS = 14
    File = {f1, f2}
    Fd = {d1, d2}
    NBlock = 4
    SFS_BLKSIZE = 2
    SFS_NDIRECT = 1
    SFS_MAX_FILE_SIZE = 8
    IOBUF_SIZE = 2
    Content <- MCContent
    Lengths = {1, 3}
    Seeks = {3, 7}
    MaxCalls = 5
    Real = {0, 1, 2, 3, 4, 5, 6, 7, 8, 9, 10}
    Type <- MCType
    Kids <- MCKids
    Extras <- MCExtras
    Stem <- MCStem
    TooLong = {"z"}
    Devices <- MCDevices
    Pieces <- MCPieces
    Hidden = {".h"}
    ImageSizes = {3, 24, 45, 48}
    SFS_BLKBITS = 16
    NDirect = 4
    NEntry = 3
    SFS_LN_NBLKS = 10
    BufferSizes = {2, 3, 5, 9}
SPECIFICATION Spec
VIEW Shape
INVARIANT DirectoryEmpty
CHECK_DEADLOCK FALSE
