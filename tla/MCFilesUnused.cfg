CONSTANTS
    Proc = {p1, p2}
    Pipe = {i1}
    NULL = NULL
    FILES_STRUCT_NENTRY = 2
    MAX_INODE_COUNT = 9
    MaxLeaks = 1
    OpenCalls <- MCOpens
    MaxProc = 3
    User = {u1, u2, u3}
    NONE = NONE
    Byte = {0, 1}
    PIPE_BUFFER_SIZE = 3
    MaxLen = 3
    STDIN_BUFSIZE = 2
    Lengths = {1, 3}
    MaxTyped = 5
CONSTRAINT FewOpen
VIEW Shape
SYMMETRY MCSymmetry
SPECIFICATION MCSpec
INVARIANT UnusedIsReclaimed
CHECK_DEADLOCK FALSE
