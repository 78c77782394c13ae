\* Files that stay within their direct pointers.
SPECIFICATION Spec
CONSTANTS
    NumInodes = 2
    RESERVED = 3
    NUM_BLOCKS = 5
    BLOCK_SIZE = 2
    NDIRECT = 2
    INT_SIZE = 4
    DIR_ON_DISK = 2
    LeftOver <- NoLeftOver
    Overrun = {}
    Stale = {}
    Name = {a, b, c}
    NoName = NoName
    JunkName = JunkName
    Unspec = Unspec
    Buf <- Pair
    ReadLen = {2}
    SeekTo = {0, 1}
    MaxEnd = 3
    JunkNum = {}
INVARIANTS TypeOK OwnedOnce BlocksHaveAName OneFilePerInode
PROPERTIES ImplementsFileStore NoBlockLost
SYMMETRY NameSymmetry
