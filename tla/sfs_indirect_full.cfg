\* A disk that is full when an indirect block is needed.
SPECIFICATION Spec
CONSTANTS
    NumInodes = 2
    RESERVED = 3
    NUM_BLOCKS = 5
    BLOCK_SIZE = 2
    NDIRECT = 1
    INT_SIZE = 4
    DIR_ON_DISK = 2
    LeftOver <- NoLeftOver
    Overrun = {}
    Stale = {3, 4}
    Name = {a, b}
    NoName = NoName
    JunkName = JunkName
    Unspec = Unspec
    Buf <- OneOrTwoBlocks
    ReadLen = {2}
    SeekTo = {0}
    MaxEnd = 6
    JunkNum = {}
INVARIANT IndirectPointsToData
CHECK_DEADLOCK FALSE
