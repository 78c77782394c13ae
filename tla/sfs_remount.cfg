\* An existing file system opened again.
SPECIFICATION Spec
CONSTANTS
    NumInodes = 2
    RESERVED = 3
    NUM_BLOCKS = 6
    BLOCK_SIZE = 2
    NDIRECT = 1
    INT_SIZE = 4
    DIR_ON_DISK = 2
    LeftOver <- NoLeftOver
    Overrun = {}
    Stale = {}
    Name = {a, b}
    NoName = NoName
    JunkName = JunkName
    Unspec = Unspec
    Buf <- OneOrTwoBlocks
    ReadLen = {2}
    SeekTo = {0}
    MaxEnd = 6
    JunkNum = {}
PROPERTY RemountKeepsFiles
CHECK_DEADLOCK FALSE
