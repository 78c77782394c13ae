\* Files that grow into their indirect block, by whole blocks.
SPECIFICATION AppendsOnly
CONSTANTS
    NumInodes = 2
    RESERVED = 3
    NUM_BLOCKS = 9
    BLOCK_SIZE = 2
    NDIRECT = 1
    INT_SIZE = 4
    DIR_ON_DISK = 2
    LeftOver <- NoLeftOver
    Overrun = {}
    Stale = {3, 4}
    Name = {a, b}
    NoName = NoName
    JunkName = JunkName
    Unspec = Unspec
    Buf <- OneOrTwoBlocks
    ReadLen = {4}
    SeekTo = {0}
    MaxEnd = 6
    JunkNum = {}
INVARIANTS FilesApart IndirectPointsToData
PROPERTIES AppendsToAStore NoBlockLost
SYMMETRY NameSymmetry
