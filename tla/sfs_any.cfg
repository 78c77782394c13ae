\* Remounts that read back a damaged directory, files with indirect blocks,
\* any client.
SPECIFICATION Spec
CONSTANTS
    NumInodes = 2
    RESERVED = 3
    NUM_BLOCKS = 6
    BLOCK_SIZE = 2
    NDIRECT = 1
    INT_SIZE = 2
    DIR_ON_DISK = 0
    LeftOver <- JunkEntries
    Overrun = {6}
    Stale = {1, 4}
    Name = {a, b}
    NoName = NoName
    JunkName = JunkName
    Unspec = Unspec
    Buf <- Blocks12
    ReadLen = {2}
    SeekTo = {0}
    MaxEnd = 4
    JunkNum = {0, 2}
INVARIANTS OwnedOnce BlocksHaveAName CrashNeedsADamagedDirectory
PROPERTY StrayNeedsIndirect
SYMMETRY NameSymmetry
CHECK_DEADLOCK FALSE
