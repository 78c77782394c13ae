\* Two threads of the FUSE daemon on two files of at most two blocks.
SPECIFICATION FuseSpec
CONSTANTS
    NumInodes = 2
    RESERVED = 1
    NUM_BLOCKS = 3
    BLOCK_SIZE = 1
    NDIRECT = 2
    INT_SIZE = 4
    DIR_ON_DISK = 2
    LeftOver <- NoLeftOver
    Overrun = {}
    Stale = {}
    Name = {a, b}
    NoName = NoName
    JunkName = JunkName
    Unspec = Unspec
    Buf <- OneWord
    ReadLen = {1}
    SeekTo = {1}
    MaxEnd = 3
    Thread = {t1, t2}
    Nobody = Nobody
    JunkBehind = TRUE
    MaxBlockAhead = TRUE
    MaxRequest = 4
INVARIANTS FuseTypeOK OwnedOnce SemaphoreIsHeldOrLost HandlesKeepTheirName OpenOnlyAfterRefusal ListingsAreTrue DiskInReach
PROPERTIES UndisturbedTransfers SizesOnlyGrow SomeRequestEnds
CHECK_DEADLOCK FALSE
