CONSTANTS
    Base = 4
    Xor <- MCXor
    Jobs <- MCJobs
    OffLen <- MCOffLen
    SizeLen = 1
    Mark <- MCMark
    HeadLen = 1
    FlagLen = 3
    BlockLen = 1
    BlockAt <- MCBlockAt
    PosLen = 1
    OffsetLen = 2
    IdMagic <- MCIdMagic
    IdOver = 1
    LenIdx <- MCLenIdx
    Turns = 32
    Spills = {"dead", "count", "undo"}
    OldBlocks <- MCOldBlocks
    FieldLen = 1
    BpsLeft <- MCBpsLeft
    MaxJunk = 3
    lChunkBytes = 2
    ChunkHead = 1
    LongLen = 1
    PageLen = 2
    FootLen = 2
    MinLen = 6
    Sync <- MCSync
    AddrLen = 1
    DataLen = 1
    EcmFlagLen = 1
    EdcLen = 1
    EccLen = 1
    Edc <- MCEdc
    Ecc <- MCEcc
    First = 2
    More7 = 2
    Counts = 16
    DldiMagic <- MCDldiMagic
    PtrLen = 4
    DLDI_VERSION = 1
    DO <- MCDO
    HeaderPtrs <- MCHeaderPtrs
    Fixes <- MCFixes
    DriverLen <- MCDriverLen
SPECIFICATION Spec
INVARIANTS TypeOK IpsExact IpsCutFails PpfOwnPass DpsExact ApsGbaKnownChunks ApsGbaLastChunk N64Exact
    BpsExact BpsChecked BsExact BsFits EcmExact DldiRelocated BothWays SuccessMatches SizeKept
PROPERTIES LaidOver Returns
