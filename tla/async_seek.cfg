SPECIFICATION MCSpec
CONSTANTS
    Archives <- MCArchives
    BUFFER = 2
    DecodedLimit = 6
    Cancels = 2
    ReadAhead = 2
    CacheLimit = 4
    DemandLimit = 6
    QueueLimit = 3
    WriterLimit = 4
    None = None
    Kinds = {"Stored", "Raw", "AesStored", "Deflate", "Deflate64", "Bzip2", "Zstd", "Lzma", "AesDeflate", "AesDeflate64", "Unsupported"}
\* The writer stops after finish, abort or an error.
CHECK_DEADLOCK FALSE
INVARIANT EntryComplete
INVARIANT ErrorsAreJustified
INVARIANT ExtentExact
INVARIANT SignatureLast
PROPERTY CacheIsSound
PROPERTY CommandsReturn
