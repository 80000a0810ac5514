SPECIFICATION Spec
CONSTANTS
    Queries <- MCQueries
    Pool <- MCPool
    MaxEntries = 2
    Limits = {0, 1, 2}
    FieldNames <- MCNames
    LowerCase <- MCLower
    Delays = {"~250", "~x"}
    GoodDelays = {"~250"}
    OtpUris = {"otpauth://"}
    RawEntries <- MCRawEntries
    Sequences <- MCSequences
    MaxTokens = 3
    KeyFiles = {"a", "b", "lost"}
    GoodKeyFiles = {"a", "b"}
    Passwords = {"right", "wrong"}
    Nodes <- Middle
    Height <- MCHeight
    MaxHeight = 2
    Roots <- MCRoots
    VaultNames = {"work", " work ", "home", " ", "", "vault"}
    Trim <- MCTrim
    HomeKnown = TRUE
    Files <- MCFiles
    Pins = {"first", "second"}
    MaxLines = 6
    MaxPieces = 4
INVARIANTS
    ListIsSearch
    PrefixOnTop
    CopyFindsField
    TypedIsPrefix
    EntriesPlaced
    OpensWithItsKey
    ConfigUnambiguous
    PinIsLastData
    ZeroMeansDone
CHECK_DEADLOCK FALSE
