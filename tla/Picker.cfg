SPECIFICATION Spec
CONSTANTS
    personal = personal
    work = work
    entry = entry
    None = None
    Vaults <- MCVaults
    DefaultVault = personal
    Names <- MCVaults
    Uuids = {entry}
    Contents <- MCContents
    Cap = 2
    OutCap = 0
    InCap = 2
    MaxPending = 2
INVARIANTS
    TypeOK
    ClientAgrees
    RowsMatch
    PickerFills
