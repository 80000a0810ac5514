SPECIFICATION Spec
CONSTANTS
    c1 = c1
    c2 = c2
    personal = personal
    work = work
    unknown = unknown
    e1 = e1
    e2 = e2
    None = None
    Clients <- MCClients
    Vaults <- MCVaults
    DefaultVault = personal
    Names <- MCNames
    Uuids <- MCUuids
    Contents <- MCContents
    Workload <- EveryOp
    AllowInline = FALSE
    IdleLimit = 0
    BusSignals = {"session-lock", "sleep", "resume"}
    TickPeriod = 2
    MaxDue = 1
SYMMETRY Symmetric
INVARIANTS
    PromptOwnsUnlocking
    QueueIsWaiters
    ObserverAgrees
    LoadedIsActive
    NeverBusy
PROPERTIES
    ImplementsService
    VaultSteps
