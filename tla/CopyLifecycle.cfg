\* Prepare, grant, pause, list, trigger and revoke against the on-chain session, with failing writes.
SPECIFICATION Spec
CONSTANTS
    h1 = h1  h2 = h2  h3 = h3  h4 = h4  p1 = p1  p2 = p2  f1 = f1  tx = tx  none = none  bad = bad  nobody = nobody
    NoValue = none  BadAddress = bad  Nobody = nobody  Uint160Max = 100
    RouterAllowlist <- Routers  TokenOutAllowlist <- Allowed  Adapters <- AdapterSet  FloorChains <- Floors
    Keys <- AllKeys  Followers <- OneFollower  LaneMod = 8
    DiskFaults = TRUE  LostReplies = FALSE  MaxCrashes = 0  MaxOps = 4  GrantAfterLanding = TRUE
    Perms <- Both  Scope <- ScopeBoth  BootFile <- BootBoth  BootEnabled <- One
    Handlers <- FourHandlers  Request <- ListAndRevoke  OwnerActs <- Lifecycle  Pausable <- One
INVARIANTS EndedOnlyByRemoval AckedRevokeDurable
PROPERTIES FileHistoryGrows
\* The requests are finitely many: the service may end up with nothing to do.
CHECK_DEADLOCK FALSE
