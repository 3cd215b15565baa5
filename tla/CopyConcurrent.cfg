\* A delivery, its retry and a trigger race, another is refused, on one session; no faults, and lanes that
\* go round.
SPECIFICATION LaneSpec
CONSTANTS
    h1 = h1  h2 = h2  h3 = h3  h4 = h4  p1 = p1  p2 = p2  f1 = f1  tx = tx  none = none  bad = bad  nobody = nobody
    NoValue = none  BadAddress = bad  Nobody = nobody  Uint160Max = 100
    RouterAllowlist <- Routers  TokenOutAllowlist <- Allowed  Adapters <- AdapterSet  FloorChains <- Floors
    Keys <- AllKeys  Followers <- OneFollower  LaneMod = 2
    DiskFaults = FALSE  LostReplies = FALSE  MaxCrashes = 0  MaxOps = 4  GrantAfterLanding = TRUE
    Perms <- One  Scope <- ScopeOne  BootFile <- BootOne  BootEnabled <- One
    Handlers <- FourHandlers  Request <- RetryAndTriggers  OwnerActs = {}  Pausable = {}
INVARIANTS ExposureWithinCap ChargedOnce BookingsExact MirroredAtMostOnce NeverUnderCounts LanesRotate
\* The requests are finitely many: the service may end up with nothing to do.
CHECK_DEADLOCK FALSE
