\* A delivery, its retry and a revoke with a crash, lost answers and an unbuildable plan.
SPECIFICATION FairSpec
CONSTANTS
    h1 = h1  h2 = h2  h3 = h3  h4 = h4  p1 = p1  p2 = p2  f1 = f1  tx = tx  none = none  bad = bad  nobody = nobody
    NoValue = none  BadAddress = bad  Nobody = nobody  Uint160Max = 100
    RouterAllowlist <- Routers  TokenOutAllowlist <- Allowed  Adapters <- AdapterSet  FloorChains <- Floors
    Keys <- AllKeys  Followers <- OneFollower  LaneMod = 2
    DiskFaults = FALSE  LostReplies = TRUE  MaxCrashes = 1  MaxOps = 4  GrantAfterLanding = TRUE
    Perms <- Both  Scope <- ScopeBad  BootFile <- BootGranted  BootEnabled <- Both
    Handlers <- ThreeHandlers  Request <- DeliverAndRevoke  OwnerActs = {}  Pausable = {}
INVARIANTS TypeOK
PROPERTIES RequestsFinish LandedIsCharged ImplementsLedger
\* The requests are finitely many: the service may end up with nothing to do.
CHECK_DEADLOCK FALSE
