\* The process dies between the submit and the commit and the push is retried.
SPECIFICATION Spec
CONSTANTS
    h1 = h1  h2 = h2  h3 = h3  h4 = h4  p1 = p1  p2 = p2  f1 = f1  tx = tx  none = none  bad = bad  nobody = nobody
    NoValue = none  BadAddress = bad  Nobody = nobody  Uint160Max = 100
    RouterAllowlist <- Routers  TokenOutAllowlist <- Allowed  Adapters <- AdapterSet  FloorChains <- Floors
    Keys <- AllKeys  Followers <- OneFollower  LaneMod = 8
    DiskFaults = FALSE  LostReplies = FALSE  MaxCrashes = 1  MaxOps = 4  GrantAfterLanding = TRUE
    Perms <- One  Scope <- ScopeOne  BootFile <- BootOne  BootEnabled <- One
    Handlers <- TwoHandlers  Request <- Retry  OwnerActs = {}  Pausable = {}
INVARIANTS MirroredAtMostOnce
\* The requests are finitely many: the service may end up with nothing to do.
CHECK_DEADLOCK FALSE
