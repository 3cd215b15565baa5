\* An enable, a removal and three session ops of one account, with the owner's own transactions.
SPECIFICATION Spec
CONSTANTS
    s1 = s1  s2 = s2  d1 = d1  device = device  b1 = b1  b2 = b2  j1 = j1  j2 = j2  j3 = j3
    CurveN = 7  YParity <- Parity  RawS = {2, 5}  Device = device
    Tokens <- TokenSet  TokenOutAllowlist = {"weth"}  Testnet = FALSE  MaxTxs = 2  BootEnabled = {d1}
    Perms <- PermSet  Scope <- Scopes  Builds <- BuildSet  Call <- Calls  Jobs <- JobSet  Job <- JobList
INVARIANTS TypeOK FreshRootOpAccepted FreshSessionOpAccepted SpendBounded
\* The requests are finitely many: the account may end up with nothing to do.
CHECK_DEADLOCK FALSE
