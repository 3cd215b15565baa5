\* The same buy submitted twice at the same time.
SPECIFICATION FairSpec
CONSTANTS
    s1 = s1  s2 = s2  a1 = a1  u1 = u1  r1 = r1  r2 = r2  r3 = r3
    Scheds <- OneSched  Unbuildable = {}  Plan <- PlanHourly  Accounts <- OneAccount  Purses <- OnePurse  ExposureCap <- CapFive
    Requests <- TwoRequests  Deadline = 1  MaxTime = 2  MaxFaults = 0  Serial = FALSE  KillSwitch = FALSE  Volatile = {}
PROPERTIES StatusFinal
