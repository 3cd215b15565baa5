\* One submit at a time, no faults.
SPECIFICATION Spec
CONSTANTS
    s1 = s1  s2 = s2  a1 = a1  u1 = u1  r1 = r1  r2 = r2  r3 = r3
    Scheds <- TwoScheds  Unbuildable = {}  Plan <- PlanTwo  Accounts <- OneAccount  Purses <- OnePurse  ExposureCap <- CapFive
    Requests <- ThreeRequests  Deadline = 1  MaxTime = 3  MaxFaults = 0  Serial = TRUE  KillSwitch = FALSE  Volatile <- OneAccount
INVARIANTS TypeOK OneBuyPerSlot SpentWithinCap SpendRecorded RowMatchesOp
PROPERTIES StatusFinal
