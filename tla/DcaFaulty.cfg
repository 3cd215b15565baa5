\* Two schedules, one of which can never be built, with concurrent submits, the kill-switch, failing
\* calls and a crash.
SPECIFICATION FairSpec
CONSTANTS
    s1 = s1  s2 = s2  a1 = a1  u1 = u1  r1 = r1  r2 = r2  r3 = r3
    Scheds <- TwoScheds  Unbuildable = {s1}  Plan <- PlanTwo  Accounts <- OneAccount  Purses <- OnePurse
    ExposureCap <- CapFive  Requests <- TwoRequests  Deadline = 1  MaxTime = 1  MaxFaults = 1
    Serial = FALSE  KillSwitch = TRUE  Volatile = {}
INVARIANTS HandshakeSafe
PROPERTIES DueAdvances SubmitsFinish
