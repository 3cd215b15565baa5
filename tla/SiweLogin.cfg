\* Two logins with two nonces and six messages, next to two starting processes and a crash.
SPECIFICATION FairSpec
CONSTANTS
    w1 = w1  w2 = w2  n1 = n1  n2 = n2  l1 = l1  l2 = l2  p1 = p1  p2 = p2
    Procs = {p1, p2}  LastVersion = 2  Wallets = {w1, w2}  Subjects = {l1, l2}  MaxCrashes = 1
    Nonces = {n1, n2}  Messages <- MessageSet  Domain = "cyppie"  AllowedChains = {1}
INVARIANTS LoginProven SchemaSound
PROPERTIES ProfileKept EventuallyServes
\* Logins and nonces are finitely many.
CHECK_DEADLOCK FALSE
