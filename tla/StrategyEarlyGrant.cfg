SPECIFICATION Spec
CONSTANTS
    p1 = p1
    p2 = p2
    alice = alice
    prepare1 = prepare1
    grant1 = grant1
    pause1 = pause1
    resume1 = resume1
    list1 = list1
    revoke1 = revoke1
    Nobody = Nobody
    Perms = {p1, p2}
    Handlers = {prepare1, grant1, list1}
    Account <- MCAccount
    Request <- MCRequest
    BootFile <- MCBootFile
    BootEnabled <- MCBootEnabled
    DiskFaults = FALSE
    GrantAfterLanding = FALSE
    MaxCrashes = 0
CHECK_DEADLOCK FALSE
INVARIANTS EndedOnlyByRemoval

