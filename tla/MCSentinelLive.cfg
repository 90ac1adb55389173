SPECIFICATION FairSpec
CONSTANTS
    a1 = a1
    t1 = t1
    t2 = t2
    d1 = d1
    d2 = d2
    r1 = r1
    r2 = r2
    Unversioned = Unversioned
    Approvals = {a1}
    Permit2Keys = {}
    Tokens = {t1}
    Detectors = {d1}
    Flagged <- MCOneFlagged
    Fingerprint <- MCOneFingerprint
    PageCap = 2
    Runs = {r1}
    MaxBlock = 1
PROPERTIES
    NewApprovalAttested
    NewTokenAttested
