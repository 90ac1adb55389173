SPECIFICATION Spec
CONSTANTS
    a1 = a1
    t1 = t1
    t2 = t2
    d1 = d1
    d2 = d2
    r1 = r1
    r2 = r2
    Unversioned = Unversioned
    Approvals = {}
    Permit2Keys = {}
    Tokens = {t1, t2}
    Detectors = {d1, d2}
    Flagged <- MCFlagged
    Fingerprint <- MCFingerprint
    PageCap = 1
    Runs = {r1}
    MaxBlock = 2
PROPERTIES
    ReportsOnlyArrivals
