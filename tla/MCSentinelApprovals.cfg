SPECIFICATION Spec
CONSTANTS
    a1 = a1
    t1 = t1
    t2 = t2
    d1 = d1
    d2 = d2
    r1 = r1
    r2 = r2
    Unversioned = Unversioned
    Approvals = {a1}
    Permit2Keys = {a1}
    Tokens = {}
    Detectors = {d1}
    Flagged <- MCNothingFlagged
    Fingerprint <- MCOneFingerprint
    PageCap = 2
    Runs = {r1, r2}
    MaxBlock = 2
SYMMETRY MCRunSymmetry
INVARIANTS
    NothingSkipped
    RecordedWasAttested
