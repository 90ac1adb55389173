----------------------------- MODULE MCSentinel -----------------------------
EXTENDS Sentinel, TLC

CONSTANTS a1, t1, t2, d1, d2, r1, r2

\* d2 has a rule more than d1: it finds t2 suspicious as well.
MCFlagged == d1 :> {t1} @@ d2 :> {t1, t2}

\* The rule has an id of its own, so the fingerprint follows it.
MCFingerprint == d1 :> "f1" @@ d2 :> "f2"

\* One detector that flags nothing, for the runs about approvals only, or t1.
MCNothingFlagged == d1 :> {}
MCOneFlagged == d1 :> {t1}
MCOneFingerprint == d1 :> "f1"

MCRunSymmetry == Permutations({r1, r2})
=============================================================================
