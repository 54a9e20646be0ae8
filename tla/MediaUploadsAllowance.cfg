SPECIFICATION Spec
CONSTANTS
    Tab = {t1, t2}
    Cleaner = cleaner
    Asset = {a1, a2}
    NoAsset = NoAsset
    Quota = 2
    UploadsPerDay = 1
INVARIANT UploadsWithinDay
SYMMETRY Symmetry
CHECK_DEADLOCK FALSE
