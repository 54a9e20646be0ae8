SPECIFICATION Spec
CONSTANTS
    Tab = {t1, t2}
    Cleaner = cleaner
    Asset = {a1, a2}
    NoAsset = NoAsset
    Quota = 1
    UploadsPerDay = 1
INVARIANTS TypeOK CoverStored StoredIsCounted QuotaKept DeadlockNeedsPendingSave
SYMMETRY Symmetry
CHECK_DEADLOCK FALSE
