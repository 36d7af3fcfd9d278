SPECIFICATION Spec
CONSTANTS
    Runs = {r1, r2}
INVARIANTS
    TypeOK
    TempDirWiped
    TrustStoreClean
    CertFileServesChild
    TrustKept
PROPERTIES
    RunEnds
CHECK_DEADLOCK FALSE
