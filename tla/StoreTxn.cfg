SPECIFICATION Spec
CONSTANTS
    Conn = {c1, c2}
    Rid = {r1, r2}
    Nonce = {n1}
    Ceiling <- TwoKeys
    Offers <- GoodAndTwice
    Units = 2
    Operations <- AllOperations
    StatementsFail = TRUE
    MaxCalls = 5
SYMMETRY ConnSymmetry
INVARIANTS LedgerIsChained ImposeIsWhole OnlyFailuresStayOpen RowsAreWhole
PROPERTIES AlarmIsExplained CommittedStays
CHECK_DEADLOCK FALSE
