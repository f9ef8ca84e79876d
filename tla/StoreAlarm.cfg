SPECIFICATION Spec
CONSTANTS
    Conn = {c1, c2}
    Rid = {r1, r2}
    Nonce = {n1}
    Ceiling <- TwoKeys
    Offers <- GoodAndTwice
    Units = 2
    Operations <- AllOperations
    StatementsFail = FALSE
    MaxCalls = 3
INVARIANT NoFalseAlarm
CHECK_DEADLOCK FALSE
