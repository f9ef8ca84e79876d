SPECIFICATION Spec
CONSTANTS
    Proc = {p1, p2}
    MaxRecords = 4
INVARIANTS OnlyLateRecordsBreak OneWriterOutrunsDamage ViewMatchesFile
PROPERTIES LogSpec
CHECK_DEADLOCK FALSE
