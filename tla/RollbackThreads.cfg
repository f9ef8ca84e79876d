SPECIFICATION Spec
CONSTANTS
    p1 = p1  p2 = p2  t1 = t1  t2 = t2
    Proc <- OneProcess
    Caller <- Threads
    Host <- SameHost
    MaxSeq = 4
INVARIANT NeverServesOlder
PROPERTIES RefusedOnlyAfterRestore HealedAtOpen
