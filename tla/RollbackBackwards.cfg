SPECIFICATION Spec
CONSTANTS
    p1 = p1  p2 = p2  t1 = t1  t2 = t2
    Proc <- TwoProcesses
    Caller <- Threads
    Host <- OwnHost
    MaxSeq = 3
PROPERTY SeqOnlyUpward
