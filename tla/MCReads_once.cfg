CONSTANTS
    Plate = {"P1", "P2"}
    Tag = {"T1", "T2"}
    Window = 2
    MaxDelay = 1
    MaxReads = 2
    MaxNow = 3
    Request = {r1, r2}
    Kind = {"k1", "k2"}
    Rate = {"day", "night"}
    Job <- CaseJobs
    MaxCrashes = 1
    Evaluator = {e1, e2}
    MaxLadderCrashes = 1
    MaxMailFaults = 1
    Truck = {t1, t2}
    Slot = {s1, s2}
    Clerk = {g1, g2}
    Free = Free
    MaxStays = 3
    MaxLost = 1
SPECIFICATION ReadsSpec
CHECK_DEADLOCK FALSE
INVARIANT ReadConfirmsOnce
