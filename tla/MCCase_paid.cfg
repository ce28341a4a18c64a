CONSTANTS
    Plate = {"P1", "P2"}
    Tag = {"T1", "T2"}
    Window = 2
    MaxDelay = 1
    MaxReads = 2
    MaxNow = 3
    Request = {r1, r2, r3}
    Kind = {"k1"}
    Rate = {"day"}
    Job <- DeskJobs
    MaxCrashes = 0
    Evaluator = {}
    MaxLadderCrashes = 0
    MaxMailFaults = 0
    Truck = {t1, t2}
    Slot = {s1, s2}
    Clerk = {g1, g2}
    Free = Free
    MaxStays = 3
    MaxLost = 1
SPECIFICATION DeskSpec
CHECK_DEADLOCK FALSE
INVARIANT PaidOnlyAfterAChallan
