CONSTANTS
    s1 = s1  s2 = s2  p1 = p1  p2 = p2  j1 = j1
    Consumer = {s1, s2}
    Product = {p1, p2}
    Job = {j1}
    Beat = Beat
    MaxRetries = 1
    MaxChanges = 1
    MaxFaults = 2
SPECIFICATION Spec
INVARIANTS TypeOK NothingMissed OneAtATime CompletedIsSynced
SYMMETRY Symmetry
CHECK_DEADLOCK FALSE
