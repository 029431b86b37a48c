CONSTANTS
    s1 = s1  s2 = s2  p1 = p1  p2 = p2  j1 = j1
    Consumer = {s1, s2}
    Product = {p1}
    Job = {j1}
    Beat = Beat
    MaxRetries = 0
    MaxChanges = 1
    MaxFaults = 2
SPECIFICATION FairSpec
PROPERTIES JobsEnd CatchesUp
CHECK_DEADLOCK FALSE
