CONSTANTS
    c1 = c1  c2 = c2  s1 = s1  s2 = s2  i1 = i1  i2 = i2
    Writer = {s1, s2}
    Clerk = {c1, c2}
    Item = {i1, i2}  NoItem = NoItem
    Qty <- MCQty
    Stock = 3
    Level <- MCLevel
    Delta <- MCDelta
    MaxRequests = 2
SPECIFICATION Spec
SYMMETRY MCSymmetry
INVARIANTS LedgerHolds AuditTells
CHECK_DEADLOCK FALSE
