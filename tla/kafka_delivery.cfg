CONSTANTS
    c1 = c1  c2 = c2  m1 = m1  m2 = m2
    Message = {m1}
    Consumer = {c1, c2}
    Main = {"main"}
    Retry = {"retry"}
    MaxRetries = 2
    Faults = {"crash", "rebalance", "commit", "route"}
    MaxFaults = 2
    NoHand = NoHand
SPECIFICATION FairSpec
INVARIANTS TypeOK NoLoss
PROPERTIES DeliversAsPromised EventuallySettled
CHECK_DEADLOCK FALSE
