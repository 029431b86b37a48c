CONSTANTS
    s1 = s1  s2 = s2  u1 = u1  d1 = d1  o1 = o1  o2 = o2
    Session = {s1, s2}
    User = {u1}
    Deposit = {d1}
    Order = {o1, o2}
    Depositor <- OneDeposit
    Worth <- TwoUnits
    Cost <- OneAndTwo
    Target = {"processing", "shipped", "delivered"}
    Reported = {"delivered"}
    MaxReports = 1
    Mortal = {"verifying", "crediting", "failing", "paying", "moving", "marking"}
SPECIFICATION FairSpec
INVARIANTS ChargedOnce  NoOverdraft PayoutOnce
PROPERTIES KeepsAccounts WindowEnds
CHECK_DEADLOCK FALSE
