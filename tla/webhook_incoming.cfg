SPECIFICATION FairSpec
CONSTANTS
    r1 = r1
    r2 = r2
    r3 = r3
    paid = paid
    changed = changed
    parcel = parcel
    ping = ping
    anonymous = anonymous
    numeric = numeric
    Request <- MCRequest
    Message <- MCMessage
    IdOf <- MCIdOf
    Numeric <- MCNumeric
    Processor <- MCProcessor
    NoMessage = NoMessage
    NoId = NoId
    MaxCrashes = 1
INVARIANTS TypeOK AppliedOnce AcknowledgedIsStored
PROPERTY DuplicateIsSettled
CHECK_DEADLOCK FALSE
