SPECIFICATION Spec
CONSTANTS
    HistoryLen = 2
    NumIds = 4
    MaxRequests = 1
INVARIANTS OneOutcome PendingCanExpire
PROPERTIES UnservedIsFed
