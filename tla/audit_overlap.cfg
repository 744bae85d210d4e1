SPECIFICATION Spec
CONSTANTS
    Items = {i1}
    Workers = {w1, w2}
    Audits = {a1}
    Opening = 4
    Counts = {3, 8}
    Used = {0}
    ApprovalUnits = 2
    ApprovalShare = 50
    MaxRequests = 2
    MaxMoves = 0
    MaxDay = 0
    None = None
    NoLine = NoLine
    NoLog = NoLog
PROPERTY CompletedNotModified
CHECK_DEADLOCK FALSE
