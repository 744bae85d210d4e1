SPECIFICATION MCSpec
CONSTANTS
    None = None
    NoKey = NoKey
    Processes = {Server, Standby}
    Workers = {Laptop, Phone}
    ProcessOf <- ServedBy
    Keys = {}
    Suppliers = {s1}
    Days = {1, 2}
    Totals = {10}
    DupTolerance = 1
    MaxRequests = 3
    MaxRestarts = 1
    Kinds = {"create", "cancel"}
    NewStatuses = {"confirmed"}
    NoLine = NoLine
    NoLog = NoLog
    i1 = i1
    i2 = i2
    a1 = a1
    Boss = Boss
    u1 = u1
    w1 = w1
    w2 = w2
    b1 = b1
    b2 = b2
    s1 = s1
    s2 = s2
    c1 = c1
    c2 = c2
    t1 = t1
    t2 = t2
    t3 = t3
    p1 = p1
    p2 = p2
    r1 = r1
    r2 = r2
    k1 = k1
    Clerk = Clerk
    Laptop = Laptop
    Phone = Phone
    Server = Server
    Standby = Standby
INVARIANTS
    Typed
    RevokedStaysRevoked
    PermissionsAreGranted
    TypeInCategory
    DeletesFailForHistoryOnly
    ReadsSeePurchases
    StaleForTtlOnly
    ReportsAgree
    ProfitsAgree
    PaidWithinTotal
    ListsAreWhole
    ViewsAgree
    NumbersDense
    NoTwins
    CountsEveryPurchase
    KeyMakesOnePurchase
    LastTradeIsLiveInSequence
    ToldOnce
    ApprovedIsTold
    CodesAreFresh
    LabelsFindTheirItem
    TickedOnce
    BackupsAgree
    OrderReachesOnce
    CommittedInSequence
    SeededOnce
PROPERTIES
    CompletedIsFinal
    DeletedStaysDeleted
    ItemsLeaveOnlyByDeletion
CHECK_DEADLOCK FALSE
