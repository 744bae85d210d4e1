SPECIFICATION Spec
CONSTANTS
    None = None
    Users = {Boss, u1}
    Boss = Boss
    Workers = {w1, w2}
    i1 = i1
    p1 = p1
    Concerns <- SomeConcerns
    Reports = {r1}
    ClientKeys = {}
    MaxDay = 0
    MaxRequests = 2
INVARIANT EveryTargetIsTold
CHECK_DEADLOCK FALSE
