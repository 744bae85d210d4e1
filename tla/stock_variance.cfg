SPECIFICATION Spec
CONSTANTS
    Items = {i1}
    Purchases = {p1, p2}
    Units = {"bag"}
    KgPerBag <- FiveKg
    Levels = {0, 4}
    Quantities = {1, 2}
    DelayDays = 1
    TruckDays = 0
    MaxDay = 1
    MaxChanges = 3
    None = None
INVARIANT VarianceIsZero
CHECK_DEADLOCK FALSE
