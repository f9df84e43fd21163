SPECIFICATION Spec
CONSTANTS
    x = x
    y = y
    last = r3
    None = None
    Checks = {r1, r2, r3}
    Hashings = {h}
    Addresses = {x, y}
    From <- FromTwo
    Admission = 2
    Workers = 1
    Threshold = 1
    Window = 2
    Delay = 1
    MaxAddresses = 1
    MaxTime = 2
INVARIANTS HistoryIsTheLog PermitsMatchWork
PROPERTIES DelayIsExact GuessesAreAccounted PermitsComeBack
CHECK_DEADLOCK FALSE
