\* A deployment lowers the limit below what was counted.
SPECIFICATION Spec
CONSTANTS
    r1 = r1
    r2 = r2
    r3 = r3
    Requests = {r1, r2, r3}
    MinuteLength = 2
    DayLength = 4
    Limits <- Changed
    Horizon = 1
    StoreFaults = 0
    Resends = 0
SYMMETRY Symmetry
INVARIANTS RefusedDoNotGoOn

