\* Three requests over three minutes of a day and the next, with a store error and
\* an EVAL sent twice, while a deployment changes the limits.
SPECIFICATION Spec
CONSTANTS
    r1 = r1
    r2 = r2
    r3 = r3
    Requests = {r1, r2, r3}
    MinuteLength = 2
    DayLength = 4
    Limits <- Changed
    Horizon = 5
    StoreFaults = 1
    Resends = 1
SYMMETRY Symmetry
INVARIANTS TypeOK LimitsKept RefusedStop CountersExact KeysOutliveWindows
PROPERTIES RefusalIsDue
