\* One email: two registrations, a login, two refreshes, a logout, a deletion.
CONSTANTS
    r1 = r1
    r2 = r2
    r3 = r3
    r4 = r4
    r5 = r5
    r6 = r6
    r7 = r7
    Requests = {r1, r2, r3, r4, r5, r6, r7}
    Kind <- MCKind
    Lifetime = 1
    Horizon = 1
SPECIFICATION Spec
INVARIANTS
    TypeOK
    OwnersExist
    SpentStaysSpent
    RevokedForReason
    SomeoneGoesOn
