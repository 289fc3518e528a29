SPECIFICATION Spec
CONSTANTS
    r1 = r1
    r2 = r2
    r3 = r3
    r4 = r4
    Requests = {r1, r2, r3, r4}
    MainThread = MainThread
    NoOne = NoOne
    Plan <- AccessPlan
    Events = {}
    MaxInFlight = 4
INVARIANTS TypeOK AcknowledgedLockIsClear SettledStateMatchesCore
PROPERTIES SealedEpochsAreDead 
