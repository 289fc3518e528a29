SPECIFICATION Spec
CONSTANTS
    r1 = r1
    r2 = r2
    r3 = r3
    r4 = r4
    Requests = {r1, r2, r3}
    MainThread = MainThread
    NoOne = NoOne
    Plan <- InterruptPlan
    Events = {"cancel", "deadline"}
    MaxInFlight = 2
INVARIANTS AbortIsExplained WorkInv
PROPERTIES CancelBeatsCommit SessionEndsWithItsEpoch
