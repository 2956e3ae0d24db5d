SPECIFICATION Spec
CONSTANTS
    h1 = h1
    h2 = h2
    None = None
    Tasks = {1, 2}
    Issues = {1}
    Heads = {h1, h2}
    MaxRepairs = 1
    Gap = 5
    Delayed = FALSE
    MaxEvents = 7
    MaxCrashes = 1
SYMMETRY Symmetry
CHECK_DEADLOCK FALSE
INVARIANTS
    TypeOK
    HistoryRebuilds
    SecondTaskWaits
    OneRunPerAttempt
    OneVerdictPerHead
    VerdictsAreGated
