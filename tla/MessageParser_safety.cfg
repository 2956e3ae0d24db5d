SPECIFICATION Spec
CONSTANTS
    p1 = p1
    p2 = p2
    nq = nq
    None = None
    Providers = {p1, p2}
    Preferred = None
    Values = {1, 2}
    Instruments = {nq}
    Fragments <- AllFragments
    MaxFragments = 4
CHECK_DEADLOCK FALSE
INVARIANTS
    OrdersAreWhole
    ProvidersAgree
    EventsFollowTheText
    SilenceIsDeliberate
