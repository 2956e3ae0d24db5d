SPECIFICATION Spec
CONSTANTS
    ch = ch
    d1 = d1
    nq = nq
    t1 = t1
    t2 = t2
    m1 = m1
    m2 = m2
    w1 = w1
    w2 = w2
    k1 = k1
    k2 = k2
    k3 = k3
    None = None
    Channels = {ch}
    Days = {d1}
    Instruments = {nq}
    Terms = {t1, t2}
    Messages = {m1, m2}
    Workers = {w1, w2}
    Contents <- ThreeContents
    ChannelOf <- MCChannelOf
    ReportStates = {"SUCCEEDED"}
    MaxStored = 3
    MaxCrashes = 1
    LateReports = FALSE
SYMMETRY Symmetry
INVARIANTS
    VersionsAreEdits
    IntentsMatchMarkers
    ConsistentUnlessStale
