SPECIFICATION Spec
CONSTANTS
    t1 = t1
    c1 = c1
    d1 = d1
    d2 = d2
    d3 = d3
    h1 = h1
    h2 = h2
    r1 = r1
    r2 = r2
    None = None
    Tasks = {t1}
    Checks = {}
    Deliveries = {d1}
    Target <- OneDispatch
    Handlers = {h1}
    Recoverers = {r1, r2}
    MaxLate = 0
    MaxCrashes = 1
CHECK_DEADLOCK FALSE
INVARIANTS
  FailedIsTrue
