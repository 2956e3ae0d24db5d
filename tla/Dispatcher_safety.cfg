SPECIFICATION Spec
CONSTANTS
    t1 = t1
    c1 = c1
    d1 = d1
    d2 = d2
    d3 = d3
    h1 = h1
    h2 = h2
    r1 = r1
    r2 = r2
    None = None
    Tasks = {t1}
    Checks = {c1}
    Deliveries = {d1, d2, d3}
    Target <- TwoAndACheck
    Handlers = {h1, h2}
    Recoverers = {r1}
    MaxLate = 1
    MaxCrashes = 1
SYMMETRY Symmetry
CHECK_DEADLOCK FALSE
INVARIANTS
  TypeOK
  OneRunAtATime
  AcceptedOnce
  CompletedIsTrue
PROPERTIES
  SettledStays
  ImplementsDispatchOnce
