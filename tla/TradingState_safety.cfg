SPECIFICATION Spec
CONSTANTS
  ch = ch
  d1 = d1
  d2 = d2
  nq = nq
  t1 = t1
  t2 = t2
  m1 = m1
  m2 = m2
  m3 = m3
  None = None
  Channels = {ch}
  Days = {d1}
  Instruments = {nq}
  Terms = {t1, t2}
  Messages = {m1, m2, m3}
  Contents <- MCContents
  MaxStored = 3
  MaxCrashes = 1
  ReportStates = {"SUCCEEDED", "UNKNOWN"}
  LateReports = FALSE
  StaleDelivery = FALSE
  ChannelOf <- MCChannelOf
SYMMETRY MessageSymmetry
INVARIANTS
  TypeOK
  CancelInSyncInv
  PositionsInv
  ReplacementInv
  SessionsInv
  OneCommandInv
  OneIntentPerInstruction
PROPERTIES
  ClosedSessionsTakeNoOrders
  ReplayChangesNothing
  ImplementsCancelReplace
