SPECIFICATION Spec
CONSTANTS
  ch = ch
  d1 = d1
  d2 = d2
  nq = nq
  t1 = t1
  t2 = t2
  m1 = m1
  m2 = m2
  m3 = m3
  None = None
  Channels = {ch}
  Days = {d1}
  Instruments = {nq}
  Terms = {t1, t2}
  Messages = {m1, m2}
  Contents <- ReplaceContents
  MaxStored = 2
  MaxCrashes = 0
  ReportStates = {"SUCCEEDED", "FAILED"}
  LateReports = FALSE
  StaleDelivery = FALSE
  ChannelOf <- MCChannelOf
INVARIANTS
  ReplacementAfterEveryCancel
