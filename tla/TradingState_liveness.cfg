SPECIFICATION FairSpec
CONSTANTS
  ch = ch
  d1 = d1
  d2 = d2
  nq = nq
  t1 = t1
  t2 = t2
  m1 = m1
  m2 = m2
  m3 = m3
  None = None
  Channels = {ch}
  Days = {d1, d2}
  Instruments = {nq}
  Terms = {t1, t2}
  Messages = {m1, m2}
  Contents <- LiveContents
  MaxStored = 2
  MaxCrashes = 1
  ReportStates = {"SUCCEEDED", "UNKNOWN"}
  LateReports = TRUE
  StaleDelivery = TRUE
  ChannelOf <- MCChannelOf
PROPERTIES
  SettledUnlessTakenBack
  ClosedStaysClosed
  EveryVersionProcessed
  MessagesStayInTheirBook
