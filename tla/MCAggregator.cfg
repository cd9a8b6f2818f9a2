SPECIFICATION FairSpec
CONSTANTS
  c1 = c1
  c2 = c2
  m1 = m1
  m2 = m2
  e1 = e1
  e2 = e2
  e3 = e3
  Connection = {c1, c2}
  NicOf <- MCNicOf
  PluginOf <- MCPluginOf
  Measurement = {m1, m2}
  Event = {e1, e2, e3}
  SourceOf <- MCSourceOf
  LengthOf <- MCLengthOf
  Parsable = {e1, e3}
  LogSize = 2
  Cap = 3
INVARIANTS
  TypeOK
  SizesMatchQueues
  ReaderVisitsLive
  DeletionLosesNothing
  EventsOnceInOrder
  LastReportComplete
PROPERTIES
  EverythingReported
CHECK_DEADLOCK FALSE
