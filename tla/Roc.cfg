SPECIFICATION FairSpec
CONSTANTS
  Vifs = {s1, p1}
  Stations = {s1}
  Chans = {c1, c2}
  Budgets <- Mixed
INVARIANTS
  TypeOK
  NotifOfThisRoc
  ReadyMeansOnChannel
  RocIsOwned
  ScanTracked
PROPERTY
  RequestsEnd
