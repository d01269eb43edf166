SPECIFICATION Spec
CONSTANTS
  north = north
  south = south
  food = food
  drug = drug
  Nothing = Nothing
  NoThread = NoThread
  AlertListener = AlertListener
  Main = Main
  Workers = {w1, w2}
  Listeners = {l1}
  Items = {food, drug}
  Amounts = {5}
  Kinds = {"supplies", "database", "deletesupplies", "initdb", "setsupplies"}
  Locations <- OneEntry
  Entries <- OneSensor
  SeedAlerts <- MCSeedAlerts
  SeedSupplies <- MCSeedSupplies
  StartStores <- FreshOrSeeded
  Bodies <- AnyBodies
  Keys = {k1}
  QueueCap = 1
  MinTemperature = 37
  MaxTemperature = 39
  HighTemperature = 37
  MaxAlerts = 1
  MaxRuns = 1
SYMMETRY WorkerSymmetry
INVARIANT TypeOK
INVARIANT PermitExcludes
INVARIANT CopyIsCurrent
INVARIANT ReportConsistent
PROPERTY ImplementsStore
PROPERTY ImplementsHttp
PROPERTY LeakedOnlyByFailedSet
PROPERTY FailureNeedsCause
CHECK_DEADLOCK FALSE
