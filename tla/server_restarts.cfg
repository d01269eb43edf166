SPECIFICATION Spec
CONSTANTS
  north = north
  south = south
  food = food
  drug = drug
  Nothing = Nothing
  NoThread = NoThread
  AlertListener = AlertListener
  Main = Main
  Workers = {w1}
  Listeners = {l1, l2}
  Items = {food}
  Amounts = {5}
  Kinds = {"setsupplies"}
  Locations <- OneEntry
  Entries <- OneSensor
  SeedAlerts <- MCSeedAlerts
  SeedSupplies <- MCSeedSupplies
  StartStores <- Seeded
  Bodies <- GoodBodies
  k1 = k1
  k2 = k2
  Keys = {k1, k2}
  QueueCap = 1
  MinTemperature = 37
  MaxTemperature = 39
  HighTemperature = 37
  MaxAlerts = 1
  MaxRuns = 3
SYMMETRY QueueSymmetry
INVARIANT ProofInvariant
INVARIANT OrderlyEndLeavesNoQueue
INVARIANT EmergencyHandledOnce
PROPERTY StaleOnlyAfterKill
PROPERTY ImplementsStore
CHECK_DEADLOCK FALSE
