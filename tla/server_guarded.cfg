SPECIFICATION FairSpec
CONSTANTS
  north = north
  south = south
  food = food
  drug = drug
  Nothing = Nothing
  NoThread = NoThread
  AlertListener = AlertListener
  Main = Main
  Workers = {w1, w2}
  Listeners = {l1}
  Items = {food}
  Amounts = {5}
  Kinds = {"setsupplies"}
  Locations <- TwoEntries
  Entries <- TwoSensors
  SeedAlerts <- MCSeedAlerts
  SeedSupplies <- MCSeedSupplies
  StartStores <- Seeded
  Bodies <- GoodBodies
  Keys = {k1}
  QueueCap = 1
  MinTemperature = 37
  MaxTemperature = 39
  HighTemperature = 37
  MaxAlerts = 3
  MaxRuns = 1
INVARIANT AlertsConserved
PROPERTY EmergencyEndsServer
CHECK_DEADLOCK FALSE
