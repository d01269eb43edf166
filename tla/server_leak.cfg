SPECIFICATION FairSpec
CONSTANTS
  north = north
  south = south
  food = food
  drug = drug
  Nothing = Nothing
  NoThread = NoThread
  AlertListener = AlertListener
  Main = Main
  Workers = {w1}
  Listeners = {l1}
  Items = {food}
  Amounts = {5}
  Kinds = {"setsupplies"}
  Locations <- OneEntry
  Entries <- OneSensor
  SeedAlerts <- MCSeedAlerts
  SeedSupplies <- MCSeedSupplies
  StartStores <- Seeded
  Bodies <- AnyBodies
  Keys = {k1}
  QueueCap = 2
  MinTemperature = 37
  MaxTemperature = 39
  HighTemperature = 37
  MaxAlerts = 1
  MaxRuns = 1
PROPERTY EmergencyEndsServer
CHECK_DEADLOCK FALSE
