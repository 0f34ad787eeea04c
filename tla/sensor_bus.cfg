SPECIFICATION Spec
CONSTANTS
  Sensor <- MCSensor
  Place <- MCPlace
  Registries <- MCRegistries
  Power = "cpu_power"
  Simulated <- MCSimulated
  Ttl = 2
  PeerTtl = 2
  Timeout = 1
  MinDt = 1
  Range = 3
  MaxPower = 2
  End = 5
INVARIANTS
  TypeOK
  Fresh
  EnergyHonest
PROPERTIES
  PowerUpToDate
CHECK_DEADLOCK FALSE
