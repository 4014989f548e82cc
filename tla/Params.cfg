SPECIFICATION ParamsSpec
CONSTANTS
  Settings = {s1, s2}
  NoValue = NoValue
INVARIANTS TypeOK VehicleKept OneGoodCopy
