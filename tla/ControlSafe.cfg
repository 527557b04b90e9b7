CONSTANTS
  None = None
  NoObject = NoObject
  Unit = {0, 1, 2, 3}
  Device <- MCDevice
  Configs <- MCConfigs
  Targets <- MCTargets
  Self = "near"
  Circuit <- MCCircuit
  DhwLimits <- MCDhwLimits
  DhwDefault = 2
  AirRange <- MCAirRange
  WaterRange <- MCWaterRange
  WeatherRange <- MCWeatherRange
SPECIFICATION Spec
INVARIANT TypeOK
INVARIANT ConfirmedOrUnavailable
INVARIANT RemembersWhatItTurnedOff
INVARIANT OffShowsNoTarget
PROPERTY KeepsLastKnown
