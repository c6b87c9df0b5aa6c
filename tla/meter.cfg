SPECIFICATION MeterSpec
CONSTANTS
  Setups <- MCSetups
  MS100 = 2
  MS200 = 3
  V_OVERFLOW = 4
  S1 = 5
  I_OVERFLOW = 6
  P_OVERFLOW = 7
  VTime0 = 5
  VTime = 3
  ITime = 7
  S6 = 6
  CAL_TIME = 3
  Ref = 2
  CntWrap = 4
  EnergyWrap = 2
  TimerWrap = 100
  Burst = 1
  TurnsPerTick = 2
INVARIANTS VendorSingleCycle CountedMeansFast PowerServed ReadsWhole EnergyCounted
PROPERTIES LoadOffShown CalibrationEnds
