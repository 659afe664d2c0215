\* The interrupt of a transfer that follows i2c_configure(true).
SPECIFICATION FairSpec
CONSTANTS
  ResetDivisor = 6
  Device = 186
  Divisor = 4
  Size = 2
  Calls <- MCCalls
  MaxCalls = 2
  DeviceBytes = {165, 90}
PROPERTIES InterruptComes
