\* Three calls of the driver, a device that may refuse any byte.
SPECIFICATION FairSpec
CONSTANTS
  ResetDivisor = 6
  Device = 186
  Divisor = 4
  Size = 2
  Calls <- MCCalls
  MaxCalls = 3
  DeviceBytes = {165, 90}
INVARIANTS TypeOK Delivered CommandStands AckIsFresh PollingIsQuiet
PROPERTIES BusConditions CallReturns
