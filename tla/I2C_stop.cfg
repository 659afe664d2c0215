\* The STOP the driver asks for when a byte is refused.
SPECIFICATION FairSpec
CONSTANTS
  ResetDivisor = 6
  Device = 186
  Divisor = 4
  Size = 2
  Calls <- MCCalls
  MaxCalls = 2
  DeviceBytes = {165, 90}
PROPERTIES StopIsSent
