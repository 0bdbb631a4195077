CONSTANTS
  D0 = D0  D1 = D1  W1 = W1  W2 = W2
  T_IN = T_IN  T_OUT = T_OUT  NoData = NoData
  Sectors = {0, 1}
  InitDisk <- MCInitDisk
  WriteValues = {W1, W2}
  Values = {D0, D1, W1, W2}
  InitIdx <- MCInitIdx
  DeviceMayFail = TRUE
  MaxCalls = 3
  MaxTimeouts = 0
SPECIFICATION SpecNoTimeout
INVARIANT TypeOK
PROPERTY BlockDeviceSpec
INVARIANT IndicesAgree
