\* --to is a MAC, and the log does not know the device.
SPECIFICATION Spec
CONSTANTS
  d1 = d1
  d2 = d2
  Devices = {d1, d2}
  Discoverable = {d1, d2}
  Tos <- MCMacTos
  None = None
  AfLog = FALSE
  Attempts = 2
  OpTimeout = 2
  Timeout = 4
  Resolve = 3
  Ops = 2
  MaxSession = 0
  MaxLost = 0
  MaxFrames = 0
INVARIANT NamedIsChosen
