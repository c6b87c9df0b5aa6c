SPECIFICATION DeviceSpec
CONSTANTS
  Slots = 2
  Rows = 4
  Setups <- MCSetups
  MaxLost = 2
  MaxInbox = 3
  Bindings = 2
  SubBindings = 4
  Senders = {s1, s2}
  MessageIds = {1, 2}
  Parts = 2
  MaxParts = 3
  SubDevices = {d1, d2}
INVARIANTS OneConnection WorkMeansSession  PartsApart SubKeysKept
 
CHECK_DEADLOCK FALSE
