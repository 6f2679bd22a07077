CONSTANTS
  OctetBits = 2
  Line <- MCLine
  Probe <- MCProbe
  MaxLines = 3
  MaxDevices = 3
  AddressBits = 2
  Net <- MCNet
  NoNet = NoNet
  Frame <- MCFrame
  NoFrame = NoFrame
  Burst = 2
SPECIFICATION PacketSpec
INVARIANTS NarrowMatched OnlyListed HandlesExact
PROPERTIES Onward RightCall EveryDeviceServed
CHECK_DEADLOCK FALSE
