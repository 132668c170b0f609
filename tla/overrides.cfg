SPECIFICATION Spec
CONSTANTS
  DeviceIni <- Devices
  SystemIni <- Systems
  Overrides <- ChannelOption
  Memory = {1, 2, 3, 8}
  MEG = 16
INVARIANTS
  OverridesActAsIni
CHECK_DEADLOCK FALSE
