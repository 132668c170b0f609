SPECIFICATION Spec
CONSTANTS
  DeviceIni <- Devices
  SystemIni <- Systems
  Overrides <- NoGeometryOption
  Memory = {1, 2, 3, 8}
  MEG = 16
INVARIANTS
  LinesFillTheMemory
  MapsAsCommented
  SentWhereAsked
CHECK_DEADLOCK FALSE
