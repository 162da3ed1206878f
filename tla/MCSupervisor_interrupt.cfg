SPECIFICATION Spec
CONSTANTS
  PublicSockets <- MC_PublicSockets
  Intruded <- MC_Intruded
INVARIANTS
  NoOrphans
CHECK_DEADLOCK FALSE
