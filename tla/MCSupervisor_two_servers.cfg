SPECIFICATION Spec
CONSTANTS
  PublicSockets <- MC_PublicSockets
  Intruded <- MC_Intruded
PROPERTIES
  OnlyOwnSocketsRemoved
CHECK_DEADLOCK FALSE
