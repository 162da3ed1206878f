SPECIFICATION Spec
CONSTANTS
  PublicSockets <- MC_PublicSockets
  Intruded <- MC_Intruded
INVARIANTS
  ReturnIsClean
PROPERTIES
  HandlerGoesFirst
  ForeignFilesAreKept
  SupervisorTerminates
CHECK_DEADLOCK FALSE
