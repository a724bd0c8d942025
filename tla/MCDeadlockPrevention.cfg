CONSTANTS
  N = 4
  Lock = {"runway", "taxiway"}
  RunwayLock = "runway"
  Path <- SafePath
SPECIFICATION Spec
INVARIANTS NoCircularWait MutexOwnership
PROPERTY ImplementsRunway
