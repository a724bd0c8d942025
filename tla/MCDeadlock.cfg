CONSTANTS
  N = 3
  Lock = {"runway", "taxiway"}
  RunwayLock = "runway"
  Path <- MixedPath
SPECIFICATION Spec
INVARIANTS StuckOnlyInCircularWait
PROPERTIES FreezeIsPermanent LandOrFreeze
\* the program really stops in a circular wait
CHECK_DEADLOCK FALSE
