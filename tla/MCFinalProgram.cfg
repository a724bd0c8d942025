CONSTANTS
  N = 3
  StartAlt = 4
SPECIFICATION Spec
INVARIANTS NoCircularWait DescentNeverBlocked OrderlyShutdown
PROPERTIES ImplementsArrivals Terminates
