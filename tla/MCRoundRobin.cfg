CONSTANTS
  N = 3
  StartAlt = 4
SPECIFICATION Spec
INVARIANTS TypeOK TurnsInOrder NoStrandedTurn
PROPERTIES ImplementsTurnOrder Terminates
