CONSTANT N = 3
SPECIFICATION Spec
INVARIANTS OccupiedByAFlight
