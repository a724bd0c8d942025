CONSTANTS
  ann = ann
  bob = bob
  f = f
  g = g
  Username = {"root", ann, bob}
  Gid <- MCGid
  FileName = {f, g}
  MaxUsers = 3
  MaxFiles = 2
  UidBound = 1004
SPECIFICATION Spec
SYMMETRY Symmetry
INVARIANTS DecisionsAreLogged
