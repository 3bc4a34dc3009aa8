\* Two clients over three ticks and a ttl of two; the wall clock is set once.
SPECIFICATION Spec
CONSTANTS
  Clients = {c1, c2}
  Files <- MCFiles
  Path <- MCPath
  Extensions <- MCExtensions
  Setups <- MCSetups
  AgyPaths <- MCAgyPaths
  Ttl = 2
  MaxTime = 3
  MaxSets = 1
SYMMETRY Symmetry
INVARIANT TypeOK
PROPERTIES
  ListsAreGenuine
  AgyAskedUnlessRecent
