SPECIFICATION Spec
CONSTANTS
  c1 = c1
  c2 = c2
  g1 = g1
  None = None
  Callers = {c1, c2}
  Grants = {g1}
  Hashes <- MCHashes
  Bindings <- MCBindings
  Confirmed <- MCConfirmedSet
  MaxTtl = 1
  MaxTime = 2
  MaxCrashes = 1
  MaxFaults = 1
SYMMETRY Symmetry
INVARIANTS
  ConsumedIsBound
PROPERTIES
  ImplementsOneShot
