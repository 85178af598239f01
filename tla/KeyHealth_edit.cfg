SPECIFICATION Spec
CONSTANTS
  k1 = k1
  k2 = k2
  k3 = k3
  Keys = {k1, k2}
  Checks = {t1, t2}
  EnvKeys <- TwoKeys
  MaxKeys = 2
  MaxStored = 3
  Threshold = 2
  Toggling = TRUE
  Editing = TRUE
  NoKey = NoKey
SYMMETRY Symmetry
INVARIANTS DisabledAfterStrikes KeysOfOneStore
PROPERTIES JudgedKeyOnly EnoughStrikes
