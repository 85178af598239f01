SPECIFICATION Spec
CONSTANTS
  k1 = k1
  k2 = k2
  k3 = k3
  Keys = {k1, k2}
  Checks = {t1}
  EnvKeys <- OneKey
  MaxKeys = 2
  MaxStored = 3
  Threshold = 3
  Toggling = FALSE
  Editing = TRUE
  NoKey = NoKey
PROPERTY OnlyConfirmed
