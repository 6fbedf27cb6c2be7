SPECIFICATION Spec
CONSTANTS
  PAGE = 4
  ALIGN = 2
  Configs <- MCConfigs
  Blocks = {b1, b2, b3}
  Nobody = Nobody
  Sizes <- MCSizes
  ResetsUnused = TRUE
SYMMETRY Interchangeable
INVARIANTS Usable
CHECK_DEADLOCK FALSE
