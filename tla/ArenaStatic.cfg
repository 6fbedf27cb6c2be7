SPECIFICATION Spec
CONSTANTS
  PAGE = 4
  ALIGN = 2
  Configs <- MCConfigs
  Blocks = {b1, b2, b3}
  Nobody = Nobody
  Sizes <- MCSizes
  ResetsUnused = FALSE
SYMMETRY Interchangeable
INVARIANTS StaticIsFixed
CHECK_DEADLOCK FALSE
