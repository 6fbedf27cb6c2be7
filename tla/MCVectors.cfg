SPECIFICATION VecSpec
CONSTANTS
  PAGE = 4
  ALIGN = 2
  Configs <- MCConfigs
  Blocks = {v1, v2, b1}
  Vecs = {v1, v2}
  Nobody = Nobody
  Sizes <- MCSizes
  ResetsUnused = FALSE
  HEADER = 1
  ELEM = 1
  QUOSIDS_INIT_LEN = 2
  Adds <- MCAdds
INVARIANTS TypeOK Intact Accounted Usable Elements Amortised
PROPERTIES KeepsContract
CHECK_DEADLOCK FALSE
