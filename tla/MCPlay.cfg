SPECIFICATION PlaySpec
CONSTANTS
  U32 = 256
  WORD = 3
  BYTE = 16
  StackSize = 4
  QueueSize = 5
  Keys <- MCKeys
  Modules <- MCModules
  data_lkp <- MCSymbols
  speaker_lkp <- MCSpeakers
INVARIANTS Balanced NoFault IInv
PROPERTIES Implements ExecReturns
