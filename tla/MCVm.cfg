SPECIFICATION Spec
CONSTANTS
  U32 = 64
  WORD = 4
  BYTE = 4
  StackSize = 3
  QueueSize = 2
  Keys <- MCKeys
  Modules <- MCModules
INVARIANTS TypeOK Contained AnswerOffered
CHECK_DEADLOCK FALSE
