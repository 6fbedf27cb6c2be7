SPECIFICATION Spec
CONSTANTS
  U32 = 64
  WORD = 16
  BYTE = 4
  StackSize = 4
  QueueSize = 4
  Alphabet <- MCAlphabet
  MaxTokens = 4
  Drafts <- MCDrafts
  Originals <- MCOriginals
  Tokens <- MCTokens
  Finals <- MCFinals
PROPERTIES Closed
CHECK_DEADLOCK FALSE
