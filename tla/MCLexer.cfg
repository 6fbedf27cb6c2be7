SPECIFICATION Spec
CONSTANTS
  Texts <- MCTexts
  Eofs = 2
INVARIANTS TypeOK InText StopsAtNUL LexedAsWritten
PROPERTIES Returns
CHECK_DEADLOCK FALSE
