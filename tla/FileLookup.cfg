SPECIFICATION Spec
CONSTANTS
  BYTE = 8
  WORDSIZE = 4
  HEADER = 10
  Programs <- MCPrograms
  Names <- MCNames
  Unset = Unset
INVARIANTS FindsNamed
