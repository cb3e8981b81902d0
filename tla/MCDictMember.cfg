SPECIFICATION Spec
CONSTANTS
  Avps <- MCShipped
  Named <- MCNamed
  ExpLimit = 3
  MaxEntries = 3
INVARIANTS
  EnumNamesOfFiles
