SPECIFICATION Spec
CONSTANTS
  Avps <- MCAvps
  Named <- MCNamed
  ExpLimit = 3
  MaxEntries = 4
INVARIANTS
  LastEntryDecides
  EnumNamesAddUp
  NamesKeptApart
