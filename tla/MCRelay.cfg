SPECIFICATION RelaySpec
CONSTANTS
  B = 8
  EpochShift = 3000
  Dictionary <- MCDictionary
  Headers <- MCHeaders
  Leaves <- MCLeaves
  EnumNames <- MCEnumNames
  Sprint <- MCSprint
  Groups <- MCGroups
  IntValues <- MCIntValues
  LineBreak = 3
  LineTexts <- MCLineTexts
  MaxAvps = 2
  MaxDepth = 2
  MaxChange = 60
INVARIANTS
  RoundTrip
  RelayedUnchanged
  WholeWords
  HeaderOnTheWire
  ChangedOnly
  PrintedInFull
