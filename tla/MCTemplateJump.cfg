SPECIFICATION Spec
CONSTANTS
  Files <- MCOneFile
  AvpLines <- MCPlainLines
  HeadPairs <- MCPlainPairs
  PlainExprs <- MCPlainExprs
  PlainPairs <- MCPlainPairs
  Texts = {"1"}
  Readable <- MCReadable
  UserLocs = {"21670"}
  Params = {"user_location"}
  MaxLevel = 2
  MaxRows = 3
INVARIANTS
  NoLineDropped
