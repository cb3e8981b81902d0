SPECIFICATION Spec
CONSTANTS
  Files <- MCTwoFiles
  AvpLines <- MCAvpLines
  HeadPairs <- MCPairs
  PlainExprs <- MCPlainExprs
  PlainPairs <- MCPlainPairs
  Texts = {"0", "21670", "10.0.0.1"}
  Readable <- MCReadable
  UserLocs = {"21670"}
  Params = {"user_location"}
  MaxLevel = 3
  MaxRows = 5
INVARIANTS
  FilledAsDrawn
