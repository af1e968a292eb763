CONSTANTS
  DeviceBlocks = 2
  LogicalBlocks = 3
  MaxCount = 2
  MaxJoined = 4
  MaxExtents = 3
  MaxList = 4
  Word = 11
  MaxInodes = 2
  MaxLinks = 2
  MaxSize = 8
  MaxTarget = 2
  MaxName = 2
  MaxValues = 4
  MaxEntries = 2
  Strings <- MCStrings
  MaxCoded = 2
  MaxSet = 3
SPECIFICATION CodecsSpec
CHECK_DEADLOCK FALSE
INVARIANTS
  NormalizeMeans
  VerifyMeansCanonical
  RecordsReadBack
  AttributesRefusedInTotal
  RecordsOneForm
