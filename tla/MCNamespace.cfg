CONSTANTS
  Names = {a, b}
  MaxInodes = 3
  MaxEntries = 9
  MaxLinks = 2
SYMMETRY NameSymmetry
SPECIFICATION Spec
INVARIANTS
  TypeOK
  Verified
  LinksCounted
  NoInodeLost
  ReportsFitNames
PROPERTIES
  OneNameAtATime
  OnlyRenameCutsOff
