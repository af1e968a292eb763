CONSTANTS
  Names = {"a", "b"}
  MaxInodes = 3
  MaxEntries = 8
  MaxLinks = 2
SPECIFICATION Spec
INVARIANT CleanHasEmptyPlan
