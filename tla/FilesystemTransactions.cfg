CONSTANTS
  Values = {0, 1}
  Capacity = 1
  MaxRecords = 3
  MaxInodes = 2
  InodeCapacity = 1
SPECIFICATION Spec
PROPERTY TransactionCanEnd
