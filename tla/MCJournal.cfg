CONSTANTS
  MaxRecords = 5
  MaxNumber = 8
  Images <- MCImages
  Alphabet <- MCAlphabet
  MaxInput = 4
  Word = 16
  MaxPayload = 2
  MaxSaved = 3
SPECIFICATION CodecSpec
CHECK_DEADLOCK FALSE
INVARIANTS
  Reloadable
  NumbersFresh
  ReadersAgree
  JournalReadBack
  JournalOneForm
  ReadsWithin
PROPERTY BoundedLog
