SPECIFICATION Spec
CONSTANTS
  MAX_TERMINALS = 2
  MAX_BUFFER_LENGTH = 2
  ScanCodes = {14, 15, 28, 29, 38, 56, 59, 60}
  Windows = {}
  Careful = TRUE
  Prompting = TRUE
INVARIANTS TypeOK InTable InBuffer
PROPERTY OwnLines
