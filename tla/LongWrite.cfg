SPECIFICATION FairSpec
CONSTANTS
  NUM_ROWS = 3
  NUM_COLS = 6
  MAX_BUFFER_LENGTH = 3
  BYTE = 16
  MAX_INPUT_BUF_LEN = 4
  Texts <- Long
  Usage = {}
PROPERTIES WriteEnds
