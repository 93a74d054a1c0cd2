SPECIFICATION FairSpec
CONSTANTS
  NUM_ROWS = 3
  NUM_COLS = 4
  MAX_BUFFER_LENGTH = 6
  BYTE = 16
  MAX_INPUT_BUF_LEN = 3
  Texts <- Tame
  Usage = {}
INVARIANTS TypeOK ScreenShows PlaceInv
PROPERTIES WriteEnds
