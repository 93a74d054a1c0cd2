SPECIFICATION Spec
CONSTANTS
  MAX_TERMINALS = 3
  NUM_ROWS = 3
  Windows <- NoWindow
INVARIANTS MapInv OwnText
PROPERTY LogicalScreens
