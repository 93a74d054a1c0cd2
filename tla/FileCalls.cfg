SPECIFICATION Spec
CONSTANTS
  BLOCK_BYTES = 2
  WORD = 8
  FD_ARRAY_LENGTH = 4
  dot = dot
  rtc = rtc
  long = long
  short = short
  missing = missing
  s1 = s1
  a1 = a1
  NoArg = NoArg
  Blank = Blank
  Names <- SmallNames
  Dentries <- SmallDentries
  Inodes <- SmallInodes
  Blocks <- SmallBlocks
  Slots <- OneSlot
  Sizes <- Lengths
  LineLengths <- Typed
  Commands <- Plain
INVARIANT FdInv
PROPERTY KeepsPromise
