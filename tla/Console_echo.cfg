SPECIFICATION Spec
CONSTANTS
  COLS = 3
  ROWS = 3
  BANNER = 2
  Lengths <- Strings
  MaxKeys = 2
  Blank = Blank
  KernelChar = KernelChar
  KeyChar = KernelChar
INVARIANTS OnScreen OverrunBounded TurnsOnce FreshLine TextStands
