SPECIFICATION Spec
CONSTANTS
  KBD_BUF_SIZE = 5
  Shifts <- ShiftKeys
  Keys <- LetterOnly
INVARIANT ShiftFollows
PROPERTY ShiftComesOff
