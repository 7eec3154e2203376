SPECIFICATION Spec
CONSTANTS
  Maps <- LargeRoms
  Starts <- OneDate
  MaxTicks = 0
INVARIANT FreeIsRam
