SPECIFICATION Spec
CONSTANTS
  Maps <- Machines
  Starts <- Dates
  MaxTicks = 3
INVARIANTS ReadsAllowed LoadedWhole FreeInTable NothingLoadedIsFree StartsRight
PROPERTY BootEnds
