CONSTANTS
  None = None
  I64_MAX = 3
  Value <- Unsigned
  Filters <- UnsignedFilters
  Second = 2
  MaxElapsed = 4
  MaxLate = 3
  MaxSetClock = 1
SPECIFICATION Spec
PROPERTY ChangedByAtLeast
