CONSTANTS
  None = None
  I64_MAX = 3
  Value <- MCValue
  Filters <- MCFilters
  Second = 2
  MaxElapsed = 4
  MaxLate = 3
  MaxSetClock = 1
SPECIFICATION FairSpec
INVARIANT TypeOK
PROPERTY Spaced
PROPERTY EventuallyCurrent
PROPERTY FiltersDecide
