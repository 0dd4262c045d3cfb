SPECIFICATION Spec
CONSTANTS
  Programs <- SmallPrograms
  MaxClock = 5
  MaxOdd = 1
INVARIANT TypeOK
INVARIANT AttributionIsTrue
CHECK_DEADLOCK FALSE
