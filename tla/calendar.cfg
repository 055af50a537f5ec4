SPECIFICATION WallSpec
CONSTANTS
  FirstYear <- MCFirstYear
  LastYear = 2401
  MaxDay = 24000
INVARIANTS LabelExact ExpiryExact
CHECK_DEADLOCK FALSE
