SPECIFICATION FairSpec
CONSTANTS
  MaxWork = 2
  MaxDrops = 4
  MaxDeaths = 1
CHECK_DEADLOCK FALSE
INVARIANTS TypeOK NoneSkipped CursorIsReal
PROPERTIES ImplementsNews OutcomeArrives
