SPECIFICATION FairSpec
CONSTANTS
  MaxTurns = 1
  MaxReplies = 1
  Jobs = {j1}
  Cues <- Happy
  Contexts <- Other
  Coverage <- Partial
  Overlap = FALSE
CHECK_DEADLOCK FALSE
INVARIANT ActivitiesEnd
PROPERTY ThinkingEnds
