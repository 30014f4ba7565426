SPECIFICATION FairSpec
CONSTANTS
  MaxTurns = 2
  MaxReplies = 1
  Jobs = {}
  Cues <- None
  Contexts <- Keep
  Coverage <- Bare
  Overlap = TRUE
CHECK_DEADLOCK FALSE
PROPERTY ThinkingEnds
