SPECIFICATION FairSpec
CONSTANTS
  MaxTurns = 2
  Reqs = {h1}
  Clients = {c1, c2}
  VoiceInputs <- Voice
  SpeakInputs <- Silent
  SupersedeInputs <- Either
  MaxSegs = 0
  MaxTries = 1
  MaxFaults = 0
CHECK_DEADLOCK FALSE
INVARIANTS OneOpenTurn OpenTurnOwned
PROPERTIES TurnsClose StreamsClose
