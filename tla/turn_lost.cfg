SPECIFICATION FairSpec
CONSTANTS
  MaxTurns = 1
  Reqs = {h1}
  Clients = {c1}
  VoiceInputs <- Text
  SpeakInputs <- Silent
  SupersedeInputs <- Never
  MaxSegs = 0
  MaxTries = 3
  MaxFaults = 1
CHECK_DEADLOCK FALSE
PROPERTY TurnsClose
