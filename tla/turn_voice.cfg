SPECIFICATION Spec
CONSTANTS
  MaxTurns = 1
  Reqs = {h1, h2}
  Clients = {c1}
  VoiceInputs <- Voice
  SpeakInputs <- Spoken
  SupersedeInputs <- Either
  MaxSegs = 3
  MaxTries = 3
  MaxFaults = 3
CHECK_DEADLOCK FALSE
INVARIANTS ReplyPerTry OneLateSegment VoiceIsTransient
