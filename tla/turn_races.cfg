SPECIFICATION Spec
CONSTANTS
  MaxTurns = 2
  Reqs = {h1, h2}
  Clients = {c1, c2}
  VoiceInputs <- Text
  SpeakInputs <- Silent
  SupersedeInputs <- Either
  MaxSegs = 0
  MaxTries = 1
  MaxFaults = 0
CHECK_DEADLOCK FALSE
INVARIANTS TypeOK EventsFollowCommit SeqsUnique
PROPERTIES TerminalStays ImplementsPromise
