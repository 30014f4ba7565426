SPECIFICATION FairSpec
CONSTANTS
  Posts = {p1, p2}
  Jobs = {w}
  Requests = {a}
  Schedulers = {s1, s2}
  None = None
  Segments = 1
  Cap = 1
  Limit = 1
  Casts = {{p1, p2, s1}}
  MaxDeaths = 0
CHECK_DEADLOCK FALSE
PROPERTY RecordingsPass
