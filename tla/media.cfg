SPECIFICATION FairSpec
CONSTANTS
  Posts = {p1, p2}
  Jobs = {w}
  Requests = {a}
  Schedulers = {s1, s2}
  None = None
  Segments = 2
  Cap = 2
  Limit = 1
  Casts = {{w, a, s1}, {p1, w, s1}, {p1, p2, s1}, {p1, s1, s2}, {w, s1, s2}}
  MaxDeaths = 1
CHECK_DEADLOCK FALSE
INVARIANTS TypeOK AnnouncedIsServed OrphansFromWriters
PROPERTY BacklogClears
