\* One connection of every kind, two reports of which one is assigned, three
\* broadcasts, a queue of two messages.
SPECIFICATION FairSpec
CONSTANTS
  r1 = r1
  R1 = R1
  Conn = {c1}
  Report = {r1, r2}
  Assigned = {r2}
  Variant = {R1}
  NoReport = NoReport
  Unknown = Unknown
  Malformed = Malformed
  Client <- MCClient
  Capacity = 2
  MaxEvents = 3
INVARIANTS TypeOK ToldOnce NothingMissed LeftMeansLeft
PROPERTIES QueuedIsShown
