\* A well-formed status_update or chat_message frame.
SPECIFICATION Spec
CONSTANTS
  r1 = r1
  R1 = R1
  Conn = {c1}
  Report = {r1}
  Assigned = {}
  Variant = {R1}
  NoReport = NoReport
  Unknown = Unknown
  Malformed = Malformed
  Client <- MCClient
  Capacity = 1
  MaxEvents = 1
INVARIANTS FramesPass
