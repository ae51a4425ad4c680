\* Two requests race, on one report or on two; every job: three statuses, two
\* officers, with and without a version.
SPECIFICATION FairSpec
CONSTANTS
  o1 = o1
  o2 = o2
  r1 = r1
  Report = {r1, r2}
  Request = {q1, q2}
  Status = {new, ack, resolved}
  New = new
  Officer = {o1, o2}
  Nobody = Nobody
  NoVersion = NoVersion
  NoRequest = NoRequest
  Contact <- MCContact
  Chosen <- MCChosen
INVARIANTS TypeOK AuditExplainsRow StaleClientRefused BoardShowsStatus AssigneeAlerted
PROPERTIES KeepsPromise EveryRequestAnswered
