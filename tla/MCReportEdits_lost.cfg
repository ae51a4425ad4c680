\* Two checked edits race between the fetch and the UPDATE.
SPECIFICATION Spec
CONSTANTS
  o1 = o1
  o2 = o2
  r1 = r1
  Report = {r1}
  Request = {q1, q2}
  Status = {new, ack, resolved}
  New = new
  Officer = {o1, o2}
  Nobody = Nobody
  NoVersion = NoVersion
  NoRequest = NoRequest
  Contact <- MCContact
  Chosen <- MCChosen
SYMMETRY RequestSymmetry
INVARIANTS NoLostUpdate
