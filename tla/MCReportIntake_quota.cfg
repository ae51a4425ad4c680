\* One post more than the limit, two server processes.
SPECIFICATION Spec
CONSTANTS
  s1 = s1
  s2 = s2
  o1 = o1
  k1 = k1
  Attempt = {a1, a2}
  Reporter = {s1, s2}
  Officer = {o1}
  Nobody = Nobody
  Key = {k1}
  NoKey = NoKey
  Blank = Blank
  NoReport = NoReport
  Process = {p1, p2}
  Limit = 1
  MaxHour = 0
  Department <- MCDepartment
  Head <- MCHead
  Member <- MCMember
  Job <- QuotaJob
SYMMETRY AttemptSymmetry
INVARIANTS QuotaHolds
