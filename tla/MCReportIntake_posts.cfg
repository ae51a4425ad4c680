\* Two attempts race, every pair of jobs; one server process; the limit is reached
\* and lifted.
SPECIFICATION FairSpec
CONSTANTS
  s1 = s1
  s2 = s2
  o1 = o1
  k1 = k1
  Attempt = {a1, a2}
  Reporter = {s1, s2}
  Officer = {o1}
  Nobody = Nobody
  Key = {k1}
  NoKey = NoKey
  Blank = Blank
  NoReport = NoReport
  Process = {p1}
  Limit = 1
  MaxHour = 1
  Department <- MCDepartment
  Head <- MCHead
  Member <- MCMember
  Job <- MCJob
INVARIANTS TypeOK CreatedWhole IdempotentAnswers AnnouncedIfStored QuotaHolds
PROPERTIES FiledOnce EveryAttemptAnswered
