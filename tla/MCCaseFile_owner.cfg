\* The same instance, for the upload of the one who filed the report.
SPECIFICATION Spec
CONSTANTS
  student = student
  staff = staff
  officer = officer
  admin = admin
  system = system
  dept = dept
  r1 = r1
  r2 = r2
  q1 = q1
  q2 = q2
  q3 = q3
  User = {student, staff, officer, admin, system}
  Role <- MCRole
  Department = {dept}
  Head <- MCHead
  Member <- MCMember
  Nobody = Nobody
  Values <- MCValues
  Report = {r1, r2}
  Request = {q1, q2, q3}
  Filing <- MCFiling
  Plan <- MCPlan
  PageSize = 1
  MaxChange = 2
INVARIANTS OwnersAddEvidence
