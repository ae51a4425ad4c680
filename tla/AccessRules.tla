---------------------------- MODULE AccessRules ----------------------------
(***************************************************************************)
(* Who may do what with a report.  The code states the rule five times: in *)
(* get_accessible_reports (list, own reports), CanAccessReportMixin        *)
(* (messages over REST), SyncView (messages sent offline), ReportConsumer  *)
(* (following a report live) and EvidenceUploadView.  This module has the  *)
(* five as they are, over one row of the reports table, and the identity   *)
(* reference they decrypt.                                                 *)
(***************************************************************************)
CONSTANTS
  User,
  Role,        \* the role of each user
  Department,
  Head,        \* the head of each department, or Nobody
  Member,      \* the members of each department
  Nobody,      \* no head, no assignee, no reporter found
  Values       \* the values of the columns "category", "status" and "urgency"

Officials == {"security", "ict_admin", "management"}

ASSUME AccessAssumption ==
  /\ Role \in [User -> Officials \cup {"student", "staff", "system_admin"}]
  /\ Nobody \notin User
  /\ Head \in [Department -> User \cup {Nobody}]
  /\ Member \in [Department -> SUBSET User]
  /\ "resolved" \in Values["status"]

-----------------------------------------------------------------------------
(* A reference is a text such as "REF_<user id>", sealed with Fernet.  What*)
(* is not a token cannot be decrypted, and a token matches no plain text.  *)
Text == [prefix : {"REF", "PLACEHOLDER"}, user : User, sealed : BOOLEAN]
Plain(p, u) == [prefix |-> p, user |-> u, sealed |-> FALSE]
Encrypt(text) == [text EXCEPT !.sealed = TRUE]

(* IdentityService.create_identity, get_reporter.                          *)
CreateIdentity(u) == Encrypt(Plain("REF", u))
GetReporter(identity) == IF identity.sealed THEN identity.user ELSE Nobody

Row == [anonymous : BOOLEAN, identity : Text, assigned : User \cup {Nobody},
        department : Department \cup {Nobody}, category : Values["category"],
        status : Values["status"], urgency : Values["urgency"]]

Assignable == {u \in User : Role[u] = "security"}

-----------------------------------------------------------------------------
IsReporterAlways(u, row) ==  \* fault: is_anonymous is not looked at
  GetReporter(row.identity) = u
IsReporter(u, row) == ~row.anonymous /\ GetReporter(row.identity) = u
IsAssigned(u, row) == row.assigned = u

(* CanAccessReportMixin: reading and writing messages over REST.           *)
MayDiscuss(u, row) == Role[u] \in Officials \/ IsReporter(u, row) \/ IsAssigned(u, row)

(* SyncView, send_message: the same, and the system administrator.         *)
MaySyncOfficials(u, row) ==  \* fault: the reporter is forgotten
  Role[u] \in Officials \cup {"system_admin"} \/ IsAssigned(u, row)
MaySync(u, row) ==
  Role[u] \in Officials \cup {"system_admin"} \/ IsReporter(u, row) \/ IsAssigned(u, row)

(* ReportConsumer: connect() lets officials in only, and _can_access_report*)
(* decides about the group of one report.                                  *)
MayFollow(u, row) ==
  /\ Role[u] \in Officials
  /\ Role[u] \in Officials \/ IsReporter(u, row) \/ IsAssigned(u, row)

(* EvidenceUploadView: of an anonymous report, security; of any other, the *)
(* code calls IdentityService.is_owner, which does not exist.              *)
UploadRaises(row) == ~row.anonymous
MayUpload(u, row) == row.anonymous /\ Role[u] = "security"

Rights(u, row) == <<MayDiscuss(u, row), MaySync(u, row), MayFollow(u, row), MayUpload(u, row)>>

(* get_accessible_reports.  The last branch looks for plain text in a      *)
(* column of tokens.                                                       *)
Led(u)    == {d \in Department : Head[d] = u}
Joined(u) == {d \in Department : u \in Member[d]}
Listed(u, filed, row) ==
  CASE Role[u] \in Officials \cup {"system_admin"} -> filed
    [] OTHER ->
         IF Led(u) # {} THEN {r \in filed : row[r].department \in Led(u)}
         ELSE IF Joined(u) # {} THEN {r \in filed : row[r].department \in Joined(u)}
         ELSE {r \in filed : ~row[r].anonymous /\ row[r].identity = Plain("PLACEHOLDER", u)}
=============================================================================
