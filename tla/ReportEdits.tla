----------------------------- MODULE ReportEdits -----------------------------
(***************************************************************************)
(* Edits of existing reports: ReportService.update_status and              *)
(* ReportService.assign_report (apps/reports/services.py), as the REST     *)
(* views ReportStatusUpdateView and ReportAssignView call them.            *)
(*                                                                         *)
(* Every request runs in a worker of its own.  The view fetches the report *)
(* OUTSIDE the transaction; the service then works on that in-memory       *)
(* instance inside transaction.atomic(): version check, assignment of the  *)
(* field, save(update_fields=...), the audit entry, the announcement, the  *)
(* commit.  PostgreSQL runs at READ COMMITTED: the UPDATE of save() takes  *)
(* the row lock and keeps it to the end of the transaction.                *)
(*                                                                         *)
(* Announcements (the WebSocket broadcast of a status change, the SMS and  *)
(* e-mail of an assignment) leave the process BEFORE the commit.           *)
(***************************************************************************)
EXTENDS Naturals

CONSTANTS
  Report,     \* the reports that exist
  Request,    \* the requests that will be made; each is handled once
  Status,     \* the choices of the status field
  New,        \* the status a report is created with
  Officer,    \* users with role 'security', the possible assignees
  Nobody,     \* assigned_to is NULL
  NoVersion,  \* expected_updated_at is absent
  NoRequest,  \* no request has announced anything yet
  Contact,    \* which of "sms" (phone_number) and "email" each officer has
  Chosen      \* the officer that each report was filed with, or Nobody

ASSUME EditsAssumption ==
  /\ New \in Status
  /\ Nobody \notin Officer
  /\ NoVersion \notin Nat
  /\ NoRequest \notin Request
  /\ Contact \in [Officer -> SUBSET {"sms", "email"}]
  /\ Chosen \in [Report -> Officer \cup {Nobody}]

VARIABLES
  clock,      \* timezone.now(): the last instant that was read
  row,        \* committed status and assigned_to of every report
  version,    \* committed updated_at of every report
  audit,      \* committed audit entries
  notices,    \* requests whose Notification row is committed
  board,      \* what a dashboard that got every broadcast shows
  teller,     \* the request whose broadcast each board entry shows
  alerts,     \* SMS and e-mails handed to the gateways
  edits,      \* history: the number of commits on each report
  pc, job, expected, mem, memAt, old, loggedAt, seen

database == <<row, version, audit, notices, edits>>
outside  == <<board, teller, alerts>>
locals   == <<job, expected, mem, memAt, old, loggedAt, seen>>
vars     == <<clock, database, outside, pc, locals>>

-----------------------------------------------------------------------------
(* The columns a request edits, and the values the serializers accept.     *)
Field == {"status", "assigned_to"}
Value == Status \cup Officer \cup {Nobody}
Fields == [Field -> Value]

(* What a client asks for; "checked" says it sends expected_updated_at.    *)
Job == [report : Report, field : {"status"}, value : Status, checked : BOOLEAN]
       \cup
       [report : Report, field : {"assigned_to"}, value : Officer, checked : BOOLEAN]

Entry == [report : Report, field : Field, before : Value, after : Value,
          at : Nat, by : Request]

Holding == {"saved", "logged", "told"}
Final   == {"done", "conflict", "unchanged", "failed"}
Active  == {"sent", "fetched", "stamped"} \cup Holding

(* The row lock that UPDATE takes and the end of the transaction releases. *)
Locked(r) == \E q \in Request : pc[q] \in Holding /\ job[q].report = r

(* What create_report leaves: the submission may name an officer, and its  *)
(* status is read-only.  The officer has been alerted and the dashboards   *)
(* show the row; the CREATE entry names category and status, so that no    *)
(* entry tells of assigned_to until the report is assigned.                *)
FiledAs(r) == [f \in Field |-> IF f = "status" THEN New ELSE Chosen[r]]
AlertsOf(r, o) == IF o \in Officer THEN {<<r, o, c>> : c \in Contact[o]} ELSE {}

Init ==
  /\ clock = 0
  /\ row = [r \in Report |-> FiledAs(r)]
  /\ version = [r \in Report |-> 0]
  /\ audit = {}
  /\ notices = {}
  /\ board = [r \in Report |-> FiledAs(r)]
  /\ teller = [r \in Report |-> NoRequest]
  /\ alerts = UNION {AlertsOf(r, Chosen[r]) : r \in Report}
  /\ edits = [r \in Report |-> 0]
  /\ pc = [q \in Request |-> "idle"]
  /\ job \in [Request -> Job]
  /\ expected = [q \in Request |-> NoVersion]
  /\ mem = [q \in Request |-> FiledAs(job[q].report)]
  /\ memAt = [q \in Request |-> 0]
  /\ old = [q \in Request |-> Nobody]
  /\ loggedAt = [q \in Request |-> 0]
  /\ seen = [q \in Request |-> [sent |-> 0, read |-> 0, wrote |-> 0]]

-----------------------------------------------------------------------------
Goto(q, from, to) == pc[q] = from /\ pc' = [pc EXCEPT ![q] = to]

(* The client composes the request from the report as it last fetched it.  *)
Send(q) ==
  LET r == job[q].report IN
  /\ Goto(q, "idle", "sent")
  /\ expected' = [expected EXCEPT ![q] = IF job[q].checked THEN version[r] ELSE NoVersion]
  /\ seen' = [seen EXCEPT ![q].sent = edits[r]]
  /\ UNCHANGED <<clock, database, outside, job, mem, memAt, old, loggedAt>>

(* get_object_or_404 in the view: autocommit, no select_for_update.        *)
Fetch(q) ==
  LET r == job[q].report IN
  /\ Goto(q, "sent", "fetched")
  /\ mem' = [mem EXCEPT ![q] = row[r]]
  /\ memAt' = [memAt EXCEPT ![q] = version[r]]
  /\ seen' = [seen EXCEPT ![q].read = edits[r]]
  /\ UNCHANGED <<clock, database, outside, job, expected, old, loggedAt>>

(* _check_version compares the INSTANCE, not the row, with the client's    *)
(* version.                                                                *)
VersionIgnored(q) == TRUE  \* fault: expected_updated_at is not looked at
VersionOK(q) == expected[q] # NoVersion => memAt[q] = expected[q]

(* update_status refuses a status that is already set; assign_report has   *)
(* no such test.                                                           *)
AlreadySet(q) == job[q].field = "status" /\ mem[q]["status"] = job[q].value

(* Fault: a conflict is retried with the version that is already stale.    *)
ConflictRetried(q) ==
  /\ ~VersionOK(q)
  /\ Goto(q, "fetched", "sent")
  /\ UNCHANGED <<clock, database, outside, locals>>

(* ConflictError, answered with 409.                                       *)
Conflict(q) ==
  /\ ~VersionOK(q)
  /\ Goto(q, "fetched", "conflict")
  /\ UNCHANGED <<clock, database, outside, locals>>

(* "Status already set to ...", answered with 400.                         *)
Unchanged(q) ==
  /\ VersionOK(q)
  /\ AlreadySet(q)
  /\ Goto(q, "fetched", "unchanged")
  /\ UNCHANGED <<clock, database, outside, locals>>

(* The service sets the field of the instance, and pre_save of auto_now    *)
(* stamps its updated_at, both before the UPDATE is executed.              *)
Stamp(q) ==
  LET f == job[q].field IN
  /\ VersionOK(q)
  /\ ~AlreadySet(q)
  /\ Goto(q, "fetched", "stamped")
  /\ clock' = clock + 1
  /\ old' = [old EXCEPT ![q] = mem[q][f]]
  /\ mem' = [mem EXCEPT ![q][f] = job[q].value]
  /\ memAt' = [memAt EXCEPT ![q] = clock + 1]
  /\ UNCHANGED <<database, outside, job, expected, loggedAt, seen>>

(* Fault: the UPDATE runs outside a transaction and holds no row lock.     *)
SaveUnlocked(q) ==
  /\ Goto(q, "stamped", "saved")
  /\ seen' = [seen EXCEPT ![q].wrote = edits[job[q].report]]
  /\ UNCHANGED <<clock, database, outside, job, expected, mem, memAt, old, loggedAt>>

(* UPDATE reports SET <field>, updated_at WHERE id: waits for the row lock.*)
Save(q) ==
  /\ ~Locked(job[q].report)
  /\ Goto(q, "stamped", "saved")
  /\ seen' = [seen EXCEPT ![q].wrote = edits[job[q].report]]
  /\ UNCHANGED <<clock, database, outside, job, expected, mem, memAt, old, loggedAt>>

(* AuditLog.objects.create, whose created_at is read now; update_status    *)
(* also inserts its Notification row here.                                 *)
Log(q) ==
  /\ Goto(q, "saved", "logged")
  /\ clock' = clock + 1
  /\ loggedAt' = [loggedAt EXCEPT ![q] = clock + 1]
  /\ UNCHANGED <<database, outside, job, expected, mem, memAt, old, seen>>

(* Fault: the entry is written without its before_state.                   *)
AuditWithoutBefore(q) ==
  [report |-> job[q].report, field |-> job[q].field, before |-> NoVersion,
   after |-> job[q].value, at |-> loggedAt[q], by |-> q]

AuditEntry(q) ==
  [report |-> job[q].report, field |-> job[q].field, before |-> old[q],
   after |-> job[q].value, at |-> loggedAt[q], by |-> q]

(* broadcast_report_updated: the payload is the in-memory instance.        *)
TellBoards(q) ==
  LET r == job[q].report IN
  /\ job[q].field = "status"
  /\ Goto(q, "logged", "told")
  /\ board' = [board EXCEPT ![r] = mem[q]]
  /\ teller' = [teller EXCEPT ![r] = q]
  /\ UNCHANGED <<clock, database, alerts, locals>>

(* dispatch over SMS and e-mail to the assignee; the gateways swallow      *)
(* their errors, so the service goes on whatever became of the message.    *)
PreviousAddressee(q) == old[q]  \* fault: the officer who had the report
Addressee(q) == job[q].value
TellOfficer(q) ==
  /\ job[q].field = "assigned_to"
  /\ Goto(q, "logged", "told")
  /\ alerts' = alerts \cup AlertsOf(job[q].report, Addressee(q))
  /\ UNCHANGED <<clock, database, board, teller, locals>>

(* What the UPDATE leaves in the row: update_fields names the edited field *)
(* and updated_at, so the other columns keep what is in the DATABASE.      *)
SaveAllFields(q) == mem[q]  \* fault: save() without update_fields
SavedRow(q) == [row[job[q].report] EXCEPT ![job[q].field] = job[q].value]

(* The transaction commits: row, audit entry and notification together.    *)
Commit(q) ==
  LET r == job[q].report IN
  /\ Goto(q, "told", "done")
  /\ row' = [row EXCEPT ![r] = SavedRow(q)]
  /\ version' = [version EXCEPT ![r] = memAt[q]]
  /\ audit' = audit \cup {AuditEntry(q)}
  /\ notices' = IF job[q].field = "status" THEN notices \cup {q} ELSE notices
  /\ edits' = [edits EXCEPT ![r] = @ + 1]
  /\ UNCHANGED <<clock, outside, locals>>

(* Any step may fail (database error, channel layer error, lost worker):   *)
(* the transaction rolls back and releases the row; what was announced     *)
(* stays announced.                                                        *)
Fail(q) ==
  /\ pc[q] \in Active
  /\ pc' = [pc EXCEPT ![q] = "failed"]
  /\ UNCHANGED <<clock, database, outside, locals>>

(* All requests have been answered.                                        *)
Quiet == (\A q \in Request : pc[q] \in Final) /\ UNCHANGED vars

Handle(q) ==
  \/ Fetch(q) \/ Conflict(q) \/ Unchanged(q) \/ Stamp(q) \/ Save(q)
  \/ Log(q) \/ TellBoards(q) \/ TellOfficer(q) \/ Commit(q)

Next ==
  \/ \E q \in Request : Send(q) \/ Handle(q) \/ Fail(q)
  \/ Quiet

Spec == Init /\ [][Next]_vars

(* A worker that has a request goes on with it; a failure or a new request *)
(* is never owed.  The row lock is released by a worker that goes on.      *)
Fairness == \A q \in Request : WF_vars(Handle(q))
FairSpec == Spec /\ Fairness

-----------------------------------------------------------------------------
TypeOK ==
  /\ clock \in Nat
  /\ row \in [Report -> Fields]
  /\ version \in [Report -> Nat]
  /\ audit \subseteq Entry
  /\ notices \subseteq Request
  /\ board \in [Report -> Fields]
  /\ teller \in [Report -> Request \cup {NoRequest}]
  /\ alerts \subseteq Report \X Officer \X {"sms", "email"}
  /\ edits \in [Report -> Nat]
  /\ pc \in [Request -> {"idle"} \cup Active \cup Final]
  /\ job \in [Request -> Job]
  /\ expected \in [Request -> Nat \cup {NoVersion}]
  /\ mem \in [Request -> Fields]
  /\ memAt \in [Request -> Nat]
  /\ old \in [Request -> Value]
  /\ loggedAt \in [Request -> Nat]
  /\ seen \in [Request -> [sent : Nat, read : Nat, wrote : Nat]]

(* The audit trail explains the row: for each report and field, the entry  *)
(* with the newest created_at carries the value the row has, and a field   *)
(* without entries has the value it was filed with.  It relates            *)
(* update_fields, the row lock and the instant the entry is stamped, over  *)
(* any interleaving.                                                       *)
EntriesOf(r, f) == {e \in audit : e.report = r /\ e.field = f}
AuditExplainsRow ==
  \A r \in Report, f \in Field :
    /\ EntriesOf(r, f) = {} => row[r][f] = FiledAs(r)[f]
    /\ \A e \in EntriesOf(r, f) :
         (\A d \in EntriesOf(r, f) : d.at <= e.at) => row[r][f] = e.after

(* A client whose version was already stale when the server fetched the    *)
(* report is refused: a checked edit commits only if no other edit of the  *)
(* report was committed between the client's fetch and the server's.       *)
StaleClientRefused ==
  \A q \in Request :
    (pc[q] = "done" /\ expected[q] # NoVersion) => seen[q].read = seen[q].sent

(* A dashboard that gets every broadcast shows the committed status, unless*)
(* the last request that broadcast is still open or was rolled back.       *)
BoardShowsStatus ==
  \A r \in Report :
    (teller[r] = NoRequest \/ (teller[r] \in Request /\ pc[teller[r]] = "done"))
      => board[r]["status"] = row[r]["status"]

(* The officer a report is assigned to has been sent the alert, on every   *)
(* channel the officer has.                                                *)
AssigneeAlerted ==
  \A r \in Report, o \in Officer :
    row[r]["assigned_to"] = o =>
      \A c \in Contact[o] : <<r, o, c>> \in alerts

(* Every request gets an answer: nobody waits for ever on a row lock.      *)
EveryRequestAnswered ==
  \A q \in Request : pc[q] = "sent" ~> pc[q] \in Final

(* The abstract specification of the database that this module implements. *)
Promise == INSTANCE AuditedReports

(* Every commit is one abstract change, every other step changes nothing a *)
(* reader of the database can see.                                         *)
KeepsPromise == Promise!Spec

(* What ConflictError promises ("raised when a report has been modified    *)
(* since last fetch"): a checked edit never overwrites an edit its client  *)
(* has not seen.  The code breaks this: see the finding.                   *)
NoLostUpdate ==
  \A q \in Request :
    (pc[q] = "done" /\ expected[q] # NoVersion) => seen[q].wrote = seen[q].sent
=============================================================================
