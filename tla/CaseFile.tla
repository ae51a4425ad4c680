------------------------------ MODULE CaseFile ------------------------------
(***************************************************************************)
(* What happens to a report after it is filed, apart from its edits: its   *)
(* messages are written and read page by page (notifications/views.py,     *)
(* SyncView), evidence is added (EvidenceUploadView), and the dashboard    *)
(* counts it (DashboardSummaryView), while reports are filed, assigned and *)
(* change their status.                                                    *)
(*                                                                         *)
(* Every request runs in autocommit: each of its queries sees the database *)
(* of its own instant.  Only add_evidence opens a transaction.             *)
(***************************************************************************)
EXTENDS AccessRules, Naturals, FiniteSets

CONSTANTS
  Report, Request,
  Filing,     \* the rows that create_report may leave
  Plan,       \* what the requests may ask for, together
  PageSize,   \* PAGE_SIZE, 20
  MaxChange   \* bound: assignments and status changes

Job == [kind : {"post", "sync", "thread", "upload", "summary"},
        user : User, report : Report, fit : BOOLEAN]

ASSUME CaseAssumption ==
  /\ IsFiniteSet(Report)
  /\ Filing \subseteq {row \in Row : \E u \in User :
                         /\ row.identity = CreateIdentity(u)
                         /\ row.assigned \in Assignable \cup {Nobody}}
  /\ Plan \subseteq [Request -> Job]
  /\ PageSize \in Nat \ {0} /\ MaxChange \in Nat

VARIABLES
  clock,     \* timezone.now()
  filed,     \* the committed reports
  row,       \* the row of each, and of those that will be filed
  changes,   \* how many assignments and status changes were made
  messages,  \* the committed messages
  files,     \* the uploads that are in the file storage
  evidence,  \* the uploads whose evidence row is committed
  audit,     \* the uploads whose audit entry is committed
  pc, job,
  stamp,     \* created_at of the message that a request writes
  page, count, got, began,  \* of a reader: page, count, messages, first look
  summary    \* of a summary: what it has counted

table  == <<filed, row, changes>>
store  == <<files, evidence, audit>>
reader == <<page, count, got, began>>
vars   == <<clock, table, messages, store, pc, job, stamp, reader, summary>>

Final == {"done", "denied", "unfit", "failed"}
Facet == {"category", "status", "urgency"}

Init ==
  /\ clock = 0
  /\ filed = {}
  /\ row \in [Report -> Filing]
  /\ changes = 0
  /\ messages = {}
  /\ files = {} /\ evidence = {} /\ audit = {}
  /\ pc = [q \in Request |-> "idle"]
  /\ job \in Plan
  /\ stamp = [q \in Request |-> 0]
  /\ page = [q \in Request |-> 1]
  /\ count = [q \in Request |-> 0]
  /\ got = [q \in Request |-> {}]
  /\ began = [q \in Request |-> 0]
  /\ summary = [q \in Request |-> [total |-> 0, category |-> <<>>, status |-> <<>>, urgency |-> <<>>]]

Goto(q, from, to) == pc[q] = from /\ pc' = [pc EXCEPT ![q] = to]
Asks(q, kinds) == job[q].kind \in kinds
Target(q) == row[job[q].report]

-----------------------------------------------------------------------------
(* The services that write the reports table, one commit each (in full in  *)
(* ReportIntake and ReportEdits).                                          *)
File(r) ==
  /\ r \notin filed
  /\ filed' = filed \cup {r}
  /\ UNCHANGED <<clock, row, changes, messages, store, pc, job, stamp, reader, summary>>

Change(r, column, value) ==
  /\ r \in filed /\ changes < MaxChange
  /\ row[r][column] # value
  /\ row' = [row EXCEPT ![r][column] = value]
  /\ changes' = changes + 1
  /\ UNCHANGED <<clock, filed, messages, store, pc, job, stamp, reader, summary>>

SetStatus(r) == \E s \in Values["status"] : Change(r, "status", s)

AssignAnyone(r) ==  \* fault: validate_assigned_to does not look at the role
  \E u \in User : Change(r, "assigned", u)
Assign(r) == \E u \in Assignable : Change(r, "assigned", u)

-----------------------------------------------------------------------------
(* Messages.  The report is fetched and the access rule applied; later     *)
(* created_at is stamped; later still the row is committed.                *)
Rule(q) == IF Asks(q, {"sync"}) THEN MaySync(job[q].user, Target(q))
                                ELSE MayDiscuss(job[q].user, Target(q))

Admit(q) ==
  /\ Asks(q, {"post", "sync"})
  /\ job[q].report \in filed /\ Rule(q)
  /\ Goto(q, "idle", "admitted")
  /\ UNCHANGED <<clock, table, messages, store, job, stamp, reader, summary>>

Deny(q) ==
  /\ Asks(q, {"post", "sync", "thread"})
  /\ job[q].report \in filed => ~Rule(q)
  /\ pc[q] \in {"idle", "next"}
  /\ pc' = [pc EXCEPT ![q] = "denied"]
  /\ UNCHANGED <<clock, table, messages, store, job, stamp, reader, summary>>

Stamp(q) ==
  /\ Goto(q, "admitted", "stamped")
  /\ clock' = clock + 1
  /\ stamp' = [stamp EXCEPT ![q] = clock + 1]
  /\ UNCHANGED <<table, messages, store, job, reader, summary>>

Insert(q) ==
  /\ Goto(q, "stamped", "done")
  /\ clock' = clock + 1
  /\ messages' = messages \cup
       {[report |-> job[q].report, sender |-> job[q].user, at |-> stamp[q], since |-> clock + 1]}
  /\ UNCHANGED <<table, store, job, stamp, reader, summary>>

(* MessageListView: one request for each page, until a page has no next.   *)
(* The access rule and the paginator's count come first, the slice after.  *)
Thread(q) == {m \in messages : m.report = job[q].report}
IndexNewestFirst(m) ==  \* fault: ordering = ['-created_at']
  Cardinality({n \in messages : n.report = m.report /\ m.at < n.at})
Index(m) == Cardinality({n \in messages : n.report = m.report /\ n.at < m.at})

Count(q) ==
  /\ Asks(q, {"thread"})
  /\ job[q].report \in filed /\ Rule(q)
  /\ Goto(q, IF page[q] = 1 THEN "idle" ELSE "next", "counted")
  /\ count' = [count EXCEPT ![q] = Cardinality(Thread(q))]
  /\ began' = IF page[q] = 1 THEN [began EXCEPT ![q] = clock] ELSE began
  /\ UNCHANGED <<clock, table, messages, store, job, stamp, page, got, summary>>

Slice(q) ==
  {m \in Thread(q) : /\ (page[q] - 1) * PageSize <= Index(m)
                     /\ Index(m) < page[q] * PageSize /\ Index(m) < count[q]}

ReadPage(q) ==
  /\ Goto(q, "counted", IF page[q] * PageSize < count[q] THEN "next" ELSE "done")
  /\ got' = [got EXCEPT ![q] = @ \cup Slice(q)]
  /\ page' = [page EXCEPT ![q] = @ + 1]
  /\ UNCHANGED <<clock, table, messages, store, job, stamp, count, began, summary>>

-----------------------------------------------------------------------------
(* Evidence.  Every refusal comes before anything is written.              *)
Refuse(q) ==
  /\ Asks(q, {"upload"})
  /\ LET known == job[q].report \in filed IN
     \/ known /\ UploadRaises(Target(q)) /\ Goto(q, "idle", "failed")
     \/ (known => ~UploadRaises(Target(q)) /\ ~MayUpload(job[q].user, Target(q)))
          /\ Goto(q, "idle", "denied")
     \/ known /\ MayUpload(job[q].user, Target(q)) /\ ~job[q].fit /\ Goto(q, "idle", "unfit")
  /\ UNCHANGED <<clock, table, messages, store, job, stamp, reader, summary>>

(* add_evidence: the storage takes the file, under a name of its own, before*)
(* the INSERT; evidence row and audit entry are committed together.        *)
StoreFile(q) ==
  /\ Asks(q, {"upload"})
  /\ job[q].report \in filed /\ MayUpload(job[q].user, Target(q)) /\ job[q].fit
  /\ Goto(q, "idle", "stored")
  /\ files' = files \cup {q}
  /\ UNCHANGED <<clock, table, messages, evidence, audit, job, stamp, reader, summary>>

AddEvidenceAlone(q) ==  \* fault: no transaction.atomic around the two rows
  \/ /\ Goto(q, "stored", "rowed")
     /\ evidence' = evidence \cup {q}
     /\ UNCHANGED <<clock, table, messages, files, audit, job, stamp, reader, summary>>
  \/ /\ Goto(q, "rowed", "done")
     /\ audit' = audit \cup {q}
     /\ UNCHANGED <<clock, table, messages, files, evidence, job, stamp, reader, summary>>
AddEvidence(q) ==
  /\ Goto(q, "stored", "done")
  /\ evidence' = evidence \cup {q}
  /\ audit' = audit \cup {q}
  /\ UNCHANGED <<clock, table, messages, files, job, stamp, reader, summary>>

-----------------------------------------------------------------------------
(* The summary.  count() and exists() are executed by the view; the three  *)
(* groupings are lazy and executed when the answer is rendered, in order.  *)
Total(q) ==
  /\ Asks(q, {"summary"})
  /\ IF Role[job[q].user] \in {"security", "ict_admin"}
     THEN /\ Goto(q, "idle", "totalled")
          /\ summary' = [summary EXCEPT ![q].total = Cardinality(filed)]
     ELSE Goto(q, "idle", "denied") /\ UNCHANGED summary
  /\ UNCHANGED <<clock, table, messages, store, job, stamp, reader>>

(* Avg('updated_at' - 'created_at') subtracts two strings.                 *)
Resolved(q) ==
  /\ IF \E r \in filed : row[r].status = "resolved"
     THEN Goto(q, "totalled", "failed") ELSE Goto(q, "totalled", "averaged")
  /\ UNCHANGED <<clock, table, messages, store, job, stamp, reader, summary>>

Before == [category |-> "averaged", status |-> "category", urgency |-> "status"]
Having(f, v) == Cardinality({r \in filed : row[r][f] = v})

GroupValueByValue(q, f) ==  \* fault: one query for each value
  \E v \in Values[f] \ DOMAIN summary[q][f] :
    LET seen == DOMAIN summary[q][f] \cup {v} IN
    /\ Goto(q, Before[f], IF seen # Values[f] THEN Before[f]
                          ELSE IF f = "urgency" THEN "done" ELSE f)
    /\ summary' = [summary EXCEPT ![q][f] =
         [w \in seen |-> IF w = v THEN Having(f, v) ELSE summary[q][f][w]]]
    /\ UNCHANGED <<clock, table, messages, store, job, stamp, reader>>
Group(q, f) ==
  /\ Goto(q, Before[f], IF f = "urgency" THEN "done" ELSE f)
  /\ summary' = [summary EXCEPT ![q][f] = [v \in Values[f] |-> Having(f, v)]]
  /\ UNCHANGED <<clock, table, messages, store, job, stamp, reader>>

-----------------------------------------------------------------------------
(* Any request may fail or lose its worker: an open transaction rolls back,*)
(* and what the storage took stays there.                                  *)
Fail(q) ==
  /\ pc[q] \notin Final \cup {"idle"}
  /\ pc' = [pc EXCEPT ![q] = "failed"]
  /\ UNCHANGED <<clock, table, messages, store, job, stamp, reader, summary>>

Handle(q) ==
  \/ Admit(q) \/ Deny(q) \/ Stamp(q) \/ Insert(q) \/ Count(q) \/ ReadPage(q)
  \/ Refuse(q) \/ StoreFile(q) \/ AddEvidence(q)
  \/ Total(q) \/ Resolved(q) \/ \E f \in Facet : Group(q, f)

Write(r) == File(r) \/ SetStatus(r) \/ Assign(r)

Quiet == (\A q \in Request : pc[q] \in Final) /\ UNCHANGED vars

Next ==
  \/ \E q \in Request : Handle(q) \/ Fail(q)
  \/ \E r \in Report : Write(r)
  \/ Quiet

Spec == Init /\ [][Next]_vars

-----------------------------------------------------------------------------
Counts(f) == {<<>>} \cup [Values[f] -> Nat]
TypeOK ==
  /\ clock \in Nat /\ changes \in 0..MaxChange
  /\ filed \subseteq Report /\ row \in [Report -> Row]
  /\ messages \subseteq [report : Report, sender : User, at : Nat, since : Nat]
  /\ files \subseteq Request /\ evidence \subseteq Request /\ audit \subseteq Request
  /\ pc \in [Request -> {"idle", "admitted", "stamped", "counted", "next", "stored",
                         "totalled", "averaged"} \cup Facet \cup Final]
  /\ job \in Plan
  /\ stamp \in [Request -> Nat] /\ count \in [Request -> Nat] /\ began \in [Request -> Nat]
  /\ page \in [Request -> Nat \ {0}]
  /\ got \in [Request -> SUBSET messages]
  /\ summary \in [Request -> [total : Nat, category : Counts("category"),
                              status : Counts("status"), urgency : Counts("urgency")]]

(* Access is checked on a report fetched before the message is written, and*)
(* the report may be reassigned in between or later.  Still, in every      *)
(* thread there are only messages of those who may read it now, or of the  *)
(* system administrator: an anonymous thread has none of its reporter, and *)
(* no former assignee has one in a thread that is closed to him.           *)
SendersMayRead ==
  \A m \in messages : MaySync(m.sender, row[m.report])

(* Somebody who follows the pages of a thread to its end has every message *)
(* that was there when he began, whatever is posted meanwhile, unless a    *)
(* message with an older created_at was committed while he was reading (it *)
(* can push others over the end that the count has fixed).                 *)
Overtaken(q, m) ==
  \E n \in messages : n.report = m.report /\ n.at < m.at /\ n.since > began[q]
ThreadComplete ==
  \A q \in Request : (Asks(q, {"thread"}) /\ pc[q] = "done") =>
    \A m \in Thread(q) : (m.since <= began[q] /\ ~Overtaken(q, m)) => m \in got[q]

(* Evidence is never without its file or its audit entry, nor audited      *)
(* without being there, whatever fails between the three.  An upload that  *)
(* is answered has all of them, one that is refused leaves not even a file,*)
(* and a file without its rows is that of an upload that is still at work  *)
(* or failed half-way.                                                     *)
EvidenceWhole ==
  /\ evidence = audit /\ evidence \subseteq files
  /\ \A q \in Request : Asks(q, {"upload"}) =>
       /\ pc[q] = "done" => q \in evidence
       /\ q \in files \ evidence => pc[q] \in {"stored", "failed"}

(* "Evidence can also be added later via POST /api/v1/reports/{id}/        *)
(* evidence/", says the serializer of a submission to the one who submits, *)
(* and the view computes is_owner.  So the upload of a file that fits, by  *)
(* the reporter of a report that is not anonymous, should not fail before  *)
(* the storage has the file.  The code breaks this: see the finding.       *)
OwnersAddEvidence ==
  \A q \in Request :
    (/\ Asks(q, {"upload"}) /\ job[q].fit /\ pc[q] = "failed"
     /\ job[q].report \in filed /\ IsReporter(job[q].user, Target(q))) => q \in files

(* A summary is read in five queries while reports are filed and move from *)
(* one status to another.  Its groupings count every report once: each adds*)
(* up to no less than what was counted before it, and to no more reports   *)
(* than there are.  So a summary during which nothing is filed adds up.    *)
Counted(c) == UNION {{<<v, n>> : n \in 1..c[v]} : v \in DOMAIN c}  \* one for each report
Sum(q, f) == Cardinality(Counted(summary[q][f]))
SummaryAddsUp ==
  \A q \in Request : (Asks(q, {"summary"}) /\ pc[q] = "done") =>
    /\ summary[q].total <= Sum(q, "category")
    /\ Sum(q, "category") <= Sum(q, "status")
    /\ Sum(q, "status") <= Sum(q, "urgency")
    /\ Sum(q, "urgency") <= Cardinality(filed)

(* Nothing that anybody is allowed or shown depends on who filed an        *)
(* anonymous report: were it filed by somebody else, every user would have *)
(* the same list and the same rights.                                      *)
AnonymityKept ==
  \A r \in {s \in filed : row[s].anonymous}, u, v \in User :
    LET twin == [row EXCEPT ![r].identity = CreateIdentity(v)] IN
    Listed(u, filed, twin) = Listed(u, filed, row) /\ Rights(u, twin[r]) = Rights(u, row[r])

(* The copies of the rule agree: who may follow a report live or add       *)
(* evidence may read its messages and answer, and what may be sent online  *)
(* is accepted when it was written offline, and the other way round except *)
(* for the system administrator.                                           *)
RulesAgree ==
  \A r \in filed, u \in User :
    /\ MayFollow(u, row[r]) \/ MayUpload(u, row[r]) => MayDiscuss(u, row[r])
    /\ Role[u] # "system_admin" => (MaySync(u, row[r]) <=> MayDiscuss(u, row[r]))
=============================================================================
