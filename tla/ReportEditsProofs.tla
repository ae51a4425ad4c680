-------------------------- MODULE ReportEditsProofs --------------------------
(***************************************************************************)
(* Proofs about ReportEdits, for every set of reports, requests, statuses  *)
(* and officers.                                                           *)
(***************************************************************************)
EXTENDS ReportEdits, TLAPS

(* What a job is made of, whichever of the two edits it asks for.          *)
LEMMA JobParts ==
  ASSUME NEW j \in Job
  PROVE  /\ j.report \in Report
         /\ j.field \in Field
         /\ j.value \in Value
         /\ j.checked \in BOOLEAN
         /\ j.field = "status" => j.value \in Status
         /\ j.field = "assigned_to" => j.value \in Officer
  BY DEF Job, Field, Value

(* A row in which one field gets an allowed value is a row.                *)
LEMMA RowUpdate ==
  ASSUME NEW x \in Fields, NEW f \in Field, NEW v \in Value
  PROVE  [x EXCEPT ![f] = v] \in Fields
  BY DEF Fields

(* A report is filed with a row.                                           *)
LEMMA FiledInFields ==
  ASSUME NEW r \in Report
  PROVE  FiledAs(r) \in Fields
<1>1. Chosen[r] \in Officer \cup {Nobody}
  BY EditsAssumption
<1> QED
  BY <1>1, EditsAssumption DEF FiledAs, Fields, Value, Field

(* The alerts about a report go to one officer, over channels there are.   *)
LEMMA AlertsTyped ==
  ASSUME NEW r \in Report, NEW o
  PROVE  AlertsOf(r, o) \subseteq Report \X Officer \X {"sms", "email"}
<1>1. CASE o \in Officer
  <2>1. Contact[o] \subseteq {"sms", "email"}
    BY <1>1, EditsAssumption
  <2> QED
    BY <1>1, <2>1 DEF AlertsOf
<1>2. CASE o \notin Officer
  BY <1>2 DEF AlertsOf
<1> QED
  BY <1>1, <1>2

(* Every variable keeps its type.                                          *)
THEOREM TypeCorrect == Spec => []TypeOK
<1>1. Init => TypeOK
  <2> SUFFICES ASSUME Init PROVE TypeOK
    OBVIOUS
  <2>1. ASSUME NEW r \in Report PROVE FiledAs(r) \in Fields
    BY FiledInFields
  <2>2. Nobody \in Value
    BY DEF Value
  <2>3. /\ row \in [Report -> Fields]
        /\ board \in [Report -> Fields]
    BY <2>1 DEF Init
  <2>4. mem \in [Request -> Fields]
    <3>1. job \in [Request -> Job]
      BY DEF Init
    <3>2. \A q \in Request : job[q].report \in Report
      BY <3>1, JobParts
    <3> QED
      BY <2>1, <3>2 DEF Init
  <2>5. alerts \subseteq Report \X Officer \X {"sms", "email"}
    BY AlertsTyped DEF Init
  <2> QED
    BY <2>2, <2>3, <2>4, <2>5 DEF Init, TypeOK, Active, Holding, Final
<1>2. TypeOK /\ [Next]_vars => TypeOK'
  <2> SUFFICES ASSUME TypeOK, [Next]_vars PROVE TypeOK'
    OBVIOUS
  <2> USE DEF TypeOK, database, outside, locals, Goto, Active, Holding, Final
  <2>1. ASSUME NEW q \in Request, Send(q) PROVE TypeOK'
    <3>1. job[q].report \in Report
      BY JobParts
    <3> QED
      BY <2>1, <3>1 DEF Send
  <2>2. ASSUME NEW q \in Request, Fetch(q) PROVE TypeOK'
    <3>1. job[q].report \in Report
      BY JobParts
    <3> QED
      BY <2>2, <3>1 DEF Fetch
  <2>3. ASSUME NEW q \in Request, Conflict(q) PROVE TypeOK'
    BY <2>3 DEF Conflict
  <2>4. ASSUME NEW q \in Request, Unchanged(q) PROVE TypeOK'
    BY <2>4 DEF Unchanged
  <2>5. ASSUME NEW q \in Request, Stamp(q) PROVE TypeOK'
    <3>1. job[q].field \in Field /\ job[q].value \in Value
      BY JobParts
    <3>2. [mem[q] EXCEPT ![job[q].field] = job[q].value] \in Fields
      BY <3>1, RowUpdate
    <3>3. mem[q][job[q].field] \in Value
      BY <3>1 DEF Fields
    <3>4. mem' \in [Request -> Fields]
      BY <2>5, <3>2 DEF Stamp
    <3> QED
      BY <2>5, <3>3, <3>4 DEF Stamp
  <2>6. ASSUME NEW q \in Request, Save(q) PROVE TypeOK'
    <3>1. job[q].report \in Report
      BY JobParts
    <3> QED
      BY <2>6, <3>1 DEF Save
  <2>7. ASSUME NEW q \in Request, Log(q) PROVE TypeOK'
    BY <2>7 DEF Log
  <2>8. ASSUME NEW q \in Request, TellBoards(q) PROVE TypeOK'
    <3>1. job[q].report \in Report
      BY JobParts
    <3> QED
      BY <2>8, <3>1 DEF TellBoards
  <2>9. ASSUME NEW q \in Request, TellOfficer(q) PROVE TypeOK'
    <3>1. job[q].report \in Report
      BY JobParts
    <3>2. alerts' \subseteq Report \X Officer \X {"sms", "email"}
      BY <2>9, <3>1, AlertsTyped DEF TellOfficer
    <3> QED
      BY <2>9, <3>2 DEF TellOfficer
  <2>10. ASSUME NEW q \in Request, Commit(q) PROVE TypeOK'
    <3>1. /\ job[q].report \in Report
          /\ job[q].field \in Field
          /\ job[q].value \in Value
      BY JobParts
    <3>2. SavedRow(q) \in Fields
      BY <3>1, RowUpdate DEF SavedRow
    <3>3. AuditEntry(q) \in Entry
      BY <3>1 DEF AuditEntry, Entry
    <3>4. row' \in [Report -> Fields]
      BY <2>10, <3>1, <3>2 DEF Commit
    <3> QED
      BY <2>10, <3>1, <3>3, <3>4 DEF Commit
  <2>11. ASSUME NEW q \in Request, Fail(q) PROVE TypeOK'
    BY <2>11 DEF Fail
  <2>12. CASE UNCHANGED vars
    BY <2>12 DEF vars
  <2> QED
    BY <2>1, <2>2, <2>3, <2>4, <2>5, <2>6, <2>7, <2>8, <2>9, <2>10, <2>11, <2>12
       DEF Next, Handle, Quiet
<1> QED
  BY <1>1, <1>2, PTL DEF Spec

-----------------------------------------------------------------------------
(* THE ROW LOCK                                                            *)

(* Two transactions that hold the same row are the same transaction.       *)
LockExclusive ==
  \A p, q \in Request :
    (pc[p] \in Holding /\ pc[q] \in Holding /\ job[p].report = job[q].report)
      => p = q

(* Jobs never change: they are the requests the clients make.              *)
LEMMA JobFixed == [Next]_vars => job' = job
  BY DEF Next, Handle, Quiet, vars, database, outside, locals, Send, Fetch, Conflict,
         Unchanged, Stamp, Save, Log, TellBoards, TellOfficer, Commit, Fail

(* Each row is held by at most one open transaction.                       *)
THEOREM RowLockExclusive == Spec => []LockExclusive
<1>1. Init => LockExclusive
  BY DEF Init, LockExclusive, Holding
<1>2. TypeOK /\ LockExclusive /\ [Next]_vars => LockExclusive'
  <2> SUFFICES ASSUME TypeOK, LockExclusive, [Next]_vars PROVE LockExclusive'
    OBVIOUS
  <2>0. job' = job /\ pc \in [Request -> {"idle"} \cup Active \cup Final]
    BY JobFixed DEF TypeOK
  <2> USE <2>0 DEF LockExclusive, Goto, Holding
  <2>1. ASSUME NEW q \in Request,
               Send(q) \/ Fetch(q) \/ Conflict(q) \/ Unchanged(q) \/ Stamp(q)
        PROVE  LockExclusive'
    BY <2>1 DEF Send, Fetch, Conflict, Unchanged, Stamp
  <2>2. ASSUME NEW q \in Request, Save(q) PROVE LockExclusive'
    BY <2>2 DEF Save, Locked
  <2>3. ASSUME NEW q \in Request, Log(q) \/ TellBoards(q) \/ TellOfficer(q)
        PROVE  LockExclusive'
    BY <2>3 DEF Log, TellBoards, TellOfficer
  <2>4. ASSUME NEW q \in Request, Commit(q) \/ Fail(q) PROVE LockExclusive'
    BY <2>4 DEF Commit, Fail
  <2>5. CASE UNCHANGED vars
    BY <2>5 DEF vars
  <2> QED
    BY <2>1, <2>2, <2>3, <2>4, <2>5 DEF Next, Handle, Quiet
<1> QED
  BY <1>1, <1>2, TypeCorrect, PTL DEF Spec

-----------------------------------------------------------------------------
(* THE AUDIT TRAIL                                                         *)

(* Nothing in the trail is newer than the clock, and it is the work of     *)
(* requests that committed.                                                *)
TrailOfThePast ==
  \A e \in audit : e.at <= clock /\ pc[e.by] = "done"

(* The entry of an open transaction is newer than all those of its report. *)
OpenEntryIsNewest ==
  \A q \in Request : pc[q] \in {"logged", "told"} =>
    /\ loggedAt[q] <= clock
    /\ \A e \in audit : e.report = job[q].report => e.at < loggedAt[q]

AuditInv == TrailOfThePast /\ OpenEntryIsNewest /\ AuditExplainsRow

LEMMA AuditInvHolds == Spec => []AuditInv
<1>1. Init => AuditInv
  BY DEF Init, AuditInv, TrailOfThePast, OpenEntryIsNewest, AuditExplainsRow, EntriesOf
<1>2. TypeOK /\ LockExclusive /\ AuditInv /\ [Next]_vars => AuditInv'
  <2> SUFFICES ASSUME TypeOK, LockExclusive, AuditInv, [Next]_vars PROVE AuditInv'
    OBVIOUS
  <2>0. /\ job' = job
        /\ job \in [Request -> Job]
        /\ clock \in Nat
        /\ audit \subseteq Entry
        /\ loggedAt \in [Request -> Nat]
        /\ row \in [Report -> Fields]
        /\ pc \in [Request -> {"idle"} \cup Active \cup Final]
    BY JobFixed DEF TypeOK
  <2> USE <2>0 DEF Goto
  <2>1. ASSUME NEW q \in Request,
               \/ Send(q) \/ Fetch(q) \/ Conflict(q) \/ Unchanged(q) \/ Stamp(q)
               \/ Save(q) \/ TellBoards(q) \/ TellOfficer(q) \/ Fail(q)
        PROVE  AuditInv'
    <3>1. /\ UNCHANGED <<audit, row, loggedAt>>
          /\ clock' \in {clock, clock + 1}
          /\ pc[q] # "done"
          /\ \A p \in Request \ {q} : pc'[p] = pc[p]
          /\ pc'[q] \in {"logged", "told"} => pc[q] \in {"logged", "told"}
      BY <2>1 DEF Send, Fetch, Conflict, Unchanged, Stamp, Save, TellBoards, TellOfficer,
                  Fail, database, outside, locals, Active, Holding
    <3>2. TrailOfThePast'
      BY <3>1 DEF AuditInv, TrailOfThePast, Entry
    <3>3. OpenEntryIsNewest'
      BY <3>1 DEF AuditInv, OpenEntryIsNewest
    <3> QED
      BY <3>1, <3>2, <3>3 DEF AuditInv, AuditExplainsRow, EntriesOf
  <2>2. ASSUME NEW q \in Request, Log(q) PROVE AuditInv'
    <3>1. TrailOfThePast'
      BY <2>2 DEF Log, AuditInv, TrailOfThePast, Entry, database
    <3>2. OpenEntryIsNewest'
      BY <2>2 DEF Log, AuditInv, TrailOfThePast, OpenEntryIsNewest, Entry, database
    <3> QED
      BY <2>2, <3>1, <3>2 DEF Log, AuditInv, AuditExplainsRow, EntriesOf, database
  <2>3. ASSUME NEW q \in Request, Commit(q) PROVE AuditInv'
    <3> DEFINE n == AuditEntry(q)
    <3>1. /\ job[q].report \in Report
          /\ job[q].field \in Field
          /\ job[q].value \in Value
      BY JobParts
    <3>2. /\ n.report = job[q].report
          /\ n.field = job[q].field
          /\ n.after = job[q].value
          /\ n.at = loggedAt[q]
          /\ n.by = q
      BY DEF AuditEntry
    <3>3. /\ audit' = audit \cup {n}
          /\ clock' = clock
          /\ loggedAt' = loggedAt
          /\ pc[q] = "told"
          /\ pc' = [pc EXCEPT ![q] = "done"]
      BY <2>3 DEF Commit, locals
    <3>4. \A e \in audit : e.report = n.report => e.at < n.at
      BY <3>2, <3>3 DEF AuditInv, OpenEntryIsNewest
    <3>5. TrailOfThePast'
      BY <3>2, <3>3 DEF AuditInv, TrailOfThePast, OpenEntryIsNewest, Entry
    <3>6. OpenEntryIsNewest'
      BY <3>2, <3>3 DEF AuditInv, OpenEntryIsNewest, LockExclusive, Holding
    <3>7. AuditExplainsRow'
      <4>1. SUFFICES ASSUME NEW r \in Report, NEW f \in Field
                     PROVE  /\ EntriesOf(r, f)' = {} => row'[r][f] = FiledAs(r)[f]
                            /\ \A e \in EntriesOf(r, f)' :
                                 (\A d \in EntriesOf(r, f)' : d.at <= e.at)
                                   => row'[r][f] = e.after
        BY DEF AuditExplainsRow
      <4>2. CASE r = n.report /\ f = n.field
        <5>1. row'[r][f] = n.after
          BY <2>3, <3>1, <3>2, <4>2 DEF Commit, SavedRow, Fields
        <5>2. n \in EntriesOf(r, f)'
          BY <3>3, <4>2 DEF EntriesOf
        <5>3. ASSUME NEW e \in EntriesOf(r, f)', \A d \in EntriesOf(r, f)' : d.at <= e.at
              PROVE  e = n
          <6>1. CASE e \in audit
            <7>1. e.at < n.at /\ n.at <= e.at
              BY <3>4, <4>2, <5>2, <5>3, <6>1 DEF EntriesOf
            <7> QED
              BY <6>1, <7>1, <3>2 DEF Entry
          <6> QED
            BY <3>3, <5>3, <6>1 DEF EntriesOf
        <5> QED
          BY <5>1, <5>2, <5>3
      <4>3. CASE ~(r = n.report /\ f = n.field)
        <5>1. row'[r][f] = row[r][f]
          BY <2>3, <3>1, <3>2, <4>3 DEF Commit, SavedRow, Fields
        <5>2. EntriesOf(r, f)' = EntriesOf(r, f)
          BY <3>3, <4>3 DEF EntriesOf
        <5> QED
          BY <5>1, <5>2 DEF AuditInv, AuditExplainsRow
      <4> QED
        BY <4>2, <4>3
    <3> QED
      BY <3>5, <3>6, <3>7 DEF AuditInv
  <2>4. CASE UNCHANGED vars
    BY <2>4 DEF vars, database, locals, AuditInv, TrailOfThePast, OpenEntryIsNewest,
                AuditExplainsRow, EntriesOf
  <2> QED
    BY <2>1, <2>2, <2>3, <2>4 DEF Next, Handle, Quiet
<1> QED
  BY <1>1, <1>2, TypeCorrect, RowLockExclusive, PTL DEF Spec

(* The newest entry of a report and field always carries the value the row *)
(* has, and a field without entries has the value the report was filed     *)
(* with, however the edits interleave and wherever they fail.              *)
THEOREM AuditTrailCorrect == Spec => []AuditExplainsRow
<1>1. AuditInv => AuditExplainsRow
  BY DEF AuditInv
<1> QED
  BY <1>1, AuditInvHolds, PTL

-----------------------------------------------------------------------------
(* THE DASHBOARD AND THE ALERTS                                            *)

(* From Stamp on, the instance carries the value that is asked for.        *)
InstanceIsEdited ==
  \A q \in Request :
    pc[q] \in {"stamped", "done"} \cup Holding => mem[q][job[q].field] = job[q].value

(* A board entry is what its last broadcaster asked for.                   *)
TellerTold ==
  \A r \in Report : teller[r] \in Request =>
    LET q == teller[r] IN
    /\ job[q].field = "status"
    /\ job[q].report = r
    /\ pc[q] \in {"told", "done", "failed"}

(* What an open transaction announced is still there when it commits: the  *)
(* row lock keeps other broadcasts about the report out.                   *)
AnnouncementStands ==
  \A q \in Request : pc[q] = "told" =>
    /\ job[q].field = "status" =>
         /\ teller[job[q].report] = q
         /\ board[job[q].report]["status"] = job[q].value
    /\ job[q].field = "assigned_to" =>
         \A c \in Contact[job[q].value] : <<job[q].report, job[q].value, c>> \in alerts

NoticeInv ==
  InstanceIsEdited /\ TellerTold /\ AnnouncementStands /\ BoardShowsStatus /\ AssigneeAlerted

LEMMA NoticeInvHolds == Spec => []NoticeInv
<1>1. Init => NoticeInv
  <2> SUFFICES ASSUME Init PROVE NoticeInv
    OBVIOUS
  <2>1. InstanceIsEdited /\ TellerTold /\ AnnouncementStands
    BY EditsAssumption DEF Init, InstanceIsEdited, TellerTold, AnnouncementStands, Holding
  <2>2. BoardShowsStatus
    BY DEF Init, BoardShowsStatus
  <2>3. AssigneeAlerted
    <3> SUFFICES ASSUME NEW r \in Report, NEW o \in Officer,
                        row[r]["assigned_to"] = o, NEW c \in Contact[o]
                 PROVE  <<r, o, c>> \in alerts
      BY DEF AssigneeAlerted
    <3>1. Chosen[r] = o
      BY DEF Init, FiledAs, Field
    <3>2. <<r, o, c>> \in AlertsOf(r, Chosen[r])
      BY <3>1 DEF AlertsOf
    <3> QED
      BY <3>2 DEF Init
  <2> QED
    BY <2>1, <2>2, <2>3 DEF NoticeInv
<1>2. TypeOK /\ LockExclusive /\ NoticeInv /\ [Next]_vars => NoticeInv'
  <2> SUFFICES ASSUME TypeOK, LockExclusive, NoticeInv, [Next]_vars PROVE NoticeInv'
    OBVIOUS
  <2>0. /\ job' = job
        /\ job \in [Request -> Job]
        /\ row \in [Report -> Fields]
        /\ board \in [Report -> Fields]
        /\ teller \in [Report -> Request \cup {NoRequest}]
        /\ mem \in [Request -> Fields]
        /\ pc \in [Request -> {"idle"} \cup Active \cup Final]
    BY JobFixed DEF TypeOK
  <2> USE <2>0 DEF Goto, NoticeInv
  <2>1. ASSUME NEW q \in Request,
               \/ Send(q) \/ Fetch(q) \/ Conflict(q) \/ Unchanged(q) \/ Stamp(q)
               \/ Save(q) \/ Log(q) \/ Fail(q)
        PROVE  NoticeInv'
    <3>1. /\ UNCHANGED <<row, board, teller, alerts>>
          /\ pc[q] \notin {"done", "failed"}
          /\ pc'[q] \notin {"told", "done"}
          /\ \A p \in Request \ {q} : pc'[p] = pc[p]
          /\ pc[q] = "told" => pc'[q] = "failed"
      BY <2>1 DEF Send, Fetch, Conflict, Unchanged, Stamp, Save, Log, Fail,
                  database, outside, locals, Active, Holding
    <3>2. InstanceIsEdited'
      <4>1. CASE Stamp(q)
        <5>1. job[q].field \in Field
          BY JobParts
        <5> QED
          BY <4>1, <5>1 DEF Stamp, InstanceIsEdited, Fields, Holding
      <4>2. CASE Fetch(q)
        BY <4>2 DEF Fetch, InstanceIsEdited, Holding
      <4>3. CASE Send(q) \/ Conflict(q) \/ Unchanged(q) \/ Save(q) \/ Log(q) \/ Fail(q)
        BY <4>3 DEF Send, Conflict, Unchanged, Save, Log, Fail, InstanceIsEdited, Holding,
                    locals
      <4> QED
        BY <2>1, <4>1, <4>2, <4>3
    <3>3. TellerTold'
      BY <3>1 DEF TellerTold
    <3>4. AnnouncementStands'
      BY <3>1 DEF AnnouncementStands
    <3>5. BoardShowsStatus'
      BY <3>1 DEF BoardShowsStatus
    <3> QED
      BY <3>1, <3>2, <3>3, <3>4, <3>5 DEF AssigneeAlerted
  <2>2. ASSUME NEW q \in Request, TellBoards(q) PROVE NoticeInv'
    <3>0. job[q].report \in Report
      BY JobParts
    <3>1. /\ job[q].field = "status"
          /\ pc[q] = "logged"
          /\ pc' = [pc EXCEPT ![q] = "told"]
          /\ board' = [board EXCEPT ![job[q].report] = mem[q]]
          /\ teller' = [teller EXCEPT ![job[q].report] = q]
          /\ UNCHANGED <<row, alerts, mem>>
      BY <2>2 DEF TellBoards, database, locals
    <3>2. InstanceIsEdited'
      BY <3>1 DEF InstanceIsEdited, Holding
    <3>3. TellerTold'
      BY <3>0, <3>1 DEF TellerTold
    <3>4. AnnouncementStands'
      BY <3>0, <3>1 DEF AnnouncementStands, InstanceIsEdited, LockExclusive, Holding
    <3>5. BoardShowsStatus'
      BY <3>0, <3>1, EditsAssumption DEF BoardShowsStatus
    <3> QED
      BY <3>1, <3>2, <3>3, <3>4, <3>5 DEF AssigneeAlerted
  <2>3. ASSUME NEW q \in Request, TellOfficer(q) PROVE NoticeInv'
    <3>0. job[q].report \in Report /\ job[q].value \in Officer
      BY <2>3, JobParts DEF TellOfficer
    <3>1. /\ job[q].field = "assigned_to"
          /\ pc[q] = "logged"
          /\ pc' = [pc EXCEPT ![q] = "told"]
          /\ alerts' = alerts \cup
                 {<<job[q].report, job[q].value, c>> : c \in Contact[job[q].value]}
          /\ UNCHANGED <<row, board, teller, mem>>
      BY <2>3, <3>0 DEF TellOfficer, Addressee, AlertsOf, database, locals
    <3>2. InstanceIsEdited'
      BY <3>1 DEF InstanceIsEdited, Holding
    <3>3. TellerTold'
      BY <3>1 DEF TellerTold
    <3>4. AnnouncementStands'
      BY <3>0, <3>1 DEF AnnouncementStands
    <3>5. BoardShowsStatus'
      BY <3>1 DEF BoardShowsStatus
    <3> QED
      BY <3>1, <3>2, <3>3, <3>4, <3>5 DEF AssigneeAlerted
  <2>4. ASSUME NEW q \in Request, Commit(q) PROVE NoticeInv'
    <3>0. /\ job[q].report \in Report
          /\ job[q].field \in Field
          /\ job[q].field = "assigned_to" => job[q].value \in Officer
      BY JobParts
    <3>1. /\ pc[q] = "told"
          /\ pc' = [pc EXCEPT ![q] = "done"]
          /\ row' = [row EXCEPT ![job[q].report] =
                       [row[job[q].report] EXCEPT ![job[q].field] = job[q].value]]
          /\ UNCHANGED <<board, teller, alerts, mem>>
      BY <2>4 DEF Commit, SavedRow, outside, locals
    <3>2. InstanceIsEdited'
      BY <3>1 DEF InstanceIsEdited, Holding
    <3>3. TellerTold'
      BY <3>1 DEF TellerTold
    <3>4. AnnouncementStands'
      BY <3>1 DEF AnnouncementStands
    <3>5. BoardShowsStatus'
      <4> SUFFICES ASSUME NEW r \in Report,
                          teller[r] = NoRequest \/ (teller[r] \in Request /\ pc'[teller[r]] = "done")
                   PROVE  board[r]["status"] = row'[r]["status"]
        BY <3>1 DEF BoardShowsStatus
      <4>1. CASE r = job[q].report /\ job[q].field = "status"
        BY <3>0, <3>1, <4>1 DEF AnnouncementStands, Fields, Field
      <4>2. CASE ~(r = job[q].report /\ job[q].field = "status")
        <5>1. row'[r]["status"] = row[r]["status"]
          BY <3>0, <3>1, <4>2 DEF Fields, Field
        <5>2. teller[r] # q
          BY <4>2 DEF TellerTold
        <5> QED
          BY <3>1, <5>1, <5>2 DEF BoardShowsStatus
      <4> QED
        BY <4>1, <4>2
    <3>6. AssigneeAlerted'
      <4> SUFFICES ASSUME NEW r \in Report, NEW o \in Officer,
                          row'[r]["assigned_to"] = o,
                          NEW c \in Contact[o]
                   PROVE  <<r, o, c>> \in alerts
        BY <3>1 DEF AssigneeAlerted
      <4>1. CASE r = job[q].report /\ job[q].field = "assigned_to"
        BY <3>0, <3>1, <4>1 DEF AnnouncementStands, Fields, Field
      <4>2. CASE ~(r = job[q].report /\ job[q].field = "assigned_to")
        <5>1. row'[r]["assigned_to"] = row[r]["assigned_to"]
          BY <3>0, <3>1, <4>2 DEF Fields, Field
        <5> QED
          BY <5>1 DEF AssigneeAlerted
      <4> QED
        BY <4>1, <4>2
    <3> QED
      BY <3>2, <3>3, <3>4, <3>5, <3>6
  <2>5. CASE UNCHANGED vars
    BY <2>5 DEF vars, database, outside, locals, InstanceIsEdited, TellerTold,
                AnnouncementStands, BoardShowsStatus, AssigneeAlerted
  <2> QED
    BY <2>1, <2>2, <2>3, <2>4, <2>5 DEF Next, Handle, Quiet
<1> QED
  BY <1>1, <1>2, TypeCorrect, RowLockExclusive, PTL DEF Spec

(* A dashboard that gets every broadcast never shows a stale status once   *)
(* the last broadcaster has committed, although broadcasts precede commits.*)
THEOREM BoardCorrect == Spec => []BoardShowsStatus
<1>1. NoticeInv => BoardShowsStatus
  BY DEF NoticeInv
<1> QED
  BY <1>1, NoticeInvHolds, PTL

(* No officer is assigned a report without having been alerted to it.      *)
THEOREM AlertsCorrect == Spec => []AssigneeAlerted
<1>1. NoticeInv => AssigneeAlerted
  BY DEF NoticeInv
<1> QED
  BY <1>1, NoticeInvHolds, PTL

-----------------------------------------------------------------------------
(* VERSIONS                                                                *)

(* Requests whose instance carries a stamp of their own.                   *)
Stamped(q) == pc[q] \in {"stamped"} \cup Holding

(* Nobody has seen a version that the clock has not reached.               *)
VersionsPast ==
  /\ \A r \in Report : version[r] <= clock
  /\ \A q \in Request : expected[q] # NoVersion => expected[q] <= clock
  /\ \A q \in Request : Stamped(q) => memAt[q] <= clock

(* A stamp that is not yet committed is no row's version, nobody's expected*)
(* version and no other request's stamp.                                   *)
StampsFresh ==
  \A q \in Request : Stamped(q) =>
    /\ \A r \in Report : version[r] # memAt[q]
    /\ \A p \in Request : expected[p] # memAt[q]
    /\ \A p \in Request \ {q} : Stamped(p) => memAt[p] # memAt[q]

(* An expected version that is still the row's tells that no edit of the   *)
(* report was committed since the client fetched it.                       *)
VersionTellsEdits ==
  \A q \in Request :
    (pc[q] # "idle" /\ expected[q] # NoVersion /\ version[job[q].report] = expected[q])
      => edits[job[q].report] = seen[q].sent

(* What the version check concludes from the fetched instance.             *)
CheckIsRight ==
  \A q \in Request :
    (pc[q] = "fetched" /\ expected[q] # NoVersion /\ memAt[q] = expected[q])
      => seen[q].read = seen[q].sent

CheckPassed ==
  \A q \in Request :
    (Stamped(q) \/ pc[q] = "done") /\ expected[q] # NoVersion
      => seen[q].read = seen[q].sent

VersionInv == VersionsPast /\ StampsFresh /\ VersionTellsEdits /\ CheckIsRight /\ CheckPassed

LEMMA VersionInvHolds == Spec => []VersionInv
<1>1. Init => VersionInv
  BY DEF Init, VersionInv, VersionsPast, StampsFresh, VersionTellsEdits, CheckIsRight,
         CheckPassed, Stamped, Holding
<1>2. TypeOK /\ VersionInv /\ [Next]_vars => VersionInv'
  <2> SUFFICES ASSUME TypeOK, VersionInv, [Next]_vars PROVE VersionInv'
    OBVIOUS
  <2>0. /\ job' = job
        /\ job \in [Request -> Job]
        /\ clock \in Nat
        /\ version \in [Report -> Nat]
        /\ edits \in [Report -> Nat]
        /\ expected \in [Request -> Nat \cup {NoVersion}]
        /\ memAt \in [Request -> Nat]
        /\ seen \in [Request -> [sent : Nat, read : Nat, wrote : Nat]]
        /\ pc \in [Request -> {"idle"} \cup Active \cup Final]
        /\ NoVersion \notin Nat
        /\ \A q \in Request : job[q].report \in Report
    BY JobFixed, JobParts, EditsAssumption DEF TypeOK
  <2> USE <2>0 DEF Goto, VersionInv
  <2>1. ASSUME NEW q \in Request, Send(q) PROVE VersionInv'
    <3>1. /\ pc[q] = "idle"
          /\ pc' = [pc EXCEPT ![q] = "sent"]
          /\ UNCHANGED <<clock, version, edits, memAt>>
          /\ expected' = [expected EXCEPT ![q] =
                            IF job[q].checked THEN version[job[q].report] ELSE NoVersion]
          /\ seen'[q].sent = edits[job[q].report]
          /\ \A p \in Request \ {q} : seen'[p] = seen[p]
      <4>1. seen' = [seen EXCEPT ![q] = [seen[q] EXCEPT !.sent = edits[job[q].report]]]
        BY <2>1 DEF Send
      <4> QED
        BY <2>1, <4>1 DEF Send, database
    <3>2. \A p \in Request : Stamped(p)' <=> Stamped(p)
      BY <3>1 DEF Stamped, Holding
    <3>3. VersionsPast'
      BY <3>1, <3>2 DEF VersionsPast
    <3>4. StampsFresh'
      BY <3>1, <3>2 DEF StampsFresh
    <3>5. VersionTellsEdits'
      BY <3>1 DEF VersionTellsEdits
    <3>6. CheckIsRight' /\ CheckPassed'
      BY <3>1, <3>2 DEF CheckIsRight, CheckPassed, Stamped, Holding
    <3> QED
      BY <3>3, <3>4, <3>5, <3>6
  <2>2. ASSUME NEW q \in Request, Fetch(q) PROVE VersionInv'
    <3>1. /\ pc[q] = "sent"
          /\ pc' = [pc EXCEPT ![q] = "fetched"]
          /\ UNCHANGED <<clock, version, edits, expected>>
          /\ memAt' = [memAt EXCEPT ![q] = version[job[q].report]]
          /\ seen'[q].sent = seen[q].sent
          /\ seen'[q].read = edits[job[q].report]
          /\ \A p \in Request \ {q} : seen'[p] = seen[p]
      <4>1. seen' = [seen EXCEPT ![q] = [seen[q] EXCEPT !.read = edits[job[q].report]]]
        BY <2>2 DEF Fetch
      <4> QED
        BY <2>2, <4>1 DEF Fetch, database
    <3>2. \A p \in Request : (Stamped(p)' <=> Stamped(p)) /\ (Stamped(p) => p # q)
      BY <3>1 DEF Stamped, Holding
    <3>3. VersionsPast'
      BY <3>1, <3>2 DEF VersionsPast
    <3>4. StampsFresh'
      BY <3>1, <3>2 DEF StampsFresh
    <3>5. VersionTellsEdits'
      BY <3>1 DEF VersionTellsEdits
    <3>6. CheckIsRight'
      BY <3>1 DEF CheckIsRight, VersionTellsEdits
    <3>7. CheckPassed'
      BY <3>1, <3>2 DEF CheckPassed
    <3> QED
      BY <3>3, <3>4, <3>5, <3>6, <3>7
  <2>3. ASSUME NEW q \in Request, Stamp(q) PROVE VersionInv'
    <3>1. /\ pc[q] = "fetched"
          /\ pc' = [pc EXCEPT ![q] = "stamped"]
          /\ clock' = clock + 1
          /\ memAt' = [memAt EXCEPT ![q] = clock + 1]
          /\ UNCHANGED <<version, edits, expected, seen>>
          /\ expected[q] # NoVersion => memAt[q] = expected[q]
      BY <2>3 DEF Stamp, VersionOK, database
    <3>2. \A p \in Request : p # q => (Stamped(p)' <=> Stamped(p))
      BY <3>1 DEF Stamped, Holding
    <3>3. VersionsPast'
      BY <3>1, <3>2 DEF VersionsPast
    <3>4. StampsFresh'
      <4> SUFFICES ASSUME NEW p \in Request, Stamped(p)'
                   PROVE  /\ \A r \in Report : version[r] # memAt'[p]
                          /\ \A x \in Request : expected[x] # memAt'[p]
                          /\ \A x \in Request \ {p} : Stamped(x)' => memAt'[x] # memAt'[p]
        BY <3>1 DEF StampsFresh
      <4>1. CASE p = q
        BY <3>1, <3>2, <4>1 DEF VersionsPast
      <4>2. CASE p # q
        <5>1. Stamped(p) /\ memAt'[p] = memAt[p] /\ memAt[p] <= clock
          BY <3>1, <3>2, <4>2 DEF VersionsPast
        <5>2. ASSUME NEW x \in Request \ {p}, Stamped(x)' PROVE memAt'[x] # memAt'[p]
          <6>1. CASE x = q
            BY <3>1, <5>1, <6>1
          <6>2. CASE x # q
            BY <3>1, <3>2, <5>1, <5>2, <6>2 DEF StampsFresh
          <6> QED
            BY <6>1, <6>2
        <5> QED
          BY <5>1, <5>2 DEF StampsFresh
      <4> QED
        BY <4>1, <4>2
    <3>5. VersionTellsEdits'
      BY <3>1 DEF VersionTellsEdits
    <3>6. CheckIsRight'
      BY <3>1 DEF CheckIsRight
    <3>7. CheckPassed'
      BY <3>1, <3>2 DEF CheckPassed, CheckIsRight
    <3> QED
      BY <3>3, <3>4, <3>5, <3>6, <3>7
  <2>4. ASSUME NEW q \in Request, Commit(q) PROVE VersionInv'
    <3>1. /\ pc[q] = "told"
          /\ pc' = [pc EXCEPT ![q] = "done"]
          /\ version' = [version EXCEPT ![job[q].report] = memAt[q]]
          /\ edits' = [edits EXCEPT ![job[q].report] = edits[job[q].report] + 1]
          /\ UNCHANGED <<clock, expected, memAt, seen>>
          /\ Stamped(q)
      BY <2>4 DEF Commit, locals, Stamped, Holding
    <3>2. \A p \in Request : (p # q => (Stamped(p)' <=> Stamped(p))) /\ ~Stamped(q)'
      BY <3>1 DEF Stamped, Holding
    <3>3. VersionsPast'
      BY <3>1, <3>2 DEF VersionsPast
    <3>4. StampsFresh'
      BY <3>1, <3>2 DEF StampsFresh
    <3>5. VersionTellsEdits'
      BY <3>1 DEF VersionTellsEdits, StampsFresh
    <3>6. CheckIsRight'
      BY <3>1 DEF CheckIsRight
    <3>7. CheckPassed'
      BY <3>1, <3>2 DEF CheckPassed
    <3> QED
      BY <3>3, <3>4, <3>5, <3>6, <3>7
  <2>5. ASSUME NEW q \in Request,
               \/ Conflict(q) \/ Unchanged(q) \/ Save(q) \/ Log(q)
               \/ TellBoards(q) \/ TellOfficer(q) \/ Fail(q)
        PROVE  VersionInv'
    <3>1. /\ UNCHANGED <<version, edits, expected, memAt>>
          /\ clock' \in {clock, clock + 1}
          /\ \A p \in Request : seen'[p].sent = seen[p].sent /\ seen'[p].read = seen[p].read
          /\ \A p \in Request \ {q} : pc'[p] = pc[p]
          /\ pc[q] # "idle"
          /\ pc'[q] \notin {"idle", "fetched", "done"}
          /\ Stamped(q)' => Stamped(q)
      <4>1. CASE Save(q)
        <5>1. seen' = [seen EXCEPT ![q] = [seen[q] EXCEPT !.wrote = edits[job[q].report]]]
          BY <4>1 DEF Save
        <5>2. /\ UNCHANGED <<version, edits, expected, memAt, clock>>
              /\ pc[q] = "stamped"
              /\ pc' = [pc EXCEPT ![q] = "saved"]
          BY <4>1 DEF Save, database
        <5> QED
          BY <5>1, <5>2 DEF Stamped
      <4>2. CASE Conflict(q) \/ Unchanged(q) \/ Log(q) \/ TellBoards(q) \/ TellOfficer(q)
                 \/ Fail(q)
        BY <4>2 DEF Conflict, Unchanged, Log, TellBoards, TellOfficer, Fail, database,
                    locals, Stamped, Active, Holding
      <4> QED
        BY <2>5, <4>1, <4>2
    <3>2. \A p \in Request : Stamped(p)' => Stamped(p)
      BY <3>1 DEF Stamped
    <3>3. VersionsPast'
      BY <3>1, <3>2 DEF VersionsPast
    <3>4. StampsFresh'
      BY <3>1, <3>2 DEF StampsFresh
    <3>5. VersionTellsEdits'
      BY <3>1 DEF VersionTellsEdits
    <3>6. CheckIsRight'
      BY <3>1 DEF CheckIsRight
    <3>7. CheckPassed'
      BY <3>1, <3>2 DEF CheckPassed
    <3> QED
      BY <3>3, <3>4, <3>5, <3>6, <3>7
  <2>6. CASE UNCHANGED vars
    BY <2>6 DEF vars, database, locals, VersionsPast, StampsFresh, VersionTellsEdits,
                CheckIsRight, CheckPassed, Stamped
  <2> QED
    BY <2>1, <2>2, <2>3, <2>4, <2>5, <2>6 DEF Next, Handle, Quiet
<1> QED
  BY <1>1, <1>2, TypeCorrect, PTL DEF Spec

(* The version check is exact about what the server fetched: a client whose*)
(* copy was stale by then never gets its edit committed.                   *)
THEOREM VersionCheckCorrect == Spec => []StaleClientRefused
<1>1. VersionInv => StaleClientRefused
  BY DEF VersionInv, CheckPassed, StaleClientRefused
<1> QED
  BY <1>1, VersionInvHolds, PTL

-----------------------------------------------------------------------------
(* THE REFINEMENT                                                          *)

(* ReportEdits implements AuditedReports: a commit is one Change, with the *)
(* entry it adds, and no other step touches what is stored.                *)
THEOREM Refinement == Spec => KeepsPromise
<1>1. Init => Promise!Init
  <2> SUFFICES ASSUME Init PROVE Promise!Init
    OBVIOUS
  <2>1. ASSUME NEW r \in Report PROVE FiledAs(r) \in Promise!Created
    <3>1. Chosen[r] \in Officer \cup {Nobody}
      BY EditsAssumption
    <3> QED
      BY <3>1 DEF FiledAs, Promise!Created, Field, Promise!Column
  <2> QED
    BY <2>1 DEF Init, Promise!Init
<1>2. TypeOK /\ AuditInv /\ [Next]_vars => [Promise!Next]_(Promise!stored)
  <2> SUFFICES ASSUME TypeOK, AuditInv, [Next]_vars
               PROVE  [Promise!Next]_(Promise!stored)
    OBVIOUS
  <2> USE DEF Goto, Promise!stored, database
  <2>1. ASSUME NEW q \in Request, Commit(q) PROVE Promise!Next
    <3> DEFINE n == AuditEntry(q)
    <3>1. /\ job[q].report \in Report
          /\ job[q].field \in Field
          /\ job[q].value \in Value
      BY JobParts DEF TypeOK
    <3>2. /\ n.report = job[q].report
          /\ n.field = job[q].field
          /\ n.after = job[q].value
          /\ n.at = loggedAt[q]
          /\ n.by = q
      BY DEF AuditEntry
    <3>3. n \in Promise!Record
      BY <3>1 DEF AuditEntry, TypeOK, Promise!Record, Promise!Column, Promise!Contents,
                  Field, Value
    <3>4. \A d \in audit : d.by # n.by
      BY <2>1, <3>2 DEF Commit, AuditInv, TrailOfThePast
    <3>5. \A d \in audit : (d.report = n.report /\ d.field = n.field) => d.at < n.at
      BY <2>1, <3>2 DEF Commit, AuditInv, OpenEntryIsNewest
    <3>6. Promise!Change(n)
      BY <2>1, <3>2, <3>4, <3>5 DEF Commit, SavedRow, Promise!Change
    <3>7. n \in audit'
      BY <2>1 DEF Commit
    <3> QED
      BY <3>3, <3>6, <3>7 DEF Promise!Next
  <2>2. ASSUME NEW q \in Request,
               \/ Send(q) \/ Fetch(q) \/ Conflict(q) \/ Unchanged(q) \/ Stamp(q)
               \/ Save(q) \/ Log(q) \/ TellBoards(q) \/ TellOfficer(q) \/ Fail(q)
        PROVE  UNCHANGED Promise!stored
    BY <2>2 DEF Send, Fetch, Conflict, Unchanged, Stamp, Save, Log, TellBoards,
                TellOfficer, Fail
  <2>3. CASE UNCHANGED vars
    BY <2>3 DEF vars
  <2> QED
    BY <2>1, <2>2, <2>3 DEF Next, Handle, Quiet
<1> QED
  BY <1>1, <1>2, TypeCorrect, AuditInvHolds, PTL DEF Spec, KeepsPromise, Promise!Spec
=============================================================================
