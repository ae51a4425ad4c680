---------------------------- MODULE ReportIntake ----------------------------
(***************************************************************************)
(* Filing a report: ReportCreateView (live) and the create_report action   *)
(* of SyncView (sync), both through ReportCreateSerializer and             *)
(* ReportService.create_report (apps/reports).                             *)
(*                                                                         *)
(* An attempt is one request.  It is throttled (live only), validated in   *)
(* autocommit, and then handled in ONE transaction: look the idempotency   *)
(* key up, insert the report, its identity, the audit entry, the           *)
(* classification, the notification; broadcast; alert the officer; notify  *)
(* the department; commit.  The report an attempt creates is named after   *)
(* the attempt.                                                            *)
(***************************************************************************)
EXTENDS Naturals, FiniteSets

CONSTANTS
  Attempt,    \* the requests that will be made
  Reporter,   \* users with role 'student' or 'staff'
  Officer,    \* users with role 'security'
  Nobody,     \* no assignee, no head
  Key,        \* idempotency keys that clients generate
  NoKey,      \* idempotency_key is absent (NULL in the column)
  Blank,      \* idempotency_key is the empty string
  NoReport,   \* no report was found
  Process,    \* server processes; each has its own LocMemCache
  Limit,      \* the 5 of rate='5/h'
  MaxHour,    \* bound: hours that pass
  Department, \* names of the departments in the database
  Head,       \* the head of each department, or Nobody
  Member,     \* the members of each department
  Job         \* what the clients may ask for

User == Reporter \cup Officer

(* CATEGORY_DEPARTMENT_MAP, and the 'Other' branch of create_report.       *)
DepartmentName ==
  [theft |-> "Security", assault |-> "Security", harassment_gbv |-> "Security",
   medical |-> "Health & Safety", fire |-> "Health & Safety",
   academic |-> "Academic Affairs", other |-> "Other"]
Category == DOMAIN DepartmentName

(* The fields of a submission that its handling depends on.  "custom" says *)
(* that custom_department is filled in; "evidence" that files come along.  *)
Submission ==
  [user : User, key : Key \cup {NoKey, Blank}, category : Category, custom : BOOLEAN,
   officer : Officer \cup {Nobody}, live : BOOLEAN, evidence : BOOLEAN]

ASSUME IntakeAssumption ==
  /\ Reporter \cap Officer = {}
  /\ Nobody \notin User
  /\ NoReport \notin Attempt
  /\ Key \cap {NoKey, Blank} = {} /\ NoKey # Blank
  /\ Limit \in Nat /\ MaxHour \in Nat
  /\ Head \in [Department -> User \cup {Nobody}]
  /\ Member \in [Department -> SUBSET User]
  /\ Job \subseteq Submission

VARIABLES
  hour,      \* the current window of the rate limiter
  count,     \* its counters: posts per process and user in this window
  pc, job,
  came,      \* history: the hour in which a post was let through
  known,     \* history: the report that already had the key on arrival
  found,     \* the report the lookup by key returned
  pending,   \* what the open transaction of an attempt has written
  stored,    \* what is committed of the report of an attempt
  heard,     \* reports whose creation was broadcast
  alerts     \* SMS and e-mails handed to the gateways

limiter == <<hour, count>>
history == <<came, known>>
vars    == <<limiter, pc, job, history, found, pending, stored, heard, alerts>>

-----------------------------------------------------------------------------
(* Rows of one report, in the order create_report writes them.             *)
Kind == {"report", "identity", "audit", "metadata", "notice"}
After == [report |-> "identity", identity |-> "audit", audit |-> "metadata",
          metadata |-> "notice"]

Rows == [rows : SUBSET Kind, last : Kind, told : SUBSET User]
Nothing == [rows |-> {}, last |-> "report", told |-> {}]

Final  == {"refused", "limited", "invalid", "existing", "done", "crashed", "failed"}
Inside == {"inserted", "heard", "alerted", "notified"}
Active == {"admitted", "valid", "looked"} \cup Inside

Init ==
  /\ hour = 0
  /\ count = [p \in Process |-> [u \in User |-> 0]]
  /\ pc = [q \in Attempt |-> "idle"]
  /\ job \in [Attempt -> Job]
  /\ came = [q \in Attempt |-> 0]
  /\ known = [q \in Attempt |-> NoReport]
  /\ found = [q \in Attempt |-> NoReport]
  /\ pending = [q \in Attempt |-> Nothing]
  /\ stored = [q \in Attempt |-> Nothing]
  /\ heard = {}
  /\ alerts = {}

Goto(q, from, to) == pc[q] = from /\ pc' = [pc EXCEPT ![q] = to]

(* Committed reports with the key of an attempt.                           *)
Holders(q) == {r \in Attempt : stored[r] # Nothing /\ job[r].key = job[q].key}
Keyed(q) == job[q].key \in Key

(* The department of a category, where one of that name exists.            *)
Routed(c) == {d \in Department : d = DepartmentName[c]}

(* The head and the members, as a set: nobody is notified twice.           *)
Recipients(c) == UNION {Member[d] \cup ({Head[d]} \ {Nobody}) : d \in Routed(c)}

-----------------------------------------------------------------------------
(* The client's request reaches the server.  IsStudentOrStaff refuses other*)
(* roles before anything else.                                             *)
Refuse(q) ==
  /\ job[q].user \notin Reporter
  /\ Goto(q, "idle", "refused")
  /\ UNCHANGED <<limiter, job, history, found, pending, stored, heard, alerts>>

Arrive(q, to) ==
  /\ job[q].user \in Reporter
  /\ Goto(q, "idle", to)
  /\ came' = [came EXCEPT ![q] = hour]
  /\ known' = IF Keyed(q) /\ Holders(q) # {}
              THEN [known EXCEPT ![q] = CHOOSE r \in Holders(q) : TRUE]
              ELSE known
  /\ UNCHANGED <<hour, job, found, pending, stored, heard, alerts>>

(* @ratelimit(key='user', rate='5/h', block=True): every post counts, also *)
(* the ones that will be refused.                                          *)
AdmitOneMore(q) ==  \* fault: the counter is compared with the wrong bound
  /\ job[q].live
  /\ \E p \in Process :
       /\ count[p][job[q].user] <= Limit
       /\ count' = [count EXCEPT ![p][job[q].user] = @ + 1]
  /\ Arrive(q, "admitted")
AdmitUncounted(q) ==  \* fault: the limiter is asked without increment
  /\ job[q].live
  /\ \E p \in Process : count[p][job[q].user] < Limit
  /\ Arrive(q, "admitted")
  /\ UNCHANGED count
Admit(q) ==
  /\ job[q].live
  /\ \E p \in Process :
       /\ count[p][job[q].user] < Limit
       /\ count' = [count EXCEPT ![p][job[q].user] = @ + 1]
  /\ Arrive(q, "admitted")

Block(q) ==
  /\ job[q].live
  /\ \E p \in Process : count[p][job[q].user] >= Limit
  /\ Arrive(q, "limited")
  /\ UNCHANGED count

(* SyncView has no limiter.                                                *)
Sync(q) ==
  /\ ~job[q].live
  /\ Arrive(q, "admitted")
  /\ UNCHANGED count

(* The window of the limiter moves on.                                     *)
NextHour ==
  /\ hour < MaxHour
  /\ hour' = hour + 1
  /\ count' = [p \in Process |-> [u \in User |-> 0]]
  /\ UNCHANGED <<pc, job, history, found, pending, stored, heard, alerts>>

(* ReportCreateSerializer: "other" needs a custom department, and the      *)
(* UniqueValidator of the unique column refuses a key that a committed     *)
(* report has.  A blank key is not validated.  In a batch no file can be   *)
(* sent, and the evidence field takes nothing else.                        *)
Acceptable(q) ==
  /\ job[q].category = "other" => job[q].custom
  /\ job[q].evidence => job[q].live

Invalid(q) ==
  /\ ~Acceptable(q) \/ (Keyed(q) /\ Holders(q) # {})
  /\ Goto(q, "admitted", "invalid")
  /\ UNCHANGED <<limiter, job, history, found, pending, stored, heard, alerts>>

Validate(q) ==
  /\ Acceptable(q) /\ ~(Keyed(q) /\ Holders(q) # {})
  /\ Goto(q, "admitted", "valid")
  /\ UNCHANGED <<limiter, job, history, found, pending, stored, heard, alerts>>

(* create_report looks the key up and returns the report that has it.      *)
Existing(q) ==
  /\ Keyed(q)
  /\ \E r \in Holders(q) : found' = [found EXCEPT ![q] = r]
  /\ Goto(q, "valid", "existing")
  /\ UNCHANGED <<limiter, job, history, pending, stored, heard, alerts>>

Lookup(q) ==
  /\ ~(Keyed(q) /\ Holders(q) # {})
  /\ Goto(q, "valid", "looked")
  /\ UNCHANGED <<limiter, job, history, found, pending, stored, heard, alerts>>

(* Report.objects.create is given the files too, and cannot assign them: an*)
(* error nobody catches, as the IntegrityError of a duplicate key.         *)
BadField(q) ==
  /\ job[q].evidence
  /\ Goto(q, "looked", "crashed")
  /\ UNCHANGED <<limiter, job, history, found, pending, stored, heard, alerts>>

(* The unique index: NULLs never clash, blanks do.  An INSERT waits for the*)
(* open transaction that inserted the same key.                            *)
Rivals(q) == {r \in Attempt \ {q} : pending[r] # Nothing /\ job[r].key = job[q].key}

Duplicate(q) ==
  /\ ~job[q].evidence
  /\ job[q].key # NoKey /\ Holders(q) # {}
  /\ Goto(q, "looked", "crashed")
  /\ UNCHANGED <<limiter, job, history, found, pending, stored, heard, alerts>>

InsertUnindexed(q) ==  \* fault: idempotency_key without unique=True
  /\ ~job[q].evidence
  /\ Goto(q, "looked", "inserted")
  /\ pending' = [pending EXCEPT ![q].rows = {"report"}]
  /\ UNCHANGED <<limiter, job, history, found, stored, heard, alerts>>

Insert(q) ==
  /\ ~job[q].evidence
  /\ job[q].key = NoKey \/ (Holders(q) = {} /\ Rivals(q) = {})
  /\ Goto(q, "looked", "inserted")
  /\ pending' = [pending EXCEPT ![q].rows = {"report"}]
  /\ UNCHANGED <<limiter, job, history, found, stored, heard, alerts>>

(* Identity, audit entry, classification and notification, one by one.     *)
Write(q) ==
  /\ pc[q] = "inserted"
  /\ pending[q].last \in DOMAIN After
  /\ LET k == After[pending[q].last] IN
       pending' = [pending EXCEPT ![q].rows = @ \cup {k}, ![q].last = k]
  /\ UNCHANGED <<limiter, pc, job, history, found, stored, heard, alerts>>

(* broadcast_report_created, before the commit.                            *)
Broadcast(q) ==
  /\ pending[q].last = "notice"
  /\ Goto(q, "inserted", "heard")
  /\ heard' = heard \cup {q}
  /\ UNCHANGED <<limiter, job, history, found, pending, stored, alerts>>

(* dispatch over SMS and e-mail, if the reporter chose an officer (officers*)
(* have a telephone number or an address here).                            *)
AlertNobody(q) ==  \* fault: dispatch without its recipient
  /\ Goto(q, "heard", "alerted")
  /\ UNCHANGED <<limiter, job, history, found, pending, stored, heard, alerts>>
Alert(q) ==
  /\ Goto(q, "heard", "alerted")
  /\ alerts' = alerts \cup {<<q, o>> : o \in {job[q].officer} \ {Nobody}}
  /\ UNCHANGED <<limiter, job, history, found, pending, stored, heard>>

(* _notify_department, in the same transaction.                            *)
Notify(q) ==
  /\ Goto(q, "alerted", "notified")
  /\ pending' = [pending EXCEPT ![q].told = Recipients(job[q].category)]
  /\ UNCHANGED <<limiter, job, history, found, stored, heard, alerts>>

Commit(q) ==
  /\ Goto(q, "notified", "done")
  /\ stored' = [stored EXCEPT ![q] = pending[q]]
  /\ pending' = [pending EXCEPT ![q] = Nothing]
  /\ UNCHANGED <<limiter, job, history, found, heard, alerts>>

(* Any step may raise; transaction.atomic rolls everything back.           *)
FailUnrolled(q) ==  \* fault: the transaction is left open
  /\ pc[q] \in Active
  /\ pc' = [pc EXCEPT ![q] = "failed"]
  /\ UNCHANGED <<limiter, job, history, found, pending, stored, heard, alerts>>
FailCommitted(q) ==  \* fault: no transaction.atomic, each row commits alone
  /\ pc[q] \in Active
  /\ pc' = [pc EXCEPT ![q] = "failed"]
  /\ stored' = [stored EXCEPT ![q] = pending[q]]
  /\ pending' = [pending EXCEPT ![q] = Nothing]
  /\ UNCHANGED <<limiter, job, history, found, heard, alerts>>
Fail(q) ==
  /\ pc[q] \in Active
  /\ pc' = [pc EXCEPT ![q] = "failed"]
  /\ pending' = [pending EXCEPT ![q] = Nothing]
  /\ UNCHANGED <<limiter, job, history, found, stored, heard, alerts>>

Quiet == (\A q \in Attempt : pc[q] \in Final) /\ UNCHANGED vars

Handle(q) ==
  \/ Invalid(q) \/ Validate(q) \/ Existing(q) \/ Lookup(q) \/ BadField(q)
  \/ Duplicate(q) \/ Insert(q) \/ Write(q) \/ Broadcast(q) \/ Alert(q)
  \/ Notify(q) \/ Commit(q)

Submit(q) == Refuse(q) \/ Admit(q) \/ Block(q) \/ Sync(q)

Next ==
  \/ \E q \in Attempt : Submit(q) \/ Handle(q) \/ Fail(q)
  \/ NextHour
  \/ Quiet

Spec == Init /\ [][Next]_vars

(* A worker goes on with the request it has; submissions are never owed.   *)
FairSpec == Spec /\ \A q \in Attempt : WF_vars(Handle(q))

-----------------------------------------------------------------------------
TypeOK ==
  /\ hour \in 0..MaxHour
  /\ count \in [Process -> [User -> 0..Limit]]
  /\ pc \in [Attempt -> {"idle"} \cup Active \cup Final]
  /\ job \in [Attempt -> Job]
  /\ came \in [Attempt -> 0..MaxHour]
  /\ known \in [Attempt -> Attempt \cup {NoReport}]
  /\ found \in [Attempt -> Attempt \cup {NoReport}]
  /\ pending \in [Attempt -> Rows]
  /\ stored \in [Attempt -> Rows]
  /\ heard \subseteq Attempt
  /\ alerts \subseteq Attempt \X Officer

(* A report exists with everything that belongs to it, or not at all: its  *)
(* identity, audit entry, classification and notification, and one notice  *)
(* for the head and for every member of the department it is routed to.    *)
CreatedWhole ==
  \A q \in Attempt : stored[q] # Nothing =>
    stored[q].rows = Kind /\ stored[q].told = Recipients(job[q].category)

(* Attempts with the same idempotency key that succeed are all answered    *)
(* with one and the same report, and it is committed.                      *)
Outcome(q) == IF pc[q] = "done" THEN q ELSE found[q]
IdempotentAnswers ==
  \A p, q \in {a \in Attempt : Keyed(a) /\ pc[a] \in {"done", "existing"}} :
    /\ stored[Outcome(q)] # Nothing
    /\ job[p].key = job[q].key => Outcome(p) = Outcome(q)

(* The reports table as a reader sees it is a sequence of filings, one key *)
(* each: retries, races, the lookup, the validator and the unique index    *)
(* together implement FiledReports, for blank keys too.                    *)
ReportTable == {<<q, job[q].key>> : q \in {r \in Attempt : stored[r] # Nothing}}
Filings == INSTANCE FiledReports WITH filed <- ReportTable
FiledOnce == Filings!Spec

(* No report is filed silently: dashboards heard of every committed report *)
(* and the officer chosen for it was alerted, wherever other attempts fail.*)
AnnouncedIfStored ==
  \A q \in Attempt : stored[q] # Nothing =>
    /\ q \in heard
    /\ job[q].officer # Nobody => <<q, job[q].officer>> \in alerts

(* "Rate-limited to 5 reports per hour per user": of the live posts of one *)
(* user in one hour, at most Limit become reports.  It holds in one server *)
(* process and fails with several (each counts in a cache of its own).     *)
PostedBy(u, h) ==
  {q \in Attempt : job[q].user = u /\ job[q].live /\ came[q] = h /\ stored[q] # Nothing}
QuotaHolds ==
  \A u \in Reporter, h \in 0..MaxHour : Cardinality(PostedBy(u, h)) <= Limit

(* Every attempt is answered: nobody waits for ever on a duplicate key.    *)
EveryAttemptAnswered ==
  \A q \in Attempt : pc[q] = "admitted" ~> pc[q] \in Final

(* "Idempotency": a retry of a submission that was committed is answered   *)
(* with the report it created.  The serializer's UniqueValidator refuses it*)
(* before create_report can look the key up.                               *)
RetryGetsReport ==
  \A q \in Attempt :
    (known[q] # NoReport /\ Acceptable(q) /\ pc[q] \in {"invalid", "existing", "done"})
      => pc[q] = "existing" /\ found[q] = known[q]
=============================================================================
