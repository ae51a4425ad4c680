# LUERS: a verification of the reporting backend

LUERS is the emergency reporting system of a university: students and staff
file reports (some anonymously, some from a phone that was offline), security
officers are assigned to them and change their status, dashboards follow over
WebSockets, and every change leaves an audit entry.  The backend is a Django /
DRF / Channels application on PostgreSQL (`src/backend`).  This directory holds
TLA+ models of it, the TLC runs that check them and TLAPS proofs.  Paths below
are relative to `src/backend/`.

## 1. The system

| component | state | operations | hard part |
|---|---|---|---|
| Report edits (`apps/reports/services.py` `update_status`, `assign_report`; views) | report rows, audit log, notifications, row locks, in-memory instances | PATCH status, POST assign | read before the transaction, optimistic version check, announcements before the commit |
| Report intake (`create_report`, `ReportCreateSerializer`, rate limit) | reports, unique idempotency keys, identities, hourly counters | POST create | retries, concurrent duplicates, all-or-nothing creation |
| Offline sync (`SyncView`) | batches of a client, results | POST sync | lost answers, partial failure of a batch, retries |
| WebSocket dashboards (`ReportConsumer`, channel layer) | connections, groups, bounded queues | connect, disconnect, broadcast, delivery | leaked memberships, full queues, a handler that dies |
| Delta fetch (`ReportListView`) | client cursors | GET reports?since=&page= | page and cursor read separately, commits out of order, pages that shift |
| Access rules (`get_accessible_reports`, `CanAccessReportMixin`, `SyncView`, `ReportConsumer`, `EvidenceUploadView`) | users, roles, departments, encrypted references | list, messages, follow live, upload | five copies of one rule, reports reassigned after the check |
| Messages (`notifications/views.py`, `MessageService`) | messages | list page by page, send | written and paged while others write |
| Evidence (`EvidenceUploadView`, `add_evidence`) | file storage, rows, audit log | POST evidence | the file is stored outside the transaction |
| Dashboard summary | none | GET summary | five reads without a snapshot |
| Audit log, notifications, gateways | rows; SMS and e-mail | written by the services | swallowed gateway errors |

How they interact.  The REST views and `SyncView` call the same three services
(`ReportService.create_report`, `update_status`, `assign_report`) and
`MessageService.send_message`.  A service works inside `transaction.atomic()`
on an instance its caller fetched in autocommit (there is no `ATOMIC_REQUESTS`),
writes the row and the audit entry, and then, still before the commit, sends a
broadcast through the channel layer and hands SMS and e-mails to the gateways.
`ReportConsumer` gets the broadcasts from the channel layer of its process.
Everything else reads the database.

What makes each component correct:

* edits: the audit trail explains the row; nobody overwrites an edit he has not
  seen; what was announced is what was committed; nobody waits for ever;
* intake: a report is complete or absent; one key, one report; the hourly quota;
* sync: a lost answer or an overlapping retry makes no second report, and a
  device believes only what happened;
* dashboards: every broadcast reaches every live dashboard once and in order,
  and who left has left;
* delta fetch: a client that continues from its cursor has what lies before it;
* access: the copies of the rule agree where nothing says that they should
  differ, and none of them tells who filed an anonymous report;
* messages: nobody has a message in a thread that is closed to him, and who
  reads all pages of a thread has all that was there;
* evidence: file, row and audit entry are there, or neither of the last two is;
* summary: each grouping counts every report once.

## 2. Modules

| module | models | runs |
|---|---|---|
| `AuditedReports` | abstract: a sequence of audited changes of one column of one report | (property of `edits`) |
| `FiledReports` | abstract: reports are filed one at a time, one for each key, and stay | (property of `intake` and `sync_batches`) |
| `ReportEdits` | `update_status` and `assign_report` from the client's fetch to the commit | `edits`, `edits_lost` |
| `ReportIntake` | `ReportCreateView`, `ReportCreateSerializer`, `create_report` | `intake`, `intake_quota`, `intake_retry` |
| `OfflineSync` | `SyncView.post`, `send_message`, and the device that retries | `sync_batches` |
| `Dashboards` | `ReportConsumer` on the in-memory channel layer, and the broadcasts | `boards`, `boards_choke`, `boards_frames` |
| `DeltaFetch` | `ReportListView` with `since`, pages and `X-Cursor`, against edits that commit | `delta_fetch` |
| `AccessRules` | the five copies of the access rule, and the references they decrypt | (extended by `CaseFile`) |
| `CaseFile` | messages, evidence and summary, while reports are filed, assigned and resolved | `desk`, `desk_owner` |
| `ReportEditsProofs`, `ReportIntakeProofs`, `OfflineSyncProofs`, `DashboardsProofs`, `DeltaFetchProofs`, `CaseFileProofs` | the theorems about the module of that name | |

How they fit together.  `ReportEdits` and `ReportIntake` have every step of the
services they model.  `OfflineSync` and `CaseFile` use the same services and
keep of them what another request can see or disturb: the check and the write of
a creation or an edit in a batch, one commit for a filing or an edit of the
reports that `CaseFile` reads.  `ReportIntake` and `OfflineSync` are the two ways
to file a report, and both are shown to implement `FiledReports`: each says with
`ReportTable` what a reader of the table sees, and `Filings` is the instance.

`MCx` is `x` with the values of its constants; the `.cfg` files begin with a
line that names the instance.  Definitions marked "fault" are deliberately
wrong variants of the definition that follows them; no specification uses them.
They are there to show that a property fails when the code is changed.

### 2.1 ReportEdits

One request is one worker (`pc`).  The steps are those between which another
worker or the database can act:

| action | code (`services.py` unless named) |
|---|---|
| `Send` | the client composes the request, with the `updated_at` it last fetched |
| `Fetch` | `get_object_or_404` in the view (`views.py:146,179`), autocommit |
| `Conflict`, `Unchanged`, `Stamp` | `_check_version` (262-273), "Status already set" (186-188), the assignment and `pre_save` of `auto_now` |
| `Save` | the UPDATE (192, 222): takes the row lock, waits while another open transaction has it |
| `Log` | `AuditLog.objects.create` (and the `Notification` row): stamps `created_at` |
| `TellBoards`, `TellOfficer` | `broadcast_report_updated`; `dispatch` over SMS and e-mail |
| `Commit` | the end of `transaction.atomic()`: row, version, audit entry, notification |
| `Fail` | an exception or a lost worker at any point: roll-back, announcements stay |

The UPDATE takes effect for other transactions at the commit, so `Save` only
takes the lock (`Locked`) and `Commit` writes the row, with `update_fields`
applied to what the database holds then (`SavedRow`).  `clock` counts the calls
of `timezone.now()`: two calls never return the same instant.

A report begins as it was filed: new, and unassigned or with the officer its
submission named (`FiledAs`, `Init`).  `create_report` stores that officer and
writes no `assigned_to` entry for it, so a column without entries says "as it was
filed", in `AuditExplainsRow` and in `AuditedReports` (`Created`).  The officer
was alerted by `create_report` (`AlertsOf`).

### 2.2 ReportIntake

An attempt is one submission.  `Refuse`, `Admit`, `Block` and `Sync` are its
arrival (role, limiter, or through the sync view, which has no limiter);
`Validate`/`Invalid` the serializer; `Existing`/`Lookup` the idempotency lookup;
`BadField`, `Duplicate` and `Insert` the INSERT, which waits in the unique index
for an open transaction with the same key; `Write` the four rows after it, one
at a time, in the code's order; `Broadcast`, `Alert`, `Notify`, `Commit`, `Fail`
the rest.  The counters of `django_ratelimit` live in a `LocMemCache`, so there
is one table of them per server `Process`.  Departments, heads and members are
constants: nothing in the code changes them while it runs.

### 2.3 OfflineSync

A device holds an outbox and may send what is not acknowledged at any time
(`Send`), also while an earlier try runs.  A batch is refused as a whole
(`Reject`) or carried out action by action, `next` being the loop's position.
`create_report` and `update_status` are two steps each here, the check
(`Validate`, `Fetch`) and the write (`Create`, `UpdateStatus`), because another
try can come in between; their other steps are in the two modules above.
`Store` and `Push` are `send_message`, whose row commits before its broadcast.
`Falter` is an exception of the environment, which the loop turns into a
result.  A creation or edit may also raise after its commit, when its answer is
serialised; its result is then an error although it was done (`Reported`).
`Vanish` loses the answer or the worker; `Answer` delivers the results,
which the device matches to its actions by position, as they carry no id.

### 2.4 Dashboards

`Reject`, `JoinAll`, `Stumble`, `JoinReport`, `SkipReport` and `Accept` are
`connect()` cut at its awaits; `Show` and `Choke` the three event handlers,
which differ in their payload only; `Frame` is `receive()`; `Disconnect` is
`disconnect()`, also of a connection that was never accepted, where it raises
(`DisconnectRejected`).  A client may write the report id in another spelling
that the database takes for the same report (`Variant`: upper case); the group's
name is then built from the text, and nothing is ever sent to that group.
`Broadcast` and `Chat` are `NotificationService` and
`MessageService`.  The groups and bounded queues of the in-memory channel layer
(`Join`, `Hear`, `GroupSend`, `Expire`) are library code, modelled from how the
consumer uses it: a full queue drops silently, a message that nobody takes for
a minute is dropped and its channel leaves all groups.  `Layer` is what the
channel layer has queued, `GroupSend` gives the layer after one send, and an
action that sends once or more times `Becomes` the last of them: this is how
`Echo` can make the three sends of `receive()` in one step.

### 2.5 DeltaFetch

An edit stamps `updated_at` (`Stamp`) before it commits (`Commit`), so commits
are not in the order of their stamps.  A request for a page reads four times:
the paginator's count (`Count`, or `NoSuchPage` when the result has shrunk), the
page (`ReadPage`), `exists()` (`SeeSome`, `SeeNone`) and `latest()` (`Latest`, or
`LatestRaises` when nothing matches any more); without a match it takes the
clock instead (`Now`).  The page is cut out by the
`Rank` of each report in the order of `updated_at`.  After an `Answer` the client
follows the pages or continues from the cursor.  `mirror` is what it has of each
report.  The client is external: it sends `X-Cursor` back as `since`,
percent-encoded (a bare `+` of the UTC offset becomes a space, does not parse,
and the filter is skipped).

Two history variables say which changes the code passes over: `lapped` (the
edit overlapped a fetch) and `cut` (the client did not follow the pages, or
something was committed while it was in `BetweenPages`).

### 2.6 AccessRules and CaseFile

`AccessRules` has one operator for each copy of the rule, over a user and a row:
`Listed` (`get_accessible_reports`), `MayDiscuss` (messages over REST), `MaySync`
(messages sent offline), `MayFollow` (the consumer) and `MayUpload`.  A reference
to a reporter is a `Text` that is sealed or not: `Encrypt` seals, `GetReporter`
opens, and a plain text equals no sealed one.

`CaseFile` applies them to the row as each request finds it:

| action | code |
|---|---|
| `Admit`, `Deny` | the rule, on the report as it is when it is fetched (`notifications/views.py`, `views.py:371`) |
| `Stamp`, `Insert` | `created_at` of a message, and its commit |
| `Count`, `ReadPage` | one page of a thread: the rule and the paginator's count, then the slice |
| `Refuse`, `StoreFile`, `AddEvidence` | `EvidenceUploadView.post` and `add_evidence`: the storage takes the file, then row and audit entry are committed together |
| `Total`, `Resolved`, `Group` | the five queries of the summary; the groupings are lazy and run when the answer is rendered |
| `File`, `SetStatus`, `Assign` | what the services commit meanwhile |
| `Fail` | an exception or a lost worker: an open transaction rolls back, a stored file stays |

## 3. What the runs show

Passing runs:

| run | instance | shows |
|---|---|---|
| `edits` (87 900 states) | 2 requests, 1 or 2 reports, filed with an officer or not, all jobs | `AuditExplainsRow`: the newest audit entry of a column has the value of the row, and a column without entries the one it was filed with.  `StaleClientRefused`: a version that was stale at the server's fetch never commits.  `BoardShowsStatus`: broadcasting before the commit leaves no wrong status once the broadcaster has committed.  `AssigneeAlerted`: no assignment without its alerts.  `KeepsPromise`: `ReportEdits` implements `AuditedReports`.  `EveryRequestAnswered`: row locks starve nobody |
| `intake` (26 391) | 2 attempts, all pairs of jobs, 1 process, limit 1, 2 hours | `CreatedWhole`, `IdempotentAnswers`, `AnnouncedIfStored`, `QuotaHolds`; `FiledOnce`: `ReportIntake` implements `FiledReports`; `EveryAttemptAnswered`: the wait in the unique index ends |
| `sync_batches` (127 319) | 2 overlapping tries of 7 outboxes of 3 actions | `FiledOnce`: so does `OfflineSync`, with overlapping tries and lost answers.  `AckedIsDone`: what the device believes done is done.  `StoredOncePerTry`: a message is stored at most once by each try.  `MalformedChangesNothing`, `LastEditWins`, `EveryBatchEnds` |
| `boards` (210 774) | 1 connection of each kind, ids in both spellings, 3 broadcasts, queue of 2 | `NothingMissed`: all broadcasts since the join, in order, unless the layer dropped one.  `ToldOnce`: no change is told twice.  `LeftMeansLeft`, `QueuedIsShown` |
| `delta_fetch` (1 305 076) | 1 client, 3 fetches, 3 creations or edits, 3 reports, pages of 1 | `QuietEditsArrive`: what the cursor has passed the client has, if the edit overlapped none of its fetches, and the client followed the pages with nothing committed between them.  `CursorNeverGoesBack`, although `updated_at` may |
| `desk` (135 482) | 5 users of different roles, 2 reports, anonymous or not, 3 requests, 2 changes, pages of 1 | `SendersMayRead`: in a thread there are only messages of those who may write there now, although reports are reassigned after the check.  `ThreadComplete`: a reader of all pages has what was there when he began.  `EvidenceWhole`: row and audit entry together, with the file; an upload that was answered has all three, one that was refused none, and a file stays alone only where an upload failed half-way.  `SummaryAddsUp`: no report is counted twice or forgotten by a grouping.  `AnonymityKept`: nothing a user is shown or allowed depends on who filed an anonymous report.  `RulesAgree` |

Runs that TLC refutes.  Each checks one statement of a comment or docstring, and
the counterexample is what the code does:

| run | statement | what happens |
|---|---|---|
| `edits_lost` | `ConflictError` is raised "when a report has been modified since last fetch" (`services.py:16`) | an edit that carries the version of the instance it fetched commits over another edit of the report, with a version or without, that commits in between: the check looks at the instance, not at the row |
| `intake_quota` | "Rate-limited to 5 reports per hour per user" (`views.py:43`) | with two processes each counts for itself |
| `intake_retry` | "Idempotency" (`services.py:87`) | the `UniqueValidator` refuses the retry; the lookup is reached only in a race |
| `boards_choke` | "Broadcast report updates to the general group (dashboard)" (`consumers.py:227`) | the payload of an assigned report holds a `uuid.UUID`; `json.dumps` raises and ends every dashboard |
| `boards_frames` | "Main schema for all inbound WebSocket messages" (`notifications/serializers.py:28`) | the nested serializer gets only `type`; every well-formed frame is refused |
| `desk_owner` | "Evidence can also be added later via POST /api/v1/reports/{id}/evidence/" (`serializers.py:70`) | the view calls `IdentityService.is_owner`, which does not exist: the reporter's upload fails, and so does everybody's to a report that is not anonymous |

`ToldOnce` deserves a remark: `receive()` would broadcast a status change two
more times after `update_status` did.  The property holds only because no frame
passes validation, and repairing `boards_frames` alone would break it (this is
the fault `DeclaredAll`).

## 4. Bounds, and why they are enough

* `edits`: the row lock admits one transaction at a time; two requests are the
  one that holds it and the one that has fetched before and waits.  Two reports
  show that edits of different reports do not wait for each other.  The safety
  properties are proved for any number (section 6).
* `intake`: two attempts race for one key, one quota (limit 1, so that it is
  reached and, after an hour, lifted) and one department; the safety properties
  are proved for any number.
* `sync_batches`: two tries overlap, or the second repeats the first after a
  loss; a third would repeat one of them.  The outboxes hold every kind of
  action, permitted and not, keyed and not, malformed, and edits that go back
  and forth.  The safety properties are proved for any outbox and any tries.
* `boards`: one connection is enough because connections meet only in the
  groups, where each has a queue of its own, and because what one client sends
  never reaches another (every frame is refused).  Three broadcasts overfill a
  queue of two; the library's capacity is 100.  The safety properties are proved
  for any connections, broadcasts and capacity.
* `delta_fetch`: clients do not affect each other.  Two stamps in the wrong
  order and one change that was fetched between them are three edits: the
  smallest number with which `LatestRaises` happens.  With three reports and
  pages of one a result has up to three pages, and a commit after the first can
  shift the third.  Both properties are proved for any numbers.
* `desk`: the requests that matter to each other are in one plan (`MCPlan`): two
  messages and a reader of their thread; a message, an upload and a summary.
  Two changes are a status and an assignment, or an assignment and the next one.
  With pages of one, a thread of two messages has two pages.  All six properties
  are proved for any users, requests, changes and page size.
* Counters: `MaxHour` (windows of the limiter), `MaxEvents` (broadcasts),
  `MaxFetch` (fetches of a client) and `MaxChange` (assignments and status
  changes) are bounds in guards; the clocks and the version numbers are bounded
  by the finite set of requests.

Deadlock is checked in every run.  `Quiet` is the one allowed end: all requests
are answered, or the bound on broadcasts is reached.

Symmetry is used in `delta_fetch`, `edits_lost`, `intake_quota` and
`intake_retry`, which check no liveness; the modules use the permuted sets under
quantifiers, and under CHOOSE only where exactly one element qualifies.

## 5. Fairness

`FairSpec` is weak fairness of the steps of a worker that has a
request, of a consumer that is connecting, and of a consumer that has events:
threads and coroutines are scheduled, and a transaction that holds a lock goes
on to its end.  No fairness is given to the arrival of a request, a frame or a
retry, to a disconnection, to the clock of the limiter, or to any failure.  A
worker that waits (for a row lock, or in the unique index) is not enabled, so
weak fairness promises it nothing; it is the holder that must go on.  `DeltaFetch`
and `CaseFile` state no liveness and assume no fairness.

## 6. What is proved

All theorems hold for every value of the constants that satisfies the module's
assumption (`EditsAssumption`, `IntakeAssumption`, `SyncAssumption`,
`DashboardsAssumption`, `DeltaAssumption`, `AccessAssumption`, `CaseAssumption`:
the special values are not members of the sets they are apart from, heads and
members are users, limits are naturals, there are finitely many reports where
they are counted, an outbox is a sequence of actions, a filed row names its
reporter as `create_identity` does).  An assumption that only one theorem needs is in its
statement.

`ReportEditsProofs`:

| theorem | establishes | by |
|---|---|---|
| `TypeCorrect` | `TypeOK` | each action on its own |
| `RowLockExclusive` | one holder per row | `Save` is the only way into `Holding`, and it needs a free row |
| `AuditTrailCorrect` | `AuditExplainsRow` | `AuditInv`: the trail lies in the past, and the entry of an open transaction is newer than all of its report.  That entry is stamped after the lock is taken: with the lock, entries are in commit order |
| `BoardCorrect`, `AlertsCorrect` | `BoardShowsStatus`, `AssigneeAlerted` | `NoticeInv`: what an open transaction announced still stands when it commits, since the lock keeps the next announcer out |
| `VersionCheckCorrect` | `StaleClientRefused` | `VersionInv`: stamps are fresh, so an equal `updated_at` means that no edit was committed since |
| `Refinement` | `KeepsPromise` | initial states map to initial states; `Commit` is a `Change`; every other step stutters.  `AuditInv` gives the abstract guard, that the new entry is the newest of its column |

`ReportIntakeProofs`:

| theorem | establishes | by |
|---|---|---|
| `TypeCorrect` | `TypeOK` | each action on its own |
| `WholeReports` | `CreatedWhole` | `PendingInOrder`: what an open transaction has written is what the code wrote up to its last row |
| `Idempotent` | `IdempotentAnswers` | `KeyInv`: of the attempts with one key, at most one has a report, committed or pending; an answer names a stored one |
| `NoSilentReport` | `AnnouncedIfStored` | `Announced`: from each step on, the announcement before it was made |
| `QuotaOfProcesses` | `QuotaOfEach`: at most `Limit` live reports for each of finitely many processes, which is what the limiter does promise (`intake_quota` shows that it is no less) | `QuotaInv`: each post that was let through has raised a counter to a value of its own, so the posts of this hour go one-to-one into what has been counted, and those of any hour into `Process \X (1..Limit)` |
| `QuotaOfOneProcess` | `QuotaHolds`, for one process | `QuotaOfProcesses` |
| `Refinement` | `FiledOnce` | `Commit` is a `File`, every other step stutters.  `KeyInv` gives the abstract guard, that no report has the key (`CommitIsNew`) |

`OfflineSyncProofs`:

| theorem | establishes | by |
|---|---|---|
| `TypeCorrect` | `TypeOK` | `Typed` adds `Placed`: a try is inside an action of the kind its step is for |
| `AckedWasDone` | `AckedIsDone` | `AckInv`: the result at a position is that of the action at that position, and a success there means it is done, also after a `Falter` or a lost answer |
| `MalformedIsHarmless` | `MalformedChangesNothing` | no try of such an outbox gets past `Reject`, so the store is `Untouched` |
| `Refinement` | `FiledOnce` | only `Create` files (`OnlyCreateFiles`), and it files what is not there or has no key; every other step stutters |
| `NoCopyWithoutTry` | `StoredOncePerTry`, for finitely many tries | batches are in order (`Ordered`) and a try passes each position once (`EachOnce`), so each copy belongs to another try that has reached the action |
| `LastEditStays` | `LastEditWins` | `LastInv`: while the last edit has been made but does not show, a try that undid it has still to make it itself (`Late`, `Early`), and when all tries have ended there is none |

`CaseFileProofs`:

| theorem | establishes | by |
|---|---|---|
| `TypeCorrect` | `TypeOK` | `Typed` adds that there are finitely many messages, so that a thread can be counted |
| `NoStrangersInThreads` | `SendersMayRead` | `ThreadInv`: assignees are officers, and officers may read every thread, so a right outlives every reassignment (`RightsOutliveChanges`), both while a message is being written and afterwards |
| `WholeEvidence` | `EvidenceWhole` | `EvidenceInv`: an upload is idle, has stored its file, or is at its end (`UploadSteps`), and no other request touches the files |
| `WholeThreadRead` | `ThreadComplete` | `ReaderInv`: of the messages a reader is owed (there when he began, and nothing that was committed since lies before them) he has those whose place is on the pages behind him; the place of such a message never changes (`OwedKept`) |
| `SummaryCountsOnce` | `SummaryAddsUp` | a grouping counts every report there is exactly once (`GroupsAddUp` numbers the reports of each group, which makes a bijection between the reports and what is counted); and reports are only added (`SummaryInv`) |
| `CopiesAgree`, `AnonymousStaysAnonymous` | `RulesAgree`, `AnonymityKept` | the rules, and that a filed row is of its type: a sealed reference never equals the plain text the list looks for |

`DashboardsProofs`:

| theorem | establishes | by |
|---|---|---|
| `TypeCorrect` | `TypeOK` | each action on its own; a frame changes nothing but `refused` (`FrameRefused`: what it declares never covers what is required) |
| `GroupsLeft` | `LeftMeansLeft` | `Grouped`: a consumer is in no other groups than those its `connect()` has joined so far |
| `EverythingArrives` | `NothingMissed` | `PipeInv`: what was shown and what is queued is in order, never more than what was sent, and complete while nothing was dropped.  Each join makes the consumer owe nothing yet for that group (`JoinerComplete`); each send queues its number for exactly the members (`BroadcastQueued`) |
| `ToldAtMostOnce` | `ToldOnce` | `Numbered`: each broadcast is of another change, and by `PipeInv` no broadcast is in a queue twice |

`DeltaFetchProofs`:

| theorem | establishes | by |
|---|---|---|
| `TypeCorrect` | `TypeOK` | `Dated`: no two reports have one `updated_at`, so that ranks differ and a slice fits its page (`RankOrder`, `PageFits`) |
| `CursorForward` | `CursorNeverGoesBack` | `latest()` is over what matches the cursor, and the clock that `Now` takes is ahead of every cursor |
| `QuietEditsSeen` | `QuietEditsArrive` | `FetchInv`: an open edit is after every cursor it did not overlap (`OpenInv`); a quiet edit before the cursor is in the mirror; one after it is in the mirror when the pages up to its rank have been taken over (`QuietAt`).  Its rank stays the same while nothing commits (`RankKept`) |

The invariants the runs check are not inductive by themselves: `AuditExplainsRow`
says nothing of an entry that is about to be committed, `CreatedWhole` nothing
of a transaction that is still open, `SendersMayRead` nothing of somebody who has
been admitted and has not written, `ThreadComplete` and `QuietEditsArrive` nothing
of a reader who is still on his way, `NothingMissed` nothing of a consumer that
has not joined.  Each `...Inv` above adds exactly that.

Two definitions have the form they have so that this can be said of them for
every size: a sum of counts (`Sum`) is the cardinality of what is counted, not a
fold, and a page is cut by the rank of its reports, not by sorting them.

## 7. What is only model-checked

* The liveness properties (`EveryRequestAnswered`, `EveryAttemptAnswered`,
  `EveryBatchEnds`, `QueuedIsShown`) and the absence of deadlock: the prover has
  neither ENABLED nor fairness.

Every other property of a passing run is stated by a theorem of section 6.

## 8. What is not modelled, and what the models leave out

* Report detail: the view has no queryset and fails on its first statement
  (`views.py:110-125`).
* Accounts and JWT, seed data, settings, migrations: library views and data.
* `audit/signals.py`, `core/middleware.py` and celery are never used.
* SMS and e-mail gateways swallow every exception, so that a hand-over is one
  step that cannot fail the request; whether a message arrives is not modelled.
* Text (descriptions, messages), encryption and the wording of answers.
* The filters of the list by status, category and urgency.

Behaviour that contradicts what the code or its tests say, and that no run of its
own refutes:

* files in the submission itself, which `serializers.py:69` supports, crash in the
  INSERT (`BadField`);
* reporters never see their own reports, which `services.py:298` and
  `/reports/mine/` promise them: the list looks for `PLACEHOLDER_{id}` in an
  encrypted column (the last branch of `Listed`);
* a summary raises once a report is resolved, although `dashboard/views.py:13`
  promises an average: line 33 subtracts two strings (`Resolved`);
* `accounts/tests/test_rbac.py:15,33` expects 403 on the report list for students
  and management; the list is open to every user and empty or filtered
  (`Listed`), and no property judges which of the two is meant;
* in a batch, an `update_status` that carries `expected_updated_at` always ends in
  an error: the value is still the string of the JSON (`views.py:334`) and
  `_check_version` asks whether that string is naive.  `views.py:275-277` lists
  `update_status` as supported.  `Changes` in `OfflineSync` has this;
* the comment at `settings/base.py:145` says "Channels & Redis"; the layer is the
  in-memory one, so a broadcast reaches the dashboards of its own process only.
  `Dashboards` is one process; a second one would be a disjoint copy.

Behaviour that the models have, that no property judges, and of which we found no
document that says what it should be:

* a retry that carries only the edits that failed takes the status back
  (`Settled` excludes it);
* a message is stored again by a retry, once by each try;
* the first report with a blank key is stored and the next ones crash
  (`Duplicate`);
* a connection with a malformed `report_id` dies and stays in its group
  (`Stumble`); one that writes the id in another spelling follows nothing
  (`Variant`); a roll-back leaves a phantom on the dashboards;
* a change that overlaps a fetch, that a page cut off, or that shifts the pages
  of another is passed over (`lapped`, `cut`); a late commit between `exists()`
  and `latest()` makes the list fail (`LatestRaises`);
* an officer named in a submission is on the row, and in no audit entry
  (`FiledAs`);
* department heads and members list anonymous reports;
* a failed upload leaves its file (`files`);
* `system_admin` may send a message through sync and not through the REST view
  (`RulesAgree` leaves him out of the comparison).

## 9. Plan

Done: the services that create and change reports, the sync view, the messages,
the evidence, the access rules, the consumer, the delta fetch and the summary;
`FiledReports` and that both ways to file a report implement it; proofs of all
safety properties.

Next: `LiveReports`, which composes `ReportEdits` with a dashboard that first
fetches the list and then follows the broadcasts.
