----------------------------- MODULE OfflineSync -----------------------------
(***************************************************************************)
(* Offline synchronisation: SyncView.post (apps/reports/views.py).         *)
(*                                                                         *)
(* A device keeps the actions it made offline in an outbox and sends what  *)
(* is not acknowledged as one batch, again and again until it is.  A try   *)
(* may overlap an earlier one that timed out, and its answer may be lost.  *)
(* The serializer refuses a batch as a whole; then the actions are carried *)
(* out one by one, each in a transaction of its own, and an exception in   *)
(* one becomes its "error" result.  Results name the kind of action only:  *)
(* the device matches them to its actions by position.                     *)
(*                                                                         *)
(* Of create_report and update_status this keeps the check and the write,  *)
(* between which another try may run: ReportIntake and ReportEdits model   *)
(* them in full.  The device is external.                                  *)
(***************************************************************************)
EXTENDS Naturals, Sequences, SequencesExt

CONSTANTS
  Try,      \* the batches that the device sends
  Status,   \* the choices of the status field
  New,      \* the status the edited report has at first
  Outbox    \* the outboxes that are considered, sequences of actions

(* "wellformed": SyncActionSerializer accepts it; "permitted": the report  *)
(* exists and the user's role, or for a message his access to the report,  *)
(* allows it.  "keyed" is for creations, "value" and "checked" (it carries *)
(* expected_updated_at) for status updates.                                *)
Action ==
  [kind : {"create", "status", "message"}, wellformed : BOOLEAN, permitted : BOOLEAN,
   keyed : BOOLEAN, value : Status, checked : BOOLEAN]

ASSUME SyncAssumption ==
  /\ New \in Status
  /\ \A o \in Outbox : o \in Seq(Action)

VARIABLES
  outbox,   \* the device's actions; an action is named by its position
  acked,    \* those it has seen the success of
  pc, batch, next, results,   \* of each try; "next" is the loop's position
  seen,     \* the status of the instance that each try has fetched
  reports,  \* how many reports each action has created
  status,   \* the status of the report the device edits
  applied,  \* history: the status actions that were carried out
  messages, \* how many messages each action has stored
  pushed    \* how many of them were broadcast

store == <<reports, status, applied, messages, pushed>>
vars  == <<outbox, acked, pc, batch, next, results, seen, store>>

Id == DOMAIN outbox
Ended == {"answered", "rejected", "gone"}

Init ==
  /\ outbox \in Outbox
  /\ acked = {}
  /\ pc = [t \in Try |-> "idle"]
  /\ batch = [t \in Try |-> <<>>]
  /\ next = [t \in Try |-> 1]
  /\ results = [t \in Try |-> <<>>]
  /\ seen = [t \in Try |-> New]
  /\ reports = [i \in Id |-> 0]
  /\ status = New
  /\ applied = {}
  /\ messages = [i \in Id |-> 0]
  /\ pushed = [i \in Id |-> 0]

Goto(t, from, to) == pc[t] = from /\ pc' = [pc EXCEPT ![t] = to]

-----------------------------------------------------------------------------
(* The device sends what is still in its outbox, in order, whatever became *)
(* of the tries before.                                                    *)
InOrder(S) ==
  {b \in [1..Cardinality(S) -> S] :
     Range(b) = S /\ \A j, k \in DOMAIN b : j < k => b[j] < b[k]}

Send(t) ==
  /\ acked # Id
  /\ Goto(t, "idle", "sent")
  /\ \E rest \in InOrder(Id \ acked) : batch' = [batch EXCEPT ![t] = rest]
  /\ UNCHANGED <<outbox, acked, next, results, seen, store>>

(* SyncRequestSerializer: one malformed action and nothing is carried out. *)
Wellformed(t) == \A i \in Range(batch[t]) : outbox[i].wellformed
Reject(t) ==
  /\ ~Wellformed(t)
  /\ Goto(t, "sent", "rejected")
  /\ UNCHANGED <<outbox, acked, batch, next, results, seen, store>>

BeginUnchecked(t) ==  \* fault: the batch is not validated as a whole
  /\ Goto(t, "sent", "running")
  /\ UNCHANGED <<outbox, acked, batch, next, results, seen, store>>
Begin(t) ==
  /\ Wellformed(t)
  /\ Goto(t, "sent", "running")
  /\ UNCHANGED <<outbox, acked, batch, next, results, seen, store>>

Current(t) == batch[t][next[t]]
At(t, kind) ==
  pc[t] = "running" /\ next[t] <= Len(batch[t]) /\ outbox[Current(t)].kind = kind

(* One result for every action, in order.                                  *)
NoteSuccesses(t, result) ==  \* fault: an exception leaves no result
  /\ next' = [next EXCEPT ![t] = @ + 1]
  /\ results' = IF result = "success" THEN [results EXCEPT ![t] = Append(@, result)]
                ELSE results
NoteSkipping(t, result) ==  \* fault: an error skips the action after it
  /\ next' = [next EXCEPT ![t] = @ + (IF result = "success" THEN 1 ELSE 2)]
  /\ results' = [results EXCEPT ![t] = Append(@, result)]
NoteInsisting(t, result) ==  \* fault: a failed action is tried again in place
  /\ next' = [next EXCEPT ![t] = @ + (IF result = "success" THEN 1 ELSE 0)]
  /\ results' = IF result = "success" THEN [results EXCEPT ![t] = Append(@, result)]
                ELSE results
Note(t, result) ==
  /\ next' = [next EXCEPT ![t] = @ + 1]
  /\ results' = [results EXCEPT ![t] = Append(@, result)]

(* The role check, the existence of the report or the access check fails.  *)
Refuse(t) ==
  /\ pc[t] = "running" /\ next[t] <= Len(batch[t])
  /\ ~outbox[Current(t)].permitted
  /\ Note(t, "error")
  /\ UNCHANGED <<outbox, acked, pc, batch, seen, store>>

(* create_report: the key is copied into the submission, and the           *)
(* UniqueValidator of its field refuses one that has its report.           *)
Taken(i) == outbox[i].keyed /\ reports[i] > 0
Validate(t) ==
  /\ At(t, "create") /\ outbox[Current(t)].permitted
  /\ IF Taken(Current(t))
     THEN Note(t, "error") /\ UNCHANGED pc
     ELSE Goto(t, "running", "validated") /\ UNCHANGED <<next, results>>
  /\ UNCHANGED <<outbox, acked, batch, seen, store>>

(* A try that overtook this one since either shows in the lookup, whose    *)
(* report is then the answer, or comes between the lookup and the INSERT,  *)
(* which the unique index refuses.  The result is made after the commit,   *)
(* and making it may fail: then what was done is answered as an error.     *)
Reported(t) == Note(t, "success") \/ Note(t, "fault")
CreateRegardless(t) ==  \* fault: the key is not copied into the submission
  /\ Goto(t, "validated", "running")
  /\ reports' = [reports EXCEPT ![Current(t)] = @ + 1]
  /\ Note(t, "success")
  /\ UNCHANGED <<outbox, acked, batch, seen, status, applied, messages, pushed>>
Create(t) ==
  LET i == Current(t) IN
  /\ Goto(t, "validated", "running")
  /\ IF Taken(i)
     THEN (Note(t, "success") \/ Note(t, "error")) /\ UNCHANGED reports
     ELSE Reported(t) /\ reports' = [reports EXCEPT ![i] = @ + 1]
  /\ UNCHANGED <<outbox, acked, batch, seen, status, applied, messages, pushed>>

(* update_status: every action fetches the report anew.                    *)
FetchOnce(t) ==  \* fault: the report is fetched once for the whole batch
  /\ At(t, "status") /\ outbox[Current(t)].permitted
  /\ Goto(t, "running", "fetched")
  /\ seen' = [seen EXCEPT ![t] = IF next[t] = 1 THEN status ELSE @]
  /\ UNCHANGED <<outbox, acked, batch, next, results, store>>
Fetch(t) ==
  /\ At(t, "status") /\ outbox[Current(t)].permitted
  /\ Goto(t, "running", "fetched")
  /\ seen' = [seen EXCEPT ![t] = status]
  /\ UNCHANGED <<outbox, acked, batch, next, results, store>>

(* expected_updated_at is still the string of the JSON, on which the       *)
(* version check raises AttributeError.  Then the status of the instance   *)
(* is compared, and the row written.                                       *)
Changes(t) ==
  LET a == outbox[Current(t)] IN ~a.checked /\ seen[t] # a.value
UpdateStatus(t) ==
  LET i == Current(t) IN
  /\ Goto(t, "fetched", "running")
  /\ IF Changes(t)
     THEN Reported(t) /\ status' = outbox[i].value /\ applied' = applied \cup {i}
     ELSE Note(t, "error") /\ UNCHANGED <<status, applied>>
  /\ UNCHANGED <<outbox, acked, batch, seen, reports, messages, pushed>>

(* MessageService.send_message: the row commits, then it is broadcast.     *)
Store(t) ==
  LET i == Current(t) IN
  /\ At(t, "message") /\ outbox[i].permitted
  /\ Goto(t, "running", "stored")
  /\ messages' = [messages EXCEPT ![i] = @ + 1]
  /\ UNCHANGED <<outbox, acked, batch, next, results, seen, reports, status, applied, pushed>>

Push(t) ==
  /\ Goto(t, "stored", "running")
  /\ pushed' = [pushed EXCEPT ![Current(t)] = @ + 1]
  /\ Note(t, "success")
  /\ UNCHANGED <<outbox, acked, batch, seen, reports, status, applied, messages>>

(* An exception of the environment (the database or the channel layer) in  *)
(* one action before it commits: its transaction rolls back, and the loop  *)
(* goes on.  A message that has committed stays.                           *)
Busy == {"running", "validated", "fetched", "stored"}
Falter(t) ==
  /\ pc[t] \in Busy /\ next[t] <= Len(batch[t])
  /\ pc' = [pc EXCEPT ![t] = "running"]
  /\ Note(t, "fault")
  /\ UNCHANGED <<outbox, acked, batch, seen, store>>

(* The device takes the k-th result for the k-th action of its batch.      *)
Answer(t) ==
  /\ next[t] > Len(batch[t])
  /\ Goto(t, "running", "answered")
  /\ acked' = acked \cup
       {batch[t][k] : k \in {j \in DOMAIN results[t] : results[t][j] = "success"}}
  /\ UNCHANGED <<outbox, batch, next, results, seen, store>>

(* The answer is lost, or the worker is, between any two steps.            *)
Vanish(t) ==
  /\ pc[t] \in Busy \cup {"sent"}
  /\ pc' = [pc EXCEPT ![t] = "gone"]
  /\ UNCHANGED <<outbox, acked, batch, next, results, seen, store>>

Quiet ==
  /\ \A t \in Try : pc[t] \in Ended \/ (pc[t] = "idle" /\ acked = Id)
  /\ UNCHANGED vars

Process(t) ==
  \/ Reject(t) \/ Begin(t) \/ Refuse(t) \/ Validate(t) \/ Create(t)
  \/ Fetch(t) \/ UpdateStatus(t) \/ Store(t) \/ Push(t) \/ Answer(t)

Next ==
  \/ \E t \in Try : Send(t) \/ Process(t) \/ Falter(t) \/ Vanish(t)
  \/ Quiet

Spec == Init /\ [][Next]_vars

(* A worker goes on with its batch.  Nobody owes a try, a fault or a loss. *)
FairSpec == Spec /\ \A t \in Try : WF_vars(Process(t))

-----------------------------------------------------------------------------
TypeOK ==
  /\ outbox \in Outbox
  /\ acked \subseteq Id
  /\ pc \in [Try -> {"idle", "sent"} \cup Busy \cup Ended]
  /\ batch \in [Try -> Seq(Id)] /\ results \in [Try -> Seq({"success", "error", "fault"})]
  /\ next \in [Try -> Nat] /\ \A t \in Try : next[t] \in 1..(Len(batch[t]) + 1)
  /\ reports \in [Id -> Nat] /\ messages \in [Id -> Nat] /\ pushed \in [Id -> Nat]
  /\ status \in Status /\ seen \in [Try -> Status]
  /\ applied \subseteq Id

(* However often a batch is sent, overlapping or after a lost answer, what *)
(* it files is a sequence of filings, one report for each key: the batches *)
(* implement FiledReports.                                                 *)
KeyOf(i) == IF outbox[i].keyed THEN i ELSE 0
ReportTable == UNION {{<<<<i, n>>, KeyOf(i)>> : n \in 1..reports[i]} : i \in Id}
Filings == INSTANCE FiledReports WITH NoKey <- 0, filed <- ReportTable
FiledOnce == Filings!Spec

(* The device never takes an action for done that was not carried out: the *)
(* k-th result is that of the k-th action, in every batch.                 *)
Done(i) ==
  CASE outbox[i].kind = "create"  -> reports[i] > 0
    [] outbox[i].kind = "status"  -> i \in applied
    [] outbox[i].kind = "message" -> messages[i] > 0 /\ pushed[i] > 0
AckedIsDone == \A i \in acked : Done(i)

(* A message may be stored again by a retry, but one try never stores it   *)
(* twice, whatever fails in between.                                       *)
StoredOncePerTry ==
  \A i \in Id :
    messages[i] <= Cardinality({t \in Try : \E k \in 1..next[t] :
                                  k <= Len(batch[t]) /\ batch[t][k] = i})

(* A batch with a malformed action changes nothing at all.                 *)
MalformedChangesNothing ==
  (\E i \in Id : ~outbox[i].wellformed) =>
    status = New /\ \A i \in Id : reports[i] = 0 /\ messages[i] = 0

(* Overlapping tries do not undo the device's last edit: when the tries    *)
(* have ended, none of them half-way and each with all the edits or none,  *)
(* the report has the status of the last edit.                             *)
Edits == {i \in Id : outbox[i].kind = "status" /\ outbox[i].permitted /\ ~outbox[i].checked}
Settled ==
  /\ \A t \in Try :
       /\ pc[t] \in {"idle", "answered"}
       /\ "fault" \notin Range(results[t])
       /\ Edits \cap Range(batch[t]) \in {{}, Edits}
  /\ \E t \in Try : Edits \subseteq Range(batch[t])
LastEditWins ==
  Settled => \A e \in Edits : (\A d \in Edits : d <= e) => status = outbox[e].value

(* Every batch that reaches a worker is answered, or lost with the worker. *)
EveryBatchEnds == \A t \in Try : pc[t] = "sent" ~> pc[t] \in Ended
=============================================================================
