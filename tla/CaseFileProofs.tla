--------------------------- MODULE CaseFileProofs ---------------------------
(***************************************************************************)
(* Proofs about CaseFile and the access rules, for every set of users,     *)
(* roles, departments, reports, requests and values.                       *)
(***************************************************************************)
EXTENDS CaseFile, FiniteSetTheorems, FunctionTheorems, TLAPS

(* What the requests ask for.                                              *)
LEMMA JobParts ==
  ASSUME TypeOK, NEW q \in Request
  PROVE  job[q].user \in User /\ job[q].report \in Report
  BY CaseAssumption DEF TypeOK, Job

(* The rows that can be filed are rows.                                    *)
LEMMA FilingRows == Filing \subseteq Row
  BY CaseAssumption

(* Requests never change.                                                  *)
LEMMA JobFixed == [Next]_vars => job' = job
  BY DEF Next, Handle, Write, Quiet, vars, File, SetStatus, Assign, Change, Admit, Deny,
         Stamp, Insert, Count, ReadPage, Refuse, StoreFile, AddEvidence, Total, Resolved,
         Group, Fail

(* A thread is finite, so that it can be counted.                          *)
LEMMA ThreadCounted ==
  ASSUME IsFiniteSet(messages), NEW q
  PROVE  Cardinality(Thread(q)) \in Nat
<1>1. Thread(q) \subseteq messages
  BY DEF Thread
<1> QED
  BY <1>1, FS_Subset, FS_CardinalityType

(* So are the reports, in all and of one value.                            *)
LEMMA ReportsCounted ==
  ASSUME TypeOK, NEW f, NEW v
  PROVE  Cardinality(filed) \in Nat /\ Having(f, v) \in Nat
<1> DEFINE S == {r \in filed : row[r][f] = v}
<1>1. filed \subseteq Report /\ S \subseteq Report
  BY DEF TypeOK
<1>2. Cardinality(filed) \in Nat /\ Cardinality(S) \in Nat
  BY <1>1, CaseAssumption, FS_Subset, FS_CardinalityType
<1> QED
  BY <1>2 DEF Having

-----------------------------------------------------------------------------
(* TYPES                                                                   *)

Typed == TypeOK /\ IsFiniteSet(messages)

(* What a reassignment or a new status makes of a row is a row.            *)
LEMMA ChangedRow ==
  ASSUME TypeOK, NEW r \in Report, SetStatus(r) \/ Assign(r)
  PROVE  /\ row' \in [Report -> Row]
         /\ \A s \in Report : /\ row'[s].identity = row[s].identity
                              /\ row'[s].anonymous = row[s].anonymous
                              /\ \/ row'[s].assigned = row[s].assigned
                                 \/ row'[s].assigned \in Assignable
<1>1. row[r] \in Row /\ row \in [Report -> Row]
  BY DEF TypeOK
<1>2. CASE SetStatus(r)
  <2>1. PICK s \in Values["status"] : row' = [row EXCEPT ![r]["status"] = s]
    BY <1>2 DEF SetStatus, Change
  <2>2. [row[r] EXCEPT !["status"] = s] \in Row
    BY <1>1, <2>1 DEF Row
  <2>3. row' = [row EXCEPT ![r] = [row[r] EXCEPT !["status"] = s]]
    BY <2>1
  <2> QED
    BY <1>1, <2>2, <2>3 DEF Row
<1>3. CASE Assign(r)
  <2>1. PICK u \in Assignable : row' = [row EXCEPT ![r]["assigned"] = u]
    BY <1>3 DEF Assign, Change
  <2>2. [row[r] EXCEPT !["assigned"] = u] \in Row
    BY <1>1, <2>1 DEF Row, Assignable
  <2>3. row' = [row EXCEPT ![r] = [row[r] EXCEPT !["assigned"] = u]]
    BY <2>1
  <2> QED
    BY <1>1, <2>2, <2>3 DEF Row
<1> QED
  BY <1>2, <1>3

(* The columns of a summary are counted one after the other.               *)
LEMMA GroupedType ==
  ASSUME TypeOK, NEW q \in Request, NEW f \in Facet, Group(q, f)
  PROVE  summary' \in [Request -> [total : Nat, category : Counts("category"),
                                   status : Counts("status"), urgency : Counts("urgency")]]
<1> DEFINE c == [v \in Values[f] |-> Having(f, v)]
<1>1. c \in Counts(f)
  BY ReportsCounted DEF Counts
<1>2. summary' = [summary EXCEPT ![q] = [summary[q] EXCEPT ![f] = c]]
  BY DEF Group
<1>3. summary[q] \in [total : Nat, category : Counts("category"),
                      status : Counts("status"), urgency : Counts("urgency")]
  BY DEF TypeOK
<1>4. [summary[q] EXCEPT ![f] = c] \in [total : Nat, category : Counts("category"),
                                        status : Counts("status"), urgency : Counts("urgency")]
  <2>1. CASE f = "category"
    BY <1>1, <1>3, <2>1
  <2>2. CASE f = "status"
    BY <1>1, <1>3, <2>2
  <2>3. CASE f = "urgency"
    BY <1>1, <1>3, <2>3
  <2> QED
    BY <2>1, <2>2, <2>3 DEF Facet
<1> QED
  BY <1>2, <1>4 DEF TypeOK

LEMMA TypedHolds == Spec => []Typed
<1>1. Init => Typed
  <2> SUFFICES ASSUME Init PROVE Typed
    OBVIOUS
  <2>1. IsFiniteSet(messages)
    BY FS_EmptySet DEF Init
  <2>2. row \in [Report -> Row]
    BY FilingRows DEF Init
  <2> QED
    BY <2>1, <2>2, CaseAssumption DEF Init, Typed, TypeOK, Counts
<1>2. Typed /\ [Next]_vars => Typed'
  <2> SUFFICES ASSUME Typed, [Next]_vars PROVE Typed'
    OBVIOUS
  <2> USE DEF Typed, Goto, store, table, reader
  <2>1. ASSUME NEW r \in Report, File(r) PROVE Typed'
    BY <2>1 DEF TypeOK, File
  <2>2. ASSUME NEW r \in Report, SetStatus(r) \/ Assign(r) PROVE Typed'
    <3>1. row' \in [Report -> Row]
      BY <2>2, ChangedRow
    <3>2. changes' \in 0..MaxChange
      BY <2>2, CaseAssumption DEF TypeOK, SetStatus, Assign, Change
    <3> QED
      BY <2>2, <3>1, <3>2 DEF TypeOK, SetStatus, Assign, Change
  <2>3. ASSUME NEW q \in Request, Admit(q) \/ Deny(q) \/ Stamp(q) \/ Fail(q) PROVE Typed'
    <3>1. /\ UNCHANGED <<table, messages, store, job, reader, summary>>
          /\ \E to \in {"admitted", "denied", "stamped", "failed"} : pc' = [pc EXCEPT ![q] = to]
      BY <2>3 DEF Admit, Deny, Stamp, Fail
    <3>2. clock' \in Nat /\ stamp' \in [Request -> Nat]
      <4>1. clock \in Nat /\ stamp \in [Request -> Nat]
        BY DEF TypeOK
      <4>2. CASE Stamp(q)
        BY <4>1, <4>2 DEF Stamp
      <4>3. CASE Admit(q) \/ Deny(q) \/ Fail(q)
        BY <4>1, <4>3 DEF Admit, Deny, Fail
      <4> QED
        BY <2>3, <4>2, <4>3
    <3> QED
      BY <3>1, <3>2 DEF TypeOK, Final
  <2>4. ASSUME NEW q \in Request, Insert(q) PROVE Typed'
    <3> DEFINE m == [report |-> job[q].report, sender |-> job[q].user, at |-> stamp[q],
                     since |-> clock + 1]
    <3>1. m \in [report : Report, sender : User, at : Nat, since : Nat]
      BY JobParts DEF TypeOK
    <3>2. messages' = messages \cup {m} /\ IsFiniteSet(messages')
      BY <2>4, FS_AddElement DEF Insert
    <3>3. got' \in [Request -> SUBSET messages']
      BY <2>4, <3>2 DEF TypeOK, Insert
    <3> QED
      BY <2>4, <3>1, <3>2, <3>3 DEF TypeOK, Insert, Final
  <2>5. ASSUME NEW q \in Request, Count(q) PROVE Typed'
    <3>1. Cardinality(Thread(q)) \in Nat
      BY ThreadCounted
    <3> QED
      BY <2>5, <3>1 DEF TypeOK, Count
  <2>6. ASSUME NEW q \in Request, ReadPage(q) PROVE Typed'
    <3>1. got[q] \cup Slice(q) \subseteq messages
      BY DEF TypeOK, Slice, Thread
    <3> QED
      BY <2>6, <3>1 DEF TypeOK, ReadPage, Final
  <2>7. ASSUME NEW q \in Request, Refuse(q) \/ StoreFile(q) \/ AddEvidence(q) PROVE Typed'
    BY <2>7 DEF TypeOK, Refuse, StoreFile, AddEvidence, Final
  <2>8. ASSUME NEW q \in Request, Total(q) \/ Resolved(q) PROVE Typed'
    <3>1. Cardinality(filed) \in Nat
      BY ReportsCounted
    <3>2. [summary[q] EXCEPT !.total = Cardinality(filed)] \in
            [total : Nat, category : Counts("category"),
             status : Counts("status"), urgency : Counts("urgency")]
      BY <3>1 DEF TypeOK
    <3>3. \/ summary' = summary
          \/ summary' = [summary EXCEPT ![q] = [summary[q] EXCEPT !.total = Cardinality(filed)]]
      BY <2>8 DEF Total, Resolved
    <3>4. summary' \in [Request -> [total : Nat, category : Counts("category"),
                                    status : Counts("status"), urgency : Counts("urgency")]]
      BY <3>2, <3>3 DEF TypeOK
    <3>5. /\ UNCHANGED <<clock, table, messages, store, job, stamp, reader>>
          /\ \E to \in {"totalled", "averaged", "denied", "failed"} : pc' = [pc EXCEPT ![q] = to]
      BY <2>8 DEF Total, Resolved
    <3> QED
      BY <3>4, <3>5 DEF TypeOK, Final
  <2>9. ASSUME NEW q \in Request, NEW f \in Facet, Group(q, f) PROVE Typed'
    BY <2>9, GroupedType DEF TypeOK, Group, Final, Facet
  <2>10. CASE UNCHANGED vars
    BY <2>10 DEF TypeOK, vars
  <2> QED
    BY <2>1, <2>2, <2>3, <2>4, <2>5, <2>6, <2>7, <2>8, <2>9, <2>10
       DEF Next, Handle, Write, Quiet
<1> QED
  BY <1>1, <1>2, PTL DEF Spec

(* Every variable of the case file keeps its type, with any number of      *)
(* reports, requests and messages.                                         *)
THEOREM TypeCorrect == Spec => []TypeOK
<1>1. Typed => TypeOK
  BY DEF Typed
<1> QED
  BY <1>1, TypedHolds, PTL

-----------------------------------------------------------------------------
(* THREADS                                                                 *)

(* Who was let in to write a message is still one who may read it.         *)
WritersMayRead ==
  \A q \in Request :
    pc[q] \in {"admitted", "stamped"} => MaySync(job[q].user, row[job[q].report])

(* Only officers are ever assigned (validate_assigned_to, and the queryset *)
(* of the officer chosen by the reporter).                                 *)
AssigneesAreOfficers == \A r \in Report : row[r].assigned \in Assignable \cup {Nobody}

ThreadInv == AssigneesAreOfficers /\ WritersMayRead /\ SendersMayRead

(* The rule for messages sent offline lets in everybody whom the REST rule *)
(* lets in.                                                                *)
LEMMA SyncIsWider == ASSUME NEW u, NEW r, MayDiscuss(u, r) PROVE MaySync(u, r)
  BY DEF MayDiscuss, MaySync

(* A right to a thread outlives every change of its report: reporters stay *)
(* reporters, and an assignee is an officer, who needs no assignment.      *)
LEMMA RightsOutliveChanges ==
  ASSUME TypeOK, AssigneesAreOfficers, NEW r \in Report, SetStatus(r) \/ Assign(r),
         NEW s \in Report, NEW u \in User, MaySync(u, row[s])
  PROVE  MaySync(u, row'[s])
<1>1. row'[s].identity = row[s].identity /\ row'[s].anonymous = row[s].anonymous
  BY ChangedRow
<1>2. IsAssigned(u, row[s]) => Role[u] = "security"
  BY AccessAssumption DEF IsAssigned, AssigneesAreOfficers, Assignable
<1> QED
  BY <1>1, <1>2 DEF MaySync, IsReporter, IsAssigned, Officials

LEMMA ThreadInvHolds == Spec => []ThreadInv
<1>1. Init => ThreadInv
  BY CaseAssumption DEF Init, ThreadInv, AssigneesAreOfficers, WritersMayRead, SendersMayRead
<1>2. TypeOK /\ ThreadInv /\ [Next]_vars => ThreadInv'
  <2> SUFFICES ASSUME TypeOK, ThreadInv, [Next]_vars PROVE ThreadInv'
    OBVIOUS
  <2>0. /\ job' = job
        /\ pc \in [Request -> {"idle", "admitted", "stamped", "counted", "next", "stored",
                               "totalled", "averaged"} \cup Facet \cup Final]
        /\ \A q \in Request : job[q].user \in User /\ job[q].report \in Report
        /\ \A m \in messages : m.sender \in User /\ m.report \in Report
    BY JobFixed, JobParts DEF TypeOK
  <2> USE <2>0 DEF Goto, store, table, reader
  <2>1. ASSUME row' = row, messages' = messages,
               \A q \in Request : pc'[q] \in {"admitted", "stamped"} =>
                                    pc[q] \in {"admitted", "stamped"}
        PROVE  ThreadInv'
    BY <2>1 DEF ThreadInv, AssigneesAreOfficers, WritersMayRead, SendersMayRead, MaySync,
                IsReporter, IsAssigned
  <2>2. ASSUME NEW r \in Report, SetStatus(r) \/ Assign(r) PROVE ThreadInv'
    <3>1. messages' = messages /\ pc' = pc
      BY <2>2 DEF SetStatus, Assign, Change
    <3>2. AssigneesAreOfficers'
      BY <2>2, ChangedRow DEF ThreadInv, AssigneesAreOfficers
    <3>3. \A s \in Report, u \in User : MaySync(u, row[s]) => MaySync(u, row'[s])
      BY <2>2, RightsOutliveChanges DEF ThreadInv
    <3> QED
      BY <3>1, <3>2, <3>3 DEF ThreadInv, WritersMayRead, SendersMayRead
  <2>3. ASSUME NEW q \in Request, Admit(q) PROVE ThreadInv'
    <3>1. MaySync(job[q].user, row[job[q].report])
      BY <2>3, SyncIsWider DEF Admit, Rule, Target
    <3>2. row' = row /\ messages' = messages /\ \A p \in Request \ {q} : pc'[p] = pc[p]
      BY <2>3 DEF Admit
    <3> QED
      BY <3>1, <3>2 DEF ThreadInv, AssigneesAreOfficers, WritersMayRead, SendersMayRead
  <2>4. ASSUME NEW q \in Request, Insert(q) PROVE ThreadInv'
    <3>1. MaySync(job[q].user, row[job[q].report])
      BY <2>4 DEF Insert, ThreadInv, WritersMayRead
    <3>2. row' = row /\ \A p \in Request : pc'[p] \in {"admitted", "stamped"} => pc'[p] = pc[p]
      BY <2>4 DEF Insert
    <3>3. \A m \in messages' : m \in messages \/ (m.sender = job[q].user /\ m.report = job[q].report)
      BY <2>4 DEF Insert
    <3> QED
      BY <3>1, <3>2, <3>3 DEF ThreadInv, AssigneesAreOfficers, WritersMayRead, SendersMayRead
  <2>5. ASSUME NEW q \in Request,
               \/ Deny(q) \/ Stamp(q) \/ Count(q) \/ ReadPage(q) \/ Refuse(q) \/ StoreFile(q)
               \/ AddEvidence(q) \/ Total(q) \/ Resolved(q) \/ Fail(q)
        PROVE  ThreadInv'
    BY <2>1, <2>5 DEF Deny, Stamp, Count, ReadPage, Refuse, StoreFile, AddEvidence, Total,
                      Resolved, Fail
  <2>6. ASSUME NEW q \in Request, NEW f \in Facet, Group(q, f) PROVE ThreadInv'
    BY <2>1, <2>6 DEF Group, Facet
  <2>7. ASSUME NEW r \in Report, File(r) PROVE ThreadInv'
    BY <2>1, <2>7 DEF File
  <2>8. CASE UNCHANGED vars
    BY <2>1, <2>8 DEF vars
  <2> QED
    BY <2>2, <2>3, <2>4, <2>5, <2>6, <2>7, <2>8 DEF Next, Handle, Write, Quiet
<1> QED
  BY <1>1, <1>2, TypeCorrect, PTL DEF Spec

(* Whatever is reassigned between the check of a message and its commit, or*)
(* afterwards: a thread has messages only of those who may read it, or of  *)
(* the system administrator.                                               *)
THEOREM NoStrangersInThreads == Spec => []SendersMayRead
<1>1. ThreadInv => SendersMayRead
  BY DEF ThreadInv
<1> QED
  BY <1>1, ThreadInvHolds, PTL

-----------------------------------------------------------------------------
(* PAGES OF A THREAD                                                       *)

(* What a reader has to have in the end: it was there when he began, and   *)
(* nothing that was committed since lies before it.                        *)
Owed(q, m) == m \in Thread(q) /\ m.since <= began[q] /\ ~Overtaken(q, m)

(* Nothing is committed in the future.                                     *)
InThePast == (\A m \in messages : m.since <= clock) /\ \A q \in Request : began[q] <= clock

(* What a reader is owed and has its place on the pages behind him he has; *)
(* its place is one that the count covers.                                 *)
ReaderAt(q) ==
  /\ pc[q] \in {"idle", "counted", "next", "done", "denied", "failed"}
  /\ pc[q] = "idle" => page[q] = 1
  /\ \A m : Owed(q, m) =>
       /\ pc[q] \in {"counted", "next"} /\ Index(m) < (page[q] - 1) * PageSize => m \in got[q]
       /\ pc[q] = "counted" => Index(m) < count[q]
       /\ pc[q] = "done" => m \in got[q]
Readers == {q \in Request : Asks(q, {"thread"})}

ReaderInv == InThePast /\ \A q \in Readers : ReaderAt(q)

(* A message has its place in its thread.                                  *)
LEMMA IndexInThread ==
  ASSUME Typed, NEW q, NEW m \in Thread(q)
  PROVE  Index(m) \in Nat /\ Index(m) < Cardinality(Thread(q))
<1> DEFINE S == {n \in messages : n.report = m.report /\ n.at < m.at}
<1>1. S \subseteq Thread(q) /\ m \notin S
  BY DEF Thread, Typed, TypeOK
<1>2. IsFiniteSet(Thread(q))
  BY FS_Subset DEF Thread, Typed
<1>3. /\ Cardinality(S) \in Nat /\ Cardinality(Thread(q)) \in Nat
      /\ Cardinality(S) <= Cardinality(Thread(q)) /\ Cardinality(S) # Cardinality(Thread(q))
  BY <1>1, <1>2, FS_Subset, FS_CardinalityType
<1> QED
  BY <1>3 DEF Index

(* Where pages begin and end.                                              *)
LEMMA PageEnds ==
  ASSUME NEW n \in Nat \ {0}
  PROVE  (n - 1) * PageSize \in Nat /\ n * PageSize \in Nat /\ n + 1 - 1 = n
  BY CaseAssumption

(* A message that is committed while somebody reads is none that he is     *)
(* owed, and pushes none of those to another place.                        *)
LEMMA OwedKept ==
  ASSUME Typed, ReaderInv, NEW p \in Request, Insert(p), NEW q \in Request, NEW m, Owed(q, m)'
  PROVE  Owed(q, m) /\ Index(m)' = Index(m)
<1> DEFINE new == [report |-> job[p].report, sender |-> job[p].user, at |-> stamp[p],
                   since |-> clock + 1]
<1>1. messages' = messages \cup {new} /\ job' = job /\ began' = began
  BY DEF Insert, reader
<1>2. new.since > began[q] /\ ~(new.since <= began[q])
  BY DEF ReaderInv, InThePast, Typed, TypeOK
<1> HIDE DEF new
<1>3. m # new
  BY <1>1, <1>2 DEF Owed
<1>4. m \in messages /\ m.report = job[q].report /\ m.since <= began[q]
  BY <1>1, <1>3 DEF Owed, Thread
<1>5. ~(new.report = m.report /\ new.at < m.at)
  BY <1>1, <1>2 DEF Owed, Overtaken
<1>6. Index(m)' = Index(m)
  <2>1. {n \in messages' : n.report = m.report /\ n.at < m.at}
          = {n \in messages : n.report = m.report /\ n.at < m.at}
    BY <1>1, <1>5
  <2> QED
    BY <2>1 DEF Index
<1>7. ~Overtaken(q, m)
  BY <1>1 DEF Owed, Overtaken
<1> QED
  BY <1>4, <1>6, <1>7 DEF Owed, Thread

(* What the readers do not see.                                            *)
LEMMA ReadersStay ==
  ASSUME Typed, ReaderInv, job' = job, messages' = messages, reader' = reader,
         clock' \in {clock, clock + 1},
         \A q \in Readers : pc'[q] = pc[q] \/ pc'[q] \in {"denied", "failed"}
  PROVE  ReaderInv'
<1>0. UNCHANGED <<page, count, got, began>>
  BY DEF reader
<1>1. InThePast'
  BY <1>0 DEF ReaderInv, InThePast, Typed, TypeOK
<1>2. Readers' = Readers
  BY DEF Readers, Asks
<1>3. ASSUME NEW q \in Readers PROVE ReaderAt(q)'
  <2>1. ReaderAt(q)
    BY DEF ReaderInv
  <2>2. \A m : (Owed(q, m)' <=> Owed(q, m)) /\ Index(m)' = Index(m)
    BY <1>0 DEF Owed, Overtaken, Thread, Index
  <2> QED
    BY <1>0, <2>1, <2>2 DEF ReaderAt
<1> QED
  BY <1>1, <1>2, <1>3 DEF ReaderInv

LEMMA ReaderInvHolds == Spec => []ReaderInv
<1>1. Init => ReaderInv
  BY DEF Init, ReaderInv, InThePast, Readers, ReaderAt, Owed, Thread
<1>2. Typed /\ ReaderInv /\ [Next]_vars => ReaderInv'
  <2> SUFFICES ASSUME Typed, ReaderInv, [Next]_vars PROVE ReaderInv'
    OBVIOUS
  <2>0. /\ job' = job /\ Readers' = Readers
        /\ pc \in [Request -> {"idle", "admitted", "stamped", "counted", "next", "stored",
                               "totalled", "averaged"} \cup Facet \cup Final]
        /\ clock \in Nat /\ began \in [Request -> Nat]
    BY JobFixed DEF Typed, TypeOK, Readers, Asks
  <2>1. ASSUME NEW q \in Request, Count(q) PROVE ReaderInv'
    <3>1. /\ q \in Readers /\ UNCHANGED <<clock, messages, page, got>>
          /\ pc'[q] = "counted" /\ count'[q] = Cardinality(Thread(q))
          /\ began'[q] = IF page[q] = 1 THEN clock ELSE began[q]
          /\ pc[q] = IF page[q] = 1 THEN "idle" ELSE "next"
      BY <2>0, <2>1 DEF Count, Goto, Readers, Typed, TypeOK
    <3>2. \A r \in Request \ {q} : pc'[r] = pc[r] /\ count'[r] = count[r] /\ began'[r] = began[r]
      BY <2>0, <2>1 DEF Count, Goto, Typed, TypeOK
    <3>3. InThePast'
      BY <2>0, <3>1, <3>2 DEF ReaderInv, InThePast
    <3>4. ASSUME NEW r \in Readers \ {q} PROVE ReaderAt(r)'
      <4>1. r \in Request /\ ReaderAt(r)
        BY DEF ReaderInv, Readers
      <4>2. \A m : (Owed(r, m)' <=> Owed(r, m)) /\ Index(m)' = Index(m)
        BY <2>0, <3>1, <3>2, <4>1 DEF Owed, Overtaken, Thread, Index
      <4> QED
        BY <3>1, <3>2, <4>1, <4>2 DEF ReaderAt
    <3>5. ReaderAt(q)'
      <4>1. ReaderAt(q)
        BY <3>1 DEF ReaderInv
      <4>2. Thread(q)' = Thread(q) /\ \A m : Index(m)' = Index(m)
        BY <2>0, <3>1 DEF Thread, Index
      <4>3. ASSUME NEW m, Owed(q, m)'
            PROVE  /\ Index(m) < (page[q] - 1) * PageSize => m \in got[q]
                   /\ Index(m) < count'[q]
        <5>1. Index(m) \in Nat /\ Index(m) < Cardinality(Thread(q))
          BY <4>2, <4>3, IndexInThread DEF Owed
        <5>2. CASE page[q] = 1
          <6>1. (page[q] - 1) * PageSize = 0
            BY <5>2, CaseAssumption
          <6> QED
            BY <3>1, <5>1, <6>1
        <5>3. CASE page[q] # 1
          <6>1. Owed(q, m)
            BY <2>0, <3>1, <4>2, <4>3, <5>3 DEF Owed, Overtaken
          <6> QED
            BY <3>1, <4>1, <5>1, <5>3, <6>1 DEF ReaderAt
        <5> QED
          BY <5>2, <5>3
      <4> QED
        BY <3>1, <4>2, <4>3 DEF ReaderAt
    <3> QED
      BY <2>0, <3>3, <3>4, <3>5 DEF ReaderInv
  <2>2. ASSUME NEW q \in Request, ReadPage(q) PROVE ReaderInv'
    <3>1. /\ UNCHANGED <<clock, messages, count, began>>
          /\ pc[q] = "counted"
          /\ pc'[q] = IF page[q] * PageSize < count[q] THEN "next" ELSE "done"
          /\ got'[q] = got[q] \cup Slice(q) /\ page'[q] = page[q] + 1
          /\ \A r \in Request \ {q} : pc'[r] = pc[r] /\ page'[r] = page[r] /\ got'[r] = got[r]
      BY <2>0, <2>2 DEF ReadPage, Goto, Typed, TypeOK
    <3>2. InThePast'
      BY <3>1 DEF ReaderInv, InThePast
    <3>3. \A r, m : (Owed(r, m)' <=> Owed(r, m)) /\ Index(m)' = Index(m)
      BY <2>0, <3>1 DEF Owed, Overtaken, Thread, Index
    <3>4. ASSUME NEW r \in Readers PROVE ReaderAt(r)'
      <4>0. r \in Request /\ ReaderAt(r)
        BY DEF ReaderInv, Readers
      <4>1. CASE r # q
        BY <3>1, <3>3, <4>0, <4>1 DEF ReaderAt
      <4>2. CASE r = q
        <5>1. /\ page[q] \in Nat \ {0} /\ count[q] \in Nat
              /\ (page[q] - 1) * PageSize \in Nat /\ page[q] * PageSize \in Nat
              /\ page'[q] - 1 = page[q]
          BY <3>1, PageEnds DEF Typed, TypeOK
        <5>2. ASSUME NEW m, Owed(q, m), Index(m) < page[q] * PageSize PROVE m \in got'[q]
          <6>1. m \in Thread(q) /\ Index(m) \in Nat /\ Index(m) < count[q]
            BY <3>1, <4>0, <4>2, <5>2, IndexInThread DEF ReaderAt, Owed
          <6>2. CASE Index(m) < (page[q] - 1) * PageSize
            BY <3>1, <4>0, <4>2, <5>2, <6>2 DEF ReaderAt
          <6>3. CASE (page[q] - 1) * PageSize <= Index(m)
            BY <3>1, <5>2, <6>1, <6>3 DEF Slice
          <6> QED
            BY <5>1, <6>1, <6>2, <6>3
        <5>3. ASSUME NEW m, Owed(q, m), ~(page[q] * PageSize < count[q])
              PROVE  Index(m) < page[q] * PageSize
          <6>1. Index(m) \in Nat /\ Index(m) < count[q]
            BY <3>1, <4>0, <4>2, <5>3, IndexInThread DEF ReaderAt, Owed
          <6> QED
            BY <5>1, <5>3, <6>1
        <5> QED
          BY <3>1, <3>3, <4>2, <5>1, <5>2, <5>3 DEF ReaderAt
      <4> QED
        BY <4>1, <4>2
    <3> QED
      BY <2>0, <3>2, <3>4 DEF ReaderInv
  <2>3. ASSUME NEW p \in Request, Insert(p) PROVE ReaderInv'
    <3>1. /\ UNCHANGED <<page, count, got, began>> /\ clock' = clock + 1
          /\ pc[p] = "stamped" /\ \A r \in Request \ {p} : pc'[r] = pc[r]
          /\ \A m \in messages' : m \in messages \/ m.since = clock + 1
      BY <2>0, <2>3 DEF Insert, Goto, reader
    <3>2. InThePast'
      <4>1. \A m \in messages : m.since \in Nat
        BY DEF Typed, TypeOK
      <4> QED
        BY <2>0, <3>1, <4>1 DEF ReaderInv, InThePast
    <3>3. ASSUME NEW q \in Readers PROVE ReaderAt(q)'
      <4>1. q \in Request /\ ReaderAt(q)
        BY DEF ReaderInv, Readers
      <4>2. q # p
        BY <3>1, <4>1 DEF ReaderAt
      <4>3. \A m : Owed(q, m)' => Owed(q, m) /\ Index(m)' = Index(m)
        BY <2>3, <4>1, OwedKept
      <4> QED
        BY <3>1, <4>1, <4>2, <4>3 DEF ReaderAt
    <3> QED
      BY <2>0, <3>2, <3>3 DEF ReaderInv
  <2>4. ASSUME NEW r \in Report, File(r) \/ SetStatus(r) \/ Assign(r) PROVE ReaderInv'
    BY <2>0, <2>4, ReadersStay DEF File, SetStatus, Assign, Change
  <2>5. ASSUME NEW q \in Request,
               Admit(q) \/ Stamp(q) \/ Refuse(q) \/ StoreFile(q) \/ AddEvidence(q) \/ Total(q)
               \/ Resolved(q) \/ \E f \in Facet : Group(q, f)
        PROVE  ReaderInv'
    <3>1. /\ UNCHANGED <<messages, reader>> /\ clock' \in {clock, clock + 1}
          /\ \A r \in Request \ {q} : pc'[r] = pc[r]
      BY <2>0, <2>5 DEF Admit, Stamp, Refuse, StoreFile, AddEvidence, Total, Resolved, Group, Goto
    <3>2. q \notin Readers
      <4>1. Asks(q, {"thread"}) => pc[q] \in {"idle", "counted", "next", "done", "denied", "failed"}
        BY DEF ReaderInv, ReaderAt, Readers
      <4> QED
        BY <2>5, <4>1 DEF Admit, Stamp, Refuse, StoreFile, AddEvidence, Total, Resolved, Group,
                          Goto, Readers, Asks, Before, Facet
    <3> QED
      BY <2>0, <3>1, <3>2, ReadersStay DEF Readers
  <2>6. ASSUME NEW q \in Request, Deny(q) \/ Fail(q) PROVE ReaderInv'
    <3>1. /\ UNCHANGED <<messages, reader, clock>>
          /\ \A r \in Request : pc'[r] = pc[r] \/ pc'[r] \in {"denied", "failed"}
      BY <2>0, <2>6 DEF Deny, Fail
    <3> QED
      BY <2>0, <3>1, ReadersStay DEF Readers
  <2>7. CASE UNCHANGED vars
    BY <2>0, <2>7, ReadersStay DEF vars
  <2> QED
    BY <2>1, <2>2, <2>3, <2>4, <2>5, <2>6, <2>7 DEF Next, Handle, Write, Quiet
<1> QED
  BY <1>1, <1>2, TypedHolds, PTL DEF Spec

(* Who follows the pages of a thread to the end has every message that was *)
(* there when he began and was not overtaken, for any page size and however*)
(* many messages are committed between his count and his slice.            *)
THEOREM WholeThreadRead == Spec => []ThreadComplete
<1>1. TypeOK /\ ReaderInv => ThreadComplete
  BY DEF ReaderInv, ReaderAt, Readers, Owed, ThreadComplete
<1> QED
  BY <1>1, TypeCorrect, ReaderInvHolds, PTL

-----------------------------------------------------------------------------
(* THE SUMMARY                                                             *)

(* A finite set is counted whole by any grouping of it: the counts of the  *)
(* groups sum up to its cardinality.                                       *)
LEMMA GroupsAddUp ==
  ASSUME NEW R, IsFiniteSet(R), NEW V, NEW g \in [R -> V], NEW c,
         c = [v \in V |-> Cardinality({r \in R : g[r] = v})]
  PROVE  Cardinality(Counted(c)) = Cardinality(R)
<1> DEFINE S(v) == {r \in R : g[r] = v}
           Places(v) == Bijection(S(v), 1..c[v])
           place == [v \in V |-> CHOOSE b \in Places(v) : TRUE]
           tag == [r \in R |-> <<g[r], place[g[r]][r]>>]
<1>1. ASSUME NEW v \in V PROVE place[v] \in Places(v)
  <2>1. IsFiniteSet(S(v))
    BY FS_Subset
  <2>2. ExistsBijection(1..c[v], S(v))
    BY <2>1, FS_CardinalityType
  <2>3. Places(v) # {}
    BY <2>2, Fun_ExistsBijSymmetric, Fun_ExistsBij
  <2> QED
    BY <2>3
<1> HIDE DEF place
<1>2. ASSUME NEW v \in V
      PROVE  /\ \A r \in S(v) : place[v][r] \in 1..c[v]
             /\ \A r, s \in S(v) : place[v][r] = place[v][s] => r = s
             /\ \A n \in 1..c[v] : \E r \in S(v) : place[v][r] = n
  <2> DEFINE T == S(v)
             N == 1..c[v]
             b == place[v]
  <2>1. b \in Bijection(T, N)
    BY <1>1
  <2> HIDE DEF T, N, b
  <2>2. /\ b \in [T -> N] /\ \A r, s \in T : b[r] = b[s] => r = s
        /\ \A n \in N : \E r \in T : b[r] = n
    BY <2>1, Fun_BijectionProperties
  <2>3. \A r \in T : b[r] \in N
    BY <2>2
  <2> QED
    BY <2>2, <2>3 DEF T, N, b
<1>3. \A x : x \in Counted(c) <=> \E v \in V : \E n \in 1..c[v] : x = <<v, n>>
  <2>1. DOMAIN c = V
    OBVIOUS
  <2> QED
    BY <2>1 DEF Counted
<1>4. ASSUME NEW r \in R PROVE g[r] \in V /\ r \in S(g[r]) /\ tag[r] = <<g[r], place[g[r]][r]>>
  OBVIOUS
<1>5. tag \in [R -> Counted(c)]
  BY <1>2, <1>3, <1>4
<1>6. ASSUME NEW r \in R, NEW s \in R, tag[r] = tag[s] PROVE r = s
  <2>1. g[r] = g[s] /\ place[g[r]][r] = place[g[r]][s]
    BY <1>4, <1>6
  <2> QED
    BY <1>2, <1>4, <2>1
<1>7. ASSUME NEW x \in Counted(c) PROVE \E r \in R : tag[r] = x
  <2>1. PICK v \in V : \E n \in 1..c[v] : x = <<v, n>>
    BY <1>3
  <2>2. PICK n \in 1..c[v] : x = <<v, n>>
    BY <2>1
  <2>3. PICK r \in S(v) : place[v][r] = n
    BY <1>2
  <2> QED
    BY <1>4, <2>2, <2>3
<1> HIDE DEF tag
<1>8. ExistsBijection(R, Counted(c))
  BY <1>5, <1>6, <1>7, Fun_IsBij, Fun_ExistsBij
<1> QED
  BY <1>8, FS_Bijection

(* A grouping counts each of the reports there are when it is executed.    *)
LEMMA GroupCountsAll ==
  ASSUME TypeOK, NEW q \in Request, NEW f \in Facet, Group(q, f)
  PROVE  Sum(q, f)' = Cardinality(filed)
<1> DEFINE g == [r \in filed |-> row[r][f]]
           c == [v \in Values[f] |-> Having(f, v)]
<1>1. filed \subseteq Report /\ IsFiniteSet(filed)
  BY CaseAssumption, FS_Subset DEF TypeOK
<1>2. g \in [filed -> Values[f]]
  <2>1. \A r \in filed : row[r] \in Row
    BY <1>1 DEF TypeOK
  <2>2. \A r \in filed : row[r][f] \in Values[f]
    <3>1. CASE f = "category"
      BY <2>1, <3>1 DEF Row
    <3>2. CASE f = "status"
      BY <2>1, <3>2 DEF Row
    <3>3. CASE f = "urgency"
      BY <2>1, <3>3 DEF Row
    <3> QED
      BY <3>1, <3>2, <3>3 DEF Facet
  <2> QED
    BY <2>2
<1>3. summary'[q][f] = c
  <2>1. summary' = [summary EXCEPT ![q] = [summary[q] EXCEPT ![f] = c]] /\ f \in DOMAIN summary[q]
    <3>1. summary[q] \in [total : Nat, category : Counts("category"),
                          status : Counts("status"), urgency : Counts("urgency")]
      BY DEF TypeOK
    <3> QED
      BY <3>1 DEF Group, Facet
  <2> QED
    BY <2>1 DEF TypeOK
<1>4. c = [v \in Values[f] |-> Cardinality({r \in filed : g[r] = v})]
  <2>1. \A v \in Values[f] : {r \in filed : g[r] = v} = {r \in filed : row[r][f] = v}
    OBVIOUS
  <2> QED
    BY <2>1 DEF Having
<1> HIDE DEF g, c
<1>5. Cardinality(Counted(c)) = Cardinality(filed)
  BY <1>1, <1>2, <1>4, GroupsAddUp
<1> QED
  BY <1>3, <1>5 DEF Sum

(* Where a summary is, and how far its counts are in order: the groupings  *)
(* made so far, and after the last of them the reports there are now.      *)
Past == [category |-> {"category", "status", "done"}, status |-> {"status", "done"},
         urgency |-> {"done"}]
SummaryAt(q) ==
  LET done(f) == pc[q] \in Past[f]
  IN  /\ pc[q] \in {"idle", "totalled", "averaged", "category", "status", "done", "denied", "failed"}
      /\ \A f \in Facet : done(f) => Sum(q, f) \in Nat /\ Sum(q, f) <= Cardinality(filed)
      /\ pc[q] \in {"totalled", "averaged", "category", "status", "done"}
           => summary[q].total <= Cardinality(filed)
      /\ done("category") => summary[q].total <= Sum(q, "category")
      /\ done("status") => Sum(q, "category") <= Sum(q, "status")
      /\ done("urgency") => Sum(q, "status") <= Sum(q, "urgency")
Summaries == {q \in Request : Asks(q, {"summary"})}
SummaryInv == \A q \in Summaries : SummaryAt(q)

(* Filing can only raise what the counts are compared with.                *)
LEMMA MoreFiled ==
  ASSUME TypeOK, NEW n \in Nat, NEW m, m = Cardinality(filed), TypeOK', filed \subseteq filed', n <= m
  PROVE  n <= Cardinality(filed') /\ m \in Nat /\ Cardinality(filed') \in Nat
<1>1. IsFiniteSet(filed') /\ IsFiniteSet(filed)
  BY CaseAssumption, FS_Subset DEF TypeOK
<1>2. Cardinality(filed) <= Cardinality(filed')
  BY <1>1, FS_Subset
<1> QED
  BY <1>1, <1>2, FS_CardinalityType

(* A summary that does not move, or gives up.                              *)
LEMMA SummaryStays ==
  ASSUME TypeOK, TypeOK', SummaryInv, job' = job, NEW q \in Summaries, filed \subseteq filed',
         summary'[q] = summary[q], pc'[q] = pc[q] \/ pc'[q] \in {"denied", "failed"}
  PROVE  SummaryAt(q)'
<1>1. SummaryAt(q) /\ q \in Request
  BY DEF SummaryInv, Summaries
<1>2. \A f \in Facet : Sum(q, f)' = Sum(q, f)
  BY DEF Sum
<1>3. summary[q].total \in Nat
  BY <1>1 DEF TypeOK
<1>4. \A n \in Nat : n <= Cardinality(filed) => n <= Cardinality(filed')
  BY MoreFiled
<1> QED
  BY <1>1, <1>2, <1>3, <1>4 DEF SummaryAt, Past, Facet

LEMMA SummaryInvHolds == Spec => []SummaryInv
<1>1. Init => SummaryInv
  BY DEF Init, SummaryInv, Summaries, SummaryAt, Past, Facet
<1>2. TypeOK /\ TypeOK' /\ SummaryInv /\ [Next]_vars => SummaryInv'
  <2> SUFFICES ASSUME TypeOK, TypeOK', SummaryInv, [Next]_vars PROVE SummaryInv'
    OBVIOUS
  <2>0. /\ job' = job /\ Summaries' = Summaries /\ Summaries \subseteq Request
        /\ pc \in [Request -> {"idle", "admitted", "stamped", "counted", "next", "stored",
                               "totalled", "averaged"} \cup Facet \cup Final]
        /\ \A q \in Summaries : SummaryAt(q)
    BY JobFixed DEF TypeOK, Summaries, Asks, SummaryInv
  <2>1. ASSUME NEW q \in Request, Total(q) PROVE SummaryInv'
    <3>1. /\ q \in Summaries /\ filed' = filed /\ pc[q] = "idle"
          /\ \A p \in Summaries \ {q} : pc'[p] = pc[p] /\ summary'[p] = summary[p]
      BY <2>0, <2>1 DEF Total, Goto, Summaries, table, TypeOK
    <3>2. CASE pc'[q] = "denied"
      BY <2>0, <3>1, <3>2 DEF SummaryInv, SummaryAt, Past, Sum, Facet
    <3>3. CASE pc'[q] = "totalled" /\ summary'[q].total = Cardinality(filed)
      <4>1. SummaryAt(q)'
        <5>1. Cardinality(filed') <= Cardinality(filed') /\ summary'[q].total = Cardinality(filed')
          BY <3>1, <3>3, ReportsCounted
        <5> QED
          BY <3>3, <5>1 DEF SummaryAt, Past, Facet
      <4>2. \A p \in Summaries \ {q} : SummaryAt(p)'
        BY <2>0, <3>1, SummaryStays
      <4> QED
        BY <2>0, <4>1, <4>2 DEF SummaryInv
    <3> QED
      BY <2>0, <2>1, <3>2, <3>3 DEF Total, Goto, TypeOK
  <2>2. ASSUME NEW q \in Request, Resolved(q) PROVE SummaryInv'
    <3>1. /\ filed' = filed /\ summary' = summary /\ pc[q] = "totalled"
          /\ pc'[q] \in {"failed", "averaged"}
          /\ \A p \in Summaries \ {q} : pc'[p] = pc[p]
      BY <2>0, <2>2 DEF Resolved, Goto, table
    <3>2. ASSUME q \in Summaries PROVE SummaryAt(q)'
      BY <2>0, <3>1, <3>2 DEF SummaryAt, Past, Facet
    <3>3. \A p \in Summaries \ {q} : SummaryAt(p)'
      BY <2>0, <3>1, SummaryStays
    <3> QED
      BY <2>0, <3>2, <3>3 DEF SummaryInv
  <2>3. ASSUME NEW q \in Request, NEW f \in Facet, Group(q, f) PROVE SummaryInv'
    <3>1. /\ filed' = filed /\ pc[q] = Before[f]
          /\ pc'[q] = IF f = "urgency" THEN "done" ELSE f
          /\ \A p \in Summaries \ {q} : pc'[p] = pc[p] /\ summary'[p] = summary[p]
          /\ summary'[q].total = summary[q].total
          /\ \A h \in Facet \ {f} : summary'[q][h] = summary[q][h]
      BY <2>0, <2>3 DEF Group, Goto, table, TypeOK, Facet
    <3>2. ASSUME q \in Summaries PROVE SummaryAt(q)'
      <4>1. Sum(q, f)' = Cardinality(filed') /\ Cardinality(filed') \in Nat
        BY <2>3, <3>1, GroupCountsAll, ReportsCounted
      <4>2. \A h \in Facet \ {f} : Sum(q, h)' = Sum(q, h)
        BY <3>1 DEF Sum
      <4>3. SummaryAt(q) /\ summary[q].total \in Nat
        BY <2>0, <3>2 DEF TypeOK
      <4>4. CASE f = "category"
        BY <3>1, <4>1, <4>2, <4>3, <4>4 DEF SummaryAt, Past, Facet, Before
      <4>5. CASE f = "status"
        BY <3>1, <4>1, <4>2, <4>3, <4>5 DEF SummaryAt, Past, Facet, Before
      <4>6. CASE f = "urgency"
        BY <3>1, <4>1, <4>2, <4>3, <4>6 DEF SummaryAt, Past, Facet, Before
      <4> QED
        BY <4>4, <4>5, <4>6 DEF Facet
    <3>3. \A p \in Summaries \ {q} : SummaryAt(p)'
      BY <2>0, <3>1, SummaryStays
    <3> QED
      BY <2>0, <3>2, <3>3 DEF SummaryInv
  <2>4. ASSUME NEW q \in Request,
               Admit(q) \/ Stamp(q) \/ Insert(q) \/ Count(q) \/ ReadPage(q) \/ Refuse(q)
               \/ StoreFile(q) \/ AddEvidence(q)
        PROVE  SummaryInv'
    <3>1. /\ filed' = filed /\ summary' = summary
          /\ \A p \in Request \ {q} : pc'[p] = pc[p]
      BY <2>0, <2>4 DEF Admit, Stamp, Insert, Count, ReadPage, Refuse, StoreFile, AddEvidence,
                        Goto, table
    <3>2. q \notin Summaries
      <4>1. Asks(q, {"summary"}) => pc[q] \notin {"admitted", "stamped", "counted", "stored"}
        BY <2>0 DEF SummaryAt, Summaries
      <4> QED
        BY <2>4, <4>1 DEF Admit, Stamp, Insert, Count, ReadPage, Refuse, StoreFile, AddEvidence,
                          Goto, Summaries, Asks
    <3>3. \A p \in Summaries : SummaryAt(p)'
      BY <2>0, <3>1, <3>2, SummaryStays
    <3> QED
      BY <2>0, <3>3 DEF SummaryInv
  <2>5. ASSUME NEW q \in Request, Deny(q) \/ Fail(q) PROVE SummaryInv'
    <3>1. /\ filed' = filed /\ summary' = summary
          /\ \A p \in Request : pc'[p] = pc[p] \/ pc'[p] \in {"denied", "failed"}
      BY <2>0, <2>5 DEF Deny, Fail, table
    <3> QED
      BY <2>0, <3>1, SummaryStays DEF SummaryInv
  <2>6. ASSUME NEW r \in Report, File(r) \/ SetStatus(r) \/ Assign(r) PROVE SummaryInv'
    <3>1. filed \subseteq filed' /\ summary' = summary /\ pc' = pc
      BY <2>6 DEF File, SetStatus, Assign, Change
    <3> QED
      BY <2>0, <3>1, SummaryStays DEF SummaryInv
  <2>7. CASE UNCHANGED vars
    <3>1. filed' = filed /\ summary' = summary /\ pc' = pc
      BY <2>7 DEF vars, table
    <3> QED
      BY <2>0, <3>1, SummaryStays DEF SummaryInv
  <2> QED
    BY <2>1, <2>2, <2>3, <2>4, <2>5, <2>6, <2>7 DEF Next, Handle, Write, Quiet
<1> QED
  BY <1>1, <1>2, TypeCorrect, PTL DEF Spec

(* The groupings of a summary count every report once, although each sees  *)
(* the table of its own instant and reports are filed and change status in *)
(* between: for any reports, columns and values.                           *)
THEOREM SummaryCountsOnce == Spec => []SummaryAddsUp
<1>1. SummaryInv => SummaryAddsUp
  BY DEF SummaryInv, SummaryAt, Summaries, SummaryAddsUp, Past, Facet
<1> QED
  BY <1>1, SummaryInvHolds, PTL

-----------------------------------------------------------------------------
(* EVIDENCE                                                                *)

(* Where an upload can be, and what it has stored when it is there.        *)
UploadSteps ==
  \A q \in Request :
    /\ Asks(q, {"upload"}) => pc[q] \in {"idle", "stored"} \cup Final
    /\ pc[q] = "stored" => q \in files

EvidenceInv == UploadSteps /\ EvidenceWhole

(* Evidence is never without its file or its audit entry, an answered      *)
(* upload has both, and a refused one leaves no file, wherever any number  *)
(* of uploads fail.                                                        *)
THEOREM WholeEvidence == Spec => []EvidenceWhole
<1>1. Init => EvidenceInv
  BY DEF Init, EvidenceInv, UploadSteps, EvidenceWhole
<1>2. TypeOK /\ EvidenceInv /\ [Next]_vars => EvidenceInv'
  <2> SUFFICES ASSUME TypeOK, EvidenceInv, [Next]_vars PROVE EvidenceInv'
    OBVIOUS
  <2>0. /\ job' = job
        /\ pc \in [Request -> {"idle", "admitted", "stamped", "counted", "next", "stored",
                               "totalled", "averaged"} \cup Facet \cup Final]
    BY JobFixed DEF TypeOK
  <2> USE <2>0 DEF EvidenceInv, UploadSteps, EvidenceWhole, Asks, Goto, store, table, reader
  <2>1. ASSUME files' = files, evidence' = evidence, audit' = audit, pc' = pc
        PROVE  EvidenceInv'
    BY <2>1
  <2>2. ASSUME NEW q \in Request, StoreFile(q) PROVE EvidenceInv'
    BY <2>2 DEF StoreFile, Final
  <2>3. ASSUME NEW q \in Request, AddEvidence(q) PROVE EvidenceInv'
    BY <2>3 DEF AddEvidence, Final
  <2>4. ASSUME NEW q \in Request,
               \/ Admit(q) \/ Deny(q) \/ Stamp(q) \/ Insert(q) \/ Count(q) \/ ReadPage(q)
               \/ Total(q) \/ Resolved(q) \/ \E f \in Facet : Group(q, f)
        PROVE  EvidenceInv'
    <3>1. ~Asks(q, {"upload"}) \/ pc'[q] = pc[q]
      BY <2>4 DEF Admit, Deny, Stamp, Insert, Count, ReadPage, Total, Resolved, Group, Before,
                  Facet, Final
    <3>2. /\ files' = files /\ evidence' = evidence /\ audit' = audit
          /\ pc'[q] # "stored" /\ \A p \in Request \ {q} : pc'[p] = pc[p]
      BY <2>4 DEF Admit, Deny, Stamp, Insert, Count, ReadPage, Total, Resolved, Group, Before,
                  Facet
    <3> QED
      BY <3>1, <3>2
  <2>5. ASSUME NEW q \in Request, Refuse(q) \/ Fail(q) PROVE EvidenceInv'
    BY <2>5 DEF Refuse, Fail, Final
  <2>6. ASSUME NEW r \in Report, File(r) \/ SetStatus(r) \/ Assign(r) PROVE EvidenceInv'
    BY <2>1, <2>6 DEF File, SetStatus, Assign, Change
  <2>7. CASE UNCHANGED vars
    BY <2>1, <2>7 DEF vars
  <2> QED
    BY <2>2, <2>3, <2>4, <2>5, <2>6, <2>7 DEF Next, Handle, Write, Quiet
<1>3. EvidenceInv => EvidenceWhole
  BY DEF EvidenceInv
<1> QED
  BY <1>1, <1>2, <1>3, TypeCorrect, PTL DEF Spec

-----------------------------------------------------------------------------
(* THE COPIES OF THE RULE                                                  *)

(* The five copies of the access rule agree as far as RulesAgree says, for *)
(* all roles, reports and assignments.                                     *)
THEOREM CopiesAgree == Spec => []RulesAgree
<1>1. TypeOK => RulesAgree
  BY DEF TypeOK, RulesAgree, MayFollow, MayUpload, MayDiscuss, MaySync, Officials
<1> QED
  BY <1>1, TypeCorrect, PTL

(* No list and no right depends on who filed an anonymous report.          *)
THEOREM AnonymousStaysAnonymous == Spec => []AnonymityKept
<1>1. TypeOK => AnonymityKept
  <2> SUFFICES ASSUME TypeOK, NEW r \in filed, row[r].anonymous, NEW u \in User, NEW v \in User
               PROVE  LET twin == [row EXCEPT ![r].identity = CreateIdentity(v)] IN
                      /\ Listed(u, filed, twin) = Listed(u, filed, row)
                      /\ Rights(u, twin[r]) = Rights(u, row[r])
    BY DEF AnonymityKept
  <2> DEFINE twin == [row EXCEPT ![r].identity = CreateIdentity(v)]
  <2>1. filed \subseteq Report /\ row \in [Report -> Row] /\ row[r] \in Row
    BY DEF TypeOK
  <2>2. twin = [row EXCEPT ![r] = [row[r] EXCEPT !.identity = CreateIdentity(v)]]
    OBVIOUS
  <2>3. /\ twin[r].anonymous = row[r].anonymous
        /\ twin[r].assigned = row[r].assigned
        /\ twin[r].department = row[r].department
        /\ \A s \in Report \ {r} : twin[s] = row[s]
    BY <2>1, <2>2 DEF Row
  <2> HIDE DEF twin
  <2>4. /\ MayDiscuss(u, twin[r]) = MayDiscuss(u, row[r])
        /\ MaySync(u, twin[r]) = MaySync(u, row[r])
        /\ MayFollow(u, twin[r]) = MayFollow(u, row[r])
        /\ MayUpload(u, twin[r]) = MayUpload(u, row[r])
    BY <2>3 DEF MayDiscuss, MaySync, MayFollow, MayUpload, IsReporter, IsAssigned
  <2>5. Rights(u, twin[r]) = Rights(u, row[r])
    BY <2>4 DEF Rights
  <2>6. /\ \A s \in filed : twin[s].department = row[s].department
        /\ {s \in filed : ~twin[s].anonymous /\ twin[s].identity = Plain("PLACEHOLDER", u)}
             = {s \in filed : ~row[s].anonymous /\ row[s].identity = Plain("PLACEHOLDER", u)}
    BY <2>1, <2>3
  <2>7. Listed(u, filed, twin) = Listed(u, filed, row)
    BY <2>6 DEF Listed
  <2> QED
    BY <2>5, <2>7 DEF twin
<1> QED
  BY <1>1, TypeCorrect, PTL
=============================================================================
