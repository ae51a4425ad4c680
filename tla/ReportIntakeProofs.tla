------------------------- MODULE ReportIntakeProofs -------------------------
(***************************************************************************)
(* Proofs about ReportIntake, for every set of attempts, users, keys,      *)
(* departments, server processes and jobs.                                 *)
(***************************************************************************)
EXTENDS ReportIntake, FiniteSetTheorems, FunctionTheorems, TLAPS

(* What a job is made of.                                                  *)
LEMMA JobParts ==
  ASSUME NEW j \in Job
  PROVE  /\ j.user \in User
         /\ j.key \in Key \cup {NoKey, Blank}
         /\ j.category \in Category
         /\ j.officer \in Officer \cup {Nobody}
         /\ j.live \in BOOLEAN
  BY IntakeAssumption DEF Submission

(* Only users are recipients of department notices.                        *)
LEMMA RecipientsAreUsers == ASSUME NEW c PROVE Recipients(c) \subseteq User
  BY IntakeAssumption DEF Recipients, Routed

(* Jobs never change: they are the requests the clients make.              *)
LEMMA JobFixed == [Next]_vars => job' = job
  BY DEF Next, Handle, Submit, Arrive, Quiet, vars, limiter, history, Refuse, Admit, Block,
         Sync, NextHour, Invalid, Validate, Existing, Lookup, BadField, Duplicate, Insert,
         Write, Broadcast, Alert, Notify, Commit, Fail

(* Every variable keeps its type.                                          *)
THEOREM TypeCorrect == Spec => []TypeOK
<1>1. Init => TypeOK
  <2>1. Nothing \in Rows
    BY DEF Nothing, Rows, Kind
  <2> QED
    BY <2>1, IntakeAssumption DEF Init, TypeOK
<1>2. TypeOK /\ [Next]_vars => TypeOK'
  <2> SUFFICES ASSUME TypeOK, [Next]_vars PROVE TypeOK'
    OBVIOUS
  <2> USE DEF TypeOK, limiter, history, Goto, Active, Inside, Final
  <2>1. ASSUME NEW q \in Attempt, Refuse(q) PROVE TypeOK'
    BY <2>1 DEF Refuse
  <2>2. ASSUME NEW q \in Attempt, Submit(q), ~Refuse(q) PROVE TypeOK'
    <3>1. \E to \in {"admitted", "limited"} : Arrive(q, to)
      BY <2>2 DEF Submit, Admit, Block, Sync
    <3>2. count' \in [Process -> [User -> 0..Limit]]
      <4>1. CASE Admit(q)
        <5>1. PICK p \in Process :
                /\ count[p][job[q].user] < Limit
                /\ count' = [count EXCEPT ![p][job[q].user] = @ + 1]
          BY <4>1 DEF Admit
        <5>2. job[q].user \in User
          BY JobParts
        <5>3. count[p][job[q].user] + 1 \in 0..Limit
          BY <5>1, <5>2, IntakeAssumption
        <5> QED
          BY <5>1, <5>2, <5>3
      <4>2. CASE count' = count
        BY <4>2
      <4> QED
        BY <2>2, <4>1, <4>2 DEF Submit, Block, Sync
    <3>3. known' \in [Attempt -> Attempt \cup {NoReport}]
      BY <3>1 DEF Arrive, Holders
    <3> QED
      BY <3>1, <3>2, <3>3 DEF Arrive
  <2>3. CASE NextHour
    BY <2>3, IntakeAssumption DEF NextHour
  <2>4. ASSUME NEW q \in Attempt, Invalid(q) \/ Validate(q) \/ Lookup(q) \/ BadField(q) \/ Duplicate(q)
        PROVE  TypeOK'
    BY <2>4 DEF Invalid, Validate, Lookup, BadField, Duplicate
  <2>5. ASSUME NEW q \in Attempt, Existing(q) PROVE TypeOK'
    BY <2>5 DEF Existing, Holders
  <2>6. ASSUME NEW q \in Attempt, Insert(q) PROVE TypeOK'
    <3>1. [pending[q] EXCEPT !.rows = {"report"}] \in Rows
      BY DEF Rows, Kind
    <3>2. pending' = [pending EXCEPT ![q] = [pending[q] EXCEPT !.rows = {"report"}]]
      BY <2>6 DEF Insert
    <3> QED
      BY <2>6, <3>1, <3>2 DEF Insert
  <2>7. ASSUME NEW q \in Attempt, Write(q) PROVE TypeOK'
    <3> DEFINE k == After[pending[q].last]
    <3>1. k \in Kind
      BY <2>7 DEF Write, After, Kind
    <3>2. [pending[q] EXCEPT !.rows = @ \cup {k}, !.last = k] \in Rows
      BY <3>1 DEF Rows
    <3>3. pending' = [pending EXCEPT ![q] = [pending[q] EXCEPT !.rows = @ \cup {k}, !.last = k]]
      BY <2>7 DEF Write
    <3> QED
      BY <2>7, <3>2, <3>3 DEF Write
  <2>8. ASSUME NEW q \in Attempt, Broadcast(q) PROVE TypeOK'
    BY <2>8 DEF Broadcast
  <2>9. ASSUME NEW q \in Attempt, Alert(q) PROVE TypeOK'
    <3>1. job[q].officer \in Officer \cup {Nobody}
      BY JobParts
    <3> QED
      BY <2>9, <3>1 DEF Alert
  <2>10. ASSUME NEW q \in Attempt, Notify(q) PROVE TypeOK'
    <3>1. [pending[q] EXCEPT !.told = Recipients(job[q].category)] \in Rows
      BY RecipientsAreUsers DEF Rows
    <3>2. pending' = [pending EXCEPT ![q] = [pending[q] EXCEPT !.told = Recipients(job[q].category)]]
      BY <2>10 DEF Notify
    <3> QED
      BY <2>10, <3>1, <3>2 DEF Notify
  <2>11. ASSUME NEW q \in Attempt, Commit(q) \/ Fail(q) PROVE TypeOK'
    <3>1. Nothing \in Rows
      BY DEF Nothing, Rows, Kind
    <3> QED
      BY <2>11, <3>1 DEF Commit, Fail
  <2>12. CASE UNCHANGED vars
    BY <2>12 DEF vars
  <2> QED
    BY <2>1, <2>2, <2>3, <2>4, <2>5, <2>6, <2>7, <2>8, <2>9, <2>10, <2>11, <2>12
       DEF Next, Handle, Quiet
<1> QED
  BY <1>1, <1>2, PTL DEF Spec

-----------------------------------------------------------------------------
(* WHOLE REPORTS                                                           *)

(* The rows an open transaction has written when it has come to a kind.    *)
UpTo ==
  [report   |-> {"report"},
   identity |-> {"report", "identity"},
   audit    |-> {"report", "identity", "audit"},
   metadata |-> {"report", "identity", "audit", "metadata"},
   notice   |-> Kind]

PendingInOrder ==
  \A q \in Attempt :
    /\ pc[q] \notin Inside => pending[q] = Nothing
    /\ pc[q] \in Inside => pending[q].rows = UpTo[pending[q].last]
    /\ pc[q] \in {"heard", "alerted", "notified"} => pending[q].last = "notice"
    /\ pc[q] = "notified" => pending[q].told = Recipients(job[q].category)

WholeInv == PendingInOrder /\ CreatedWhole

LEMMA WholeInvHolds == Spec => []WholeInv
<1>1. Init => WholeInv
  BY DEF Init, WholeInv, PendingInOrder, CreatedWhole, Inside
<1>2. TypeOK /\ WholeInv /\ [Next]_vars => WholeInv'
  <2> SUFFICES ASSUME TypeOK, WholeInv, [Next]_vars PROVE WholeInv'
    OBVIOUS
  <2>0. /\ job' = job
        /\ pc \in [Attempt -> {"idle"} \cup Active \cup Final]
        /\ pending \in [Attempt -> Rows]
        /\ stored \in [Attempt -> Rows]
    BY JobFixed DEF TypeOK
  <2> USE <2>0 DEF WholeInv, PendingInOrder, CreatedWhole, Goto, Inside
  <2>1. ASSUME NEW q \in Attempt,
               \/ Refuse(q) \/ Submit(q) \/ Invalid(q) \/ Validate(q) \/ Existing(q)
               \/ Lookup(q) \/ BadField(q) \/ Duplicate(q)
        PROVE  WholeInv'
    <3>1. pending' = pending /\ stored' = stored /\ pc[q] \notin Inside /\ pc'[q] \notin Inside
      BY <2>1 DEF Refuse, Submit, Admit, Block, Sync, Arrive, Invalid, Validate, Existing,
                  Lookup, BadField, Duplicate
    <3>2. \A r \in Attempt \ {q} : pc'[r] = pc[r]
      BY <2>1 DEF Refuse, Submit, Admit, Block, Sync, Arrive, Invalid, Validate, Existing,
                  Lookup, BadField, Duplicate
    <3> QED
      BY <3>1, <3>2
  <2>2. ASSUME NEW q \in Attempt, Insert(q) PROVE WholeInv'
    <3>1. pending[q] = Nothing
      BY <2>2 DEF Insert
    <3>2. pending'[q].rows = {"report"} /\ pending'[q].last = "report"
      BY <2>2, <3>1 DEF Insert, Nothing
    <3>3. pending'[q].rows = UpTo[pending'[q].last]
      BY <3>2 DEF UpTo
    <3>4. \A r \in Attempt \ {q} : pending'[r] = pending[r] /\ pc'[r] = pc[r]
      BY <2>2 DEF Insert
    <3>5. stored' = stored /\ pc'[q] = "inserted"
      BY <2>2 DEF Insert
    <3> QED
      BY <3>3, <3>4, <3>5
  <2>3. ASSUME NEW q \in Attempt, Write(q) PROVE WholeInv'
    <3>1. /\ pending[q] \in Rows
          /\ pending[q].last \in {"report", "identity", "audit", "metadata"}
      BY <2>3 DEF Write, After
    <3>2. UpTo[pending[q].last] \cup {After[pending[q].last]} = UpTo[After[pending[q].last]]
      BY <3>1 DEF UpTo, After, Kind
    <3>3. /\ pending'[q].rows = pending[q].rows \cup {After[pending[q].last]}
          /\ pending'[q].last = After[pending[q].last]
      BY <2>3, <3>1 DEF Write, Rows
    <3>4. \A r \in Attempt \ {q} : pending'[r] = pending[r]
      BY <2>3 DEF Write
    <3>5. pc' = pc /\ stored' = stored /\ pc[q] = "inserted"
      BY <2>3 DEF Write
    <3> QED
      BY <3>2, <3>3, <3>4, <3>5
  <2>4. ASSUME NEW q \in Attempt, Notify(q) PROVE WholeInv'
    <3>1. /\ pending'[q].rows = pending[q].rows
          /\ pending'[q].last = pending[q].last
          /\ pending'[q].told = Recipients(job[q].category)
      BY <2>4 DEF Notify, Rows
    <3> QED
      BY <2>4, <3>1 DEF Notify
  <2>5. ASSUME NEW q \in Attempt, Commit(q) PROVE WholeInv'
    <3>1. pending[q].rows = Kind /\ pending[q].told = Recipients(job[q].category)
      BY <2>5 DEF Commit, UpTo
    <3> QED
      BY <2>5, <3>1 DEF Commit
  <2>6. ASSUME NEW q \in Attempt, Fail(q) PROVE WholeInv'
    BY <2>6 DEF Fail
  <2>7. ASSUME NEW q \in Attempt, Broadcast(q) \/ Alert(q) PROVE WholeInv'
    BY <2>7 DEF Broadcast, Alert
  <2>8. CASE NextHour
    BY <2>8 DEF NextHour
  <2>9. CASE UNCHANGED vars
    BY <2>9 DEF vars
  <2> QED
    BY <2>1, <2>2, <2>3, <2>4, <2>5, <2>6, <2>7, <2>8, <2>9 DEF Next, Handle, Quiet
<1> QED
  BY <1>1, <1>2, TypeCorrect, PTL DEF Spec

(* An open transaction has written something.                              *)
LEMMA PendingIsWritten ==
  ASSUME TypeOK, WholeInv, NEW q \in Attempt, pc[q] \in Inside
  PROVE  pending[q] # Nothing
<1>1. pending[q].last \in Kind /\ pending[q].rows = UpTo[pending[q].last]
  BY DEF TypeOK, WholeInv, PendingInOrder, Rows
<1>2. pending[q].rows # {}
  BY <1>1 DEF UpTo, Kind
<1> QED
  BY <1>2 DEF Nothing

(* No report without its identity, audit entry, classification,            *)
(* notification and department notices, wherever create_report fails.      *)
THEOREM WholeReports == Spec => []CreatedWhole
<1>1. WholeInv => CreatedWhole
  BY DEF WholeInv
<1> QED
  BY <1>1, WholeInvHolds, PTL

-----------------------------------------------------------------------------
(* IDEMPOTENCY                                                             *)

(* The unique index: of two reports with one key, blank or not, at most one*)
(* is written, committed or not.                                           *)
Written(q) == stored[q] # Nothing \/ pending[q] # Nothing
OneReportPerKey ==
  \A p, q \in Attempt :
    (Written(p) /\ Written(q) /\ job[p].key = job[q].key /\ job[p].key # NoKey) => p = q

(* What an attempt was answered with is committed.                         *)
AnswersStored ==
  \A q \in Attempt :
    /\ pc[q] = "done" => stored[q] # Nothing
    /\ pc[q] = "existing" => found[q] \in Holders(q)

KeyInv == OneReportPerKey /\ AnswersStored

LEMMA KeyInvHolds == Spec => []KeyInv
<1>1. Init => KeyInv
  BY DEF Init, KeyInv, OneReportPerKey, AnswersStored, Written
<1>2. TypeOK /\ WholeInv /\ KeyInv /\ [Next]_vars => KeyInv'
  <2> SUFFICES ASSUME TypeOK, WholeInv, KeyInv, [Next]_vars PROVE KeyInv'
    OBVIOUS
  <2>0. /\ job' = job
        /\ pc \in [Attempt -> {"idle"} \cup Active \cup Final]
        /\ pending \in [Attempt -> Rows]
        /\ stored \in [Attempt -> Rows]
        /\ found \in [Attempt -> Attempt \cup {NoReport}]
    BY JobFixed DEF TypeOK
  <2> USE <2>0 DEF KeyInv, OneReportPerKey, AnswersStored, Written, Holders, Goto
  <2>1. ASSUME NEW q \in Attempt,
               \/ Refuse(q) \/ Submit(q) \/ Invalid(q) \/ Validate(q)
               \/ Lookup(q) \/ BadField(q) \/ Duplicate(q) \/ Broadcast(q) \/ Alert(q)
        PROVE  KeyInv'
    BY <2>1 DEF Refuse, Submit, Admit, Block, Sync, Arrive, Invalid, Validate,
                Lookup, BadField, Duplicate, Broadcast, Alert
  <2>2. ASSUME NEW q \in Attempt, Existing(q) PROVE KeyInv'
    BY <2>2 DEF Existing
  <2>3. ASSUME NEW q \in Attempt, Insert(q) PROVE KeyInv'
    BY <2>3 DEF Insert, Rivals
  <2>4. ASSUME NEW q \in Attempt, Write(q) \/ Notify(q) PROVE KeyInv'
    <3>1. pending[q] # Nothing
      BY <2>4, PendingIsWritten DEF Write, Notify, Inside
    <3>2. \A r \in Attempt \ {q} : pending'[r] = pending[r]
      BY <2>4 DEF Write, Notify
    <3>3. /\ stored' = stored /\ found' = found
          /\ \A r \in Attempt : pc'[r] \in {"done", "existing"} => pc'[r] = pc[r]
      BY <2>4 DEF Write, Notify
    <3> QED
      BY <3>1, <3>2, <3>3
  <2>5. ASSUME NEW q \in Attempt, Commit(q) PROVE KeyInv'
    <3>1. pending[q] # Nothing
      BY <2>5, PendingIsWritten DEF Commit, Inside
    <3> QED
      BY <2>5, <3>1 DEF Commit
  <2>6. ASSUME NEW q \in Attempt, Fail(q) PROVE KeyInv'
    BY <2>6 DEF Fail
  <2>7. CASE NextHour
    BY <2>7 DEF NextHour
  <2>8. CASE UNCHANGED vars
    BY <2>8 DEF vars
  <2> QED
    BY <2>1, <2>2, <2>3, <2>4, <2>5, <2>6, <2>7, <2>8 DEF Next, Handle, Quiet
<1> QED
  BY <1>1, <1>2, TypeCorrect, WholeInvHolds, PTL DEF Spec

(* Attempts with one key that succeed are answered with one report.        *)
THEOREM Idempotent == Spec => []IdempotentAnswers
<1>1. TypeOK /\ KeyInv => IdempotentAnswers
  <2> SUFFICES ASSUME TypeOK, KeyInv,
                      NEW p \in Attempt, Keyed(p), pc[p] \in {"done", "existing"},
                      NEW q \in Attempt, Keyed(q), pc[q] \in {"done", "existing"}
               PROVE  /\ stored[Outcome(q)] # Nothing
                      /\ job[p].key = job[q].key => Outcome(p) = Outcome(q)
    BY DEF IdempotentAnswers
  <2>1. ASSUME NEW r \in Attempt, pc[r] \in {"done", "existing"}
        PROVE  Outcome(r) \in Attempt /\ stored[Outcome(r)] # Nothing /\ job[Outcome(r)].key = job[r].key
    BY <2>1 DEF Outcome, KeyInv, AnswersStored, Holders
  <2>2. job[p].key # NoKey
    BY IntakeAssumption DEF Keyed
  <2> QED
    BY <2>1, <2>2 DEF KeyInv, OneReportPerKey, Written
<1> QED
  BY <1>1, TypeCorrect, KeyInvHolds, PTL

-----------------------------------------------------------------------------
(* ANNOUNCEMENTS                                                           *)

Announced ==
  \A q \in Attempt :
    /\ pc[q] \in {"heard", "alerted", "notified", "done"} => q \in heard
    /\ (pc[q] \in {"alerted", "notified", "done"} /\ job[q].officer # Nobody)
         => <<q, job[q].officer>> \in alerts
    /\ stored[q] # Nothing => pc[q] = "done"

LEMMA AnnouncedHolds == Spec => []Announced
<1>1. Init => Announced
  BY DEF Init, Announced
<1>2. TypeOK /\ Announced /\ [Next]_vars => Announced'
  <2> SUFFICES ASSUME TypeOK, Announced, [Next]_vars PROVE Announced'
    OBVIOUS
  <2>0. /\ job' = job
        /\ pc \in [Attempt -> {"idle"} \cup Active \cup Final]
        /\ stored \in [Attempt -> Rows]
    BY JobFixed DEF TypeOK
  <2> USE <2>0 DEF Announced, Goto
  <2>1. ASSUME NEW q \in Attempt,
               \/ Refuse(q) \/ Submit(q) \/ Invalid(q) \/ Validate(q) \/ Existing(q)
               \/ Lookup(q) \/ BadField(q) \/ Duplicate(q)
        PROVE  Announced'
    BY <2>1 DEF Refuse, Submit, Admit, Block, Sync, Arrive, Invalid, Validate, Existing,
                Lookup, BadField, Duplicate
  <2>2. ASSUME NEW q \in Attempt, Insert(q) \/ Write(q) \/ Notify(q) PROVE Announced'
    BY <2>2 DEF Insert, Write, Notify
  <2>3. ASSUME NEW q \in Attempt, Broadcast(q) PROVE Announced'
    BY <2>3 DEF Broadcast
  <2>4. ASSUME NEW q \in Attempt, Alert(q) PROVE Announced'
    BY <2>4 DEF Alert
  <2>5. ASSUME NEW q \in Attempt, Commit(q) PROVE Announced'
    BY <2>5 DEF Commit
  <2>6. ASSUME NEW q \in Attempt, Fail(q) PROVE Announced'
    BY <2>6 DEF Fail, Active, Inside
  <2>7. CASE NextHour
    BY <2>7 DEF NextHour
  <2>8. CASE UNCHANGED vars
    BY <2>8 DEF vars
  <2> QED
    BY <2>1, <2>2, <2>3, <2>4, <2>5, <2>6, <2>7, <2>8 DEF Next, Handle, Quiet
<1> QED
  BY <1>1, <1>2, TypeCorrect, PTL DEF Spec

(* No report is filed silently, although it is announced before the commit.*)
THEOREM NoSilentReport == Spec => []AnnouncedIfStored
<1>1. Announced => AnnouncedIfStored
  BY DEF Announced, AnnouncedIfStored
<1> QED
  BY <1>1, AnnouncedHolds, PTL

-----------------------------------------------------------------------------
(* THE QUOTA                                                               *)

(* The live posts of a user that the limiter let through in an hour.       *)
LetThrough == Active \cup {"invalid", "existing", "done", "crashed", "failed"}
Counted(u, h) ==
  {q \in Attempt : job[q].user = u /\ job[q].live /\ came[q] = h /\ pc[q] \in LetThrough}

(* What the counters of the processes leave room for, in this hour and in  *)
(* any.                                                                    *)
Slot == Process \X (1..Limit)
Taken(u) == {s \in Slot : s[2] <= count[s[1]][u]}

(* Every post that was let through has raised a counter of its own.        *)
QuotaInv ==
  /\ \A q \in Attempt : came[q] <= hour
  /\ \A u \in Reporter : ExistsInjection(Counted(u, hour), Taken(u))
  /\ \A u \in Reporter, h \in 0..MaxHour : ExistsInjection(Counted(u, h), Slot)

(* Nothing is one-to-one to anything.                                      *)
LEMMA NothingInjects ==
  ASSUME NEW T
  PROVE  ExistsInjection({}, T)
<1>1. [x \in {} |-> x] \in Injection({}, T)
  BY DEF Injection, IsInjective
<1> QED
  BY <1>1 DEF ExistsInjection

(* One-to-one into more, and from less.                                    *)
LEMMA InjectLess ==
  ASSUME NEW S, NEW T, ExistsInjection(S, T), NEW A \in SUBSET S, NEW B, T \subseteq B
  PROVE  ExistsInjection(A, B)
<1>1. PICK f \in Injection(S, T) : TRUE
  BY DEF ExistsInjection
<1>2. f \in [S -> T] /\ \A a, b \in S : f[a] = f[b] => a = b
  BY <1>1 DEF Injection, IsInjective
<1>3. [a \in A |-> f[a]] \in Injection(A, B)
  BY <1>2 DEF Injection, IsInjective
<1> QED
  BY <1>3 DEF ExistsInjection

(* One-to-one with one element more on both sides.                         *)
LEMMA InjectOneMore ==
  ASSUME NEW S, NEW T, ExistsInjection(S, T), NEW x, NEW y, x \notin S, y \notin T,
         NEW A, A \subseteq S \cup {x}, NEW B, T \cup {y} \subseteq B
  PROVE  ExistsInjection(A, B)
<1>1. PICK f \in Injection(S, T) : TRUE
  BY DEF ExistsInjection
<1>2. f \in [S -> T] /\ \A a, b \in S : f[a] = f[b] => a = b
  BY <1>1 DEF Injection, IsInjective
<1> DEFINE g == [a \in A |-> IF a = x THEN y ELSE f[a]]
<1>3. g \in [A -> B]
  BY <1>2
<1>4. \A a, b \in A : g[a] = g[b] => a = b
  BY <1>2
<1>5. g \in Injection(A, B)
  BY <1>3, <1>4 DEF Injection, IsInjective
<1> QED
  BY <1>5 DEF ExistsInjection

(* A step that lets nobody through leaves the sets of counted posts alone, *)
(* or makes them smaller.                                                  *)
LEMMA CountedStays ==
  ASSUME job' = job, came' = came,
         \A q \in Attempt : pc'[q] \in LetThrough => pc[q] \in LetThrough
  PROVE  \A u, h : Counted(u, h)' \subseteq Counted(u, h)
  BY DEF Counted

LEMMA QuotaInvHolds == Spec => []QuotaInv
<1>1. Init => QuotaInv
  <2> SUFFICES ASSUME Init PROVE QuotaInv
    OBVIOUS
  <2>1. \A u, h : Counted(u, h) = {}
    BY DEF Init, Counted, LetThrough, Active, Inside
  <2>2. \A T : ExistsInjection({}, T)
    BY NothingInjects
  <2> QED
    <3>1. \A q \in Attempt : came[q] <= hour
      BY DEF Init
    <3>2. \A u, T : \A h : ExistsInjection(Counted(u, h), T)
      BY <2>1, <2>2
    <3> QED
      BY <3>1, <3>2 DEF QuotaInv
<1>2. TypeOK /\ QuotaInv /\ [Next]_vars => QuotaInv'
  <2> SUFFICES ASSUME TypeOK, QuotaInv, [Next]_vars PROVE QuotaInv'
    OBVIOUS
  <2>0. /\ job' = job
        /\ pc \in [Attempt -> {"idle"} \cup Active \cup Final]
        /\ came \in [Attempt -> 0..MaxHour]
        /\ count \in [Process -> [User -> 0..Limit]]
        /\ hour \in 0..MaxHour
        /\ Limit \in Nat /\ MaxHour \in Nat
    BY JobFixed, IntakeAssumption DEF TypeOK
  <2> USE <2>0
  <2>1. ASSUME hour' = hour, count' = count,
               \A a \in Attempt : came'[a] <= hour',
               \A u, h : Counted(u, h)' \subseteq Counted(u, h)
        PROVE  QuotaInv'
    <3>1. \A u : Taken(u)' = Taken(u) /\ Counted(u, hour)' \subseteq Counted(u, hour)
      BY <2>1 DEF Taken
    <3>2. ASSUME NEW u \in Reporter PROVE ExistsInjection(Counted(u, hour), Taken(u))'
      <4>1. ExistsInjection(Counted(u, hour), Taken(u))
        BY DEF QuotaInv
      <4>2. ExistsInjection(Counted(u, hour)', Taken(u)')
        BY <3>1, <4>1, InjectLess
      <4> QED
        BY <4>2
    <3>3. ASSUME NEW u \in Reporter, NEW h \in 0..MaxHour PROVE ExistsInjection(Counted(u, h), Slot)'
      <4>1. ExistsInjection(Counted(u, h), Slot)
        BY DEF QuotaInv
      <4>2. ExistsInjection(Counted(u, h)', Slot)
        BY <2>1, <4>1, InjectLess
      <4> QED
        BY <4>2 DEF Slot
    <3> QED
      BY <2>1, <3>2, <3>3 DEF QuotaInv
  <2>2. ASSUME NEW q \in Attempt, Admit(q) PROVE QuotaInv'
    <3> DEFINE u == job[q].user
    <3>1. PICK p \in Process : /\ count[p][u] < Limit
                               /\ count' = [count EXCEPT ![p][u] = @ + 1]
      BY <2>2 DEF Admit
    <3>2. /\ hour' = hour
          /\ came' = [came EXCEPT ![q] = hour]
          /\ pc' = [pc EXCEPT ![q] = "admitted"]
          /\ pc[q] = "idle"
          /\ u \in Reporter
      BY <2>2 DEF Admit, Arrive, Goto
    <3>3. Counted(u, hour)' \subseteq Counted(u, hour) \cup {q} /\ q \notin Counted(u, hour)
      BY <3>2 DEF Counted, LetThrough, Active, Inside
    <3>4. \A v, h : (v # u \/ h # hour) => Counted(v, h)' \subseteq Counted(v, h)
      BY <3>2 DEF Counted
    <3>5. /\ u \in User /\ count[p][u] \in Nat /\ <<p, count[p][u] + 1>> \in Slot
          /\ <<p, count[p][u] + 1>> \notin Taken(u)
      BY <3>1, <3>2 DEF User, Slot, Taken
    <3>6. Taken(u) \cup {<<p, count[p][u] + 1>>} \subseteq Taken(u)'
      <4>1. \A s \in Slot : s[1] \in Process /\ s[2] \in Nat
        BY DEF Slot
      <4>2. /\ count'[p][u] = count[p][u] + 1
            /\ \A r \in Process \ {p} : count'[r][u] = count[r][u]
        BY <3>1, <3>5
      <4>3. \A s \in Taken(u) : s \in Taken(u)'
        BY <3>5, <4>1, <4>2 DEF Taken
      <4> QED
        BY <3>5, <4>2, <4>3 DEF Taken
    <3>7. ExistsInjection(Counted(u, hour)', Taken(u)')
      <4>1. ExistsInjection(Counted(u, hour), Taken(u))
        BY <3>2 DEF QuotaInv
      <4> QED
        BY <3>3, <3>5, <3>6, <4>1, InjectOneMore
    <3>8. ASSUME NEW v \in Reporter, v # u PROVE ExistsInjection(Counted(v, hour)', Taken(v)')
      <4>1. Taken(v)' = Taken(v)
        <5>1. \A r \in Process : count'[r][v] = count[r][v]
          BY <3>1, <3>5, <3>8 DEF User
        <5> QED
          BY <5>1 DEF Taken, Slot
      <4>2. ExistsInjection(Counted(v, hour), Taken(v))
        BY DEF QuotaInv
      <4>3. Counted(v, hour)' \subseteq Counted(v, hour)
        BY <3>2, <3>4, <3>8
      <4> QED
        BY <4>1, <4>2, <4>3, InjectLess
    <3>9. \A v \in Reporter : ExistsInjection(Counted(v, hour)', Taken(v)')
      BY <3>7, <3>8
    <3>10. ASSUME NEW v \in Reporter, NEW h \in 0..MaxHour
           PROVE  ExistsInjection(Counted(v, h)', Slot)
      <4>1. CASE h = hour
        <5>1. ExistsInjection(Counted(v, hour)', Taken(v)') /\ Taken(v)' \subseteq Slot
          BY <3>9 DEF Taken, Slot
        <5>2. ExistsInjection(Counted(v, hour)', Slot)
          BY <5>1, InjectLess
        <5> QED
          BY <3>2, <4>1, <5>2 DEF Counted
      <4>2. CASE h # hour
        <5>1. ExistsInjection(Counted(v, h), Slot) /\ Counted(v, h)' \subseteq Counted(v, h)
          BY <3>4, <4>2 DEF QuotaInv
        <5> QED
          BY <5>1, InjectLess
      <4> QED
        BY <4>1, <4>2
    <3>11. \A a \in Attempt : came'[a] <= hour'
      BY <3>2 DEF QuotaInv
    <3> QED
      BY <3>9, <3>10, <3>11 DEF QuotaInv, Slot
  <2>3. ASSUME NEW q \in Attempt, Block(q) \/ Sync(q) PROVE QuotaInv'
    <3>1. /\ hour' = hour /\ count' = count
          /\ came' = [came EXCEPT ![q] = hour]
          /\ pc[q] = "idle"
          /\ \A r \in Attempt \ {q} : pc'[r] = pc[r]
          /\ pc'[q] = "limited" \/ ~job[q].live
      BY <2>3 DEF Block, Sync, Arrive, Goto
    <3>2. \A v, h : Counted(v, h)' \subseteq Counted(v, h)
      BY <3>1 DEF Counted, LetThrough, Active, Inside
    <3>3. \A a \in Attempt : came'[a] <= hour'
      BY <3>1 DEF QuotaInv
    <3> QED
      BY <2>1, <3>1, <3>2, <3>3
  <2>4. CASE NextHour
    <3>1. /\ hour' = hour + 1 /\ came' = came /\ pc' = pc
      BY <2>4 DEF NextHour, history
    <3>2. \A v, h : Counted(v, h)' = Counted(v, h)
      BY <3>1 DEF Counted
    <3>3. \A v : Counted(v, hour + 1) = {}
      BY DEF QuotaInv, Counted
    <3>4. \A a \in Attempt : came'[a] <= hour'
      BY <3>1 DEF QuotaInv
    <3>5. ASSUME NEW v \in Reporter PROVE ExistsInjection(Counted(v, hour)', Taken(v)')
      <4>1. Counted(v, hour)' = {}
        BY <3>1, <3>3 DEF Counted
      <4> QED
        BY <4>1, NothingInjects
    <3>6. ASSUME NEW v \in Reporter, NEW h \in 0..MaxHour PROVE ExistsInjection(Counted(v, h)', Slot)
      BY <3>2 DEF QuotaInv
    <3> QED
      BY <3>4, <3>5, <3>6 DEF QuotaInv, Slot
  <2>5. CASE UNCHANGED vars
    <3>1. hour' = hour /\ count' = count /\ came' = came /\ pc' = pc
      BY <2>5 DEF vars, limiter, history
    <3> QED
      BY <2>1, <3>1, CountedStays DEF QuotaInv
  <2>6. ASSUME NEW q \in Attempt, Refuse(q) \/ Handle(q) \/ Fail(q) PROVE QuotaInv'
    <3>1. /\ hour' = hour /\ came' = came /\ count' = count
          /\ \A r \in Attempt : pc'[r] \in LetThrough => pc[r] \in LetThrough
      BY <2>6 DEF Refuse, Handle, Fail, Invalid, Validate, Existing, Lookup, BadField,
                  Duplicate, Insert, Write, Broadcast, Alert, Notify, Commit, Goto,
                  limiter, history, LetThrough, Active, Inside
    <3> QED
      BY <2>1, <3>1, CountedStays DEF QuotaInv
  <2> QED
    BY <2>2, <2>3, <2>4, <2>5, <2>6 DEF Next, Submit, Quiet
<1> QED
  BY <1>1, <1>2, TypeCorrect, PTL DEF Spec

(* What the limiter promises, each process with a cache of its own: of the *)
(* live posts of one user in one hour, at most Limit for each process.     *)
QuotaOfEach ==
  \A u \in Reporter, h \in 0..MaxHour :
    /\ IsFiniteSet(PostedBy(u, h))
    /\ Cardinality(PostedBy(u, h)) <= Cardinality(Process) * Limit

(* However many attempts there are, a user's live reports of an hour are   *)
(* no more than Limit for each server process.                             *)
THEOREM QuotaOfProcesses ==
  ASSUME IsFiniteSet(Process)
  PROVE  Spec => []QuotaOfEach
<1>1. QuotaInv /\ Announced => QuotaOfEach
  <2> SUFFICES ASSUME QuotaInv, Announced, NEW u \in Reporter, NEW h \in 0..MaxHour
               PROVE  /\ IsFiniteSet(PostedBy(u, h))
                      /\ Cardinality(PostedBy(u, h)) <= Cardinality(Process) * Limit
    BY DEF QuotaOfEach
  <2>1. PostedBy(u, h) \subseteq Counted(u, h)
    BY DEF Announced, PostedBy, Counted, LetThrough
  <2>2. ExistsInjection(PostedBy(u, h), Slot)
    BY <2>1, InjectLess DEF QuotaInv
  <2>3. IsFiniteSet(1..Limit) /\ Cardinality(1..Limit) = Limit
    <3>1. Limit \in Int /\ 1 \in Int /\ Limit - 1 + 1 = Limit
      BY IntakeAssumption
    <3> QED
      BY <3>1, IntakeAssumption, FS_Interval
  <2>4. IsFiniteSet(Slot) /\ Cardinality(Slot) = Cardinality(Process) * Limit
    BY <2>3, FS_Product DEF Slot
  <2>5. PICK f \in Injection(PostedBy(u, h), Slot) : TRUE
    BY <2>2 DEF ExistsInjection
  <2> QED
    BY <2>4, <2>5, FS_Injection
<1> QED
  BY <1>1, QuotaInvHolds, AnnouncedHolds, PTL

(* With a single server process no reporter gets more than Limit live      *)
(* reports into one hour.                                                  *)
THEOREM QuotaOfOneProcess ==
  ASSUME NEW server, Process = {server}
  PROVE  Spec => []QuotaHolds
<1>1. IsFiniteSet(Process) /\ Cardinality(Process) = 1
  BY FS_Singleton
<1>2. QuotaOfEach => QuotaHolds
  <2>1. 1 * Limit = Limit
    BY IntakeAssumption
  <2> QED
    BY <1>1, <2>1 DEF QuotaOfEach, QuotaHolds
<1> QED
  BY <1>1, <1>2, QuotaOfProcesses, PTL

-----------------------------------------------------------------------------
(* THE REFINEMENT                                                          *)

(* An attempt that is about to commit finds no report of its own, and none *)
(* with its key, in the table.                                             *)
LEMMA CommitIsNew ==
  ASSUME TypeOK, WholeInv, KeyInv, Announced, NEW q \in Attempt, pc[q] = "notified"
  PROVE  /\ pending[q] # Nothing
         /\ stored[q] = Nothing
         /\ \A r \in Attempt :
              (stored[r] # Nothing /\ job[r].key = job[q].key) => job[q].key = NoKey
<1>1. pending[q] # Nothing
  BY PendingIsWritten DEF Inside
<1>2. stored[q] = Nothing
  BY DEF Announced
<1> QED
  BY <1>1, <1>2 DEF KeyInv, OneReportPerKey, Written

(* ReportIntake implements FiledReports: a commit files one report under a *)
(* key of its own, and no other step of any attempt touches the table.     *)
THEOREM Refinement == Spec => FiledOnce
<1>1. Init => Filings!Init
  BY DEF Init, Filings!Init, ReportTable
<1>2. TypeOK /\ WholeInv /\ KeyInv /\ Announced /\ [Next]_vars => [Filings!Next]_ReportTable
  <2> SUFFICES ASSUME TypeOK, WholeInv, KeyInv, Announced, [Next]_vars
               PROVE  [Filings!Next]_ReportTable
    OBVIOUS
  <2>0. job' = job /\ stored \in [Attempt -> Rows]
    BY JobFixed DEF TypeOK
  <2>1. ASSUME NEW q \in Attempt, Commit(q) PROVE Filings!Next
    <3> DEFINE f == <<q, job[q].key>>
    <3>1. /\ pending[q] # Nothing
          /\ stored[q] = Nothing
          /\ \A r \in Attempt :
               (stored[r] # Nothing /\ job[r].key = job[q].key) => job[q].key = NoKey
      BY <2>1, CommitIsNew DEF Commit, Goto
    <3>2. ReportTable' = ReportTable \cup {f}
      <4>1. \A r \in Attempt :
              stored'[r] # Nothing <=> (stored[r] # Nothing \/ r = q)
        BY <2>0, <2>1, <3>1 DEF Commit
      <4> QED
        BY <2>0, <4>1 DEF ReportTable
    <3>3. \A e \in ReportTable : e[1] # f[1] /\ (e[2] = f[2] => f[2] = NoKey)
      BY <3>1 DEF ReportTable
    <3>4. Filings!File(f[1], f[2])
      BY <3>2, <3>3 DEF Filings!File
    <3> QED
      BY <3>2, <3>4 DEF Filings!Next
  <2>2. ASSUME NEW q \in Attempt, Submit(q) \/ Fail(q) PROVE UNCHANGED ReportTable
    BY <2>0, <2>2 DEF Submit, Refuse, Admit, Block, Sync, Arrive, Fail, ReportTable
  <2>3. ASSUME NEW q \in Attempt,
               \/ Invalid(q) \/ Validate(q) \/ Existing(q) \/ Lookup(q) \/ BadField(q)
               \/ Duplicate(q) \/ Insert(q) \/ Write(q) \/ Broadcast(q) \/ Alert(q)
               \/ Notify(q)
        PROVE  UNCHANGED ReportTable
    BY <2>0, <2>3 DEF Invalid, Validate, Existing, Lookup, BadField, Duplicate, Insert,
                      Write, Broadcast, Alert, Notify, ReportTable
  <2>4. CASE NextHour \/ UNCHANGED vars
    BY <2>0, <2>4 DEF NextHour, vars, ReportTable
  <2> QED
    BY <2>1, <2>2, <2>3, <2>4 DEF Next, Handle, Quiet
<1> QED
  BY <1>1, <1>2, TypeCorrect, WholeInvHolds, KeyInvHolds, AnnouncedHolds,
     PTL DEF Spec, FiledOnce, Filings!Spec
=============================================================================
