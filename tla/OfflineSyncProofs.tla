------------------------- MODULE OfflineSyncProofs -------------------------
(***************************************************************************)
(* Proofs about OfflineSync, for every set of tries and all outboxes of    *)
(* any length.                                                             *)
(***************************************************************************)
EXTENDS OfflineSync, FiniteSetTheorems, TLAPS

Result == {"success", "error", "fault"}

(* The actions of an outbox are numbered.                                  *)
LEMMA Numbered ==
  ASSUME TypeOK
  PROVE  /\ Id = 1..Len(outbox) /\ Len(outbox) \in Nat
         /\ \A i \in Id : outbox[i] \in Action
  BY SyncAssumption DEF TypeOK, Id

(* The outbox never changes: it was written offline.                       *)
LEMMA OutboxFixed == [Next]_vars => outbox' = outbox
  BY DEF Next, Process, Send, Reject, Begin, Refuse, Validate, Create, Fetch, UpdateStatus,
         Store, Push, Falter, Answer, Vanish, Quiet, vars

(* A batch is a sequence of actions of the outbox, each of them once.      *)
LEMMA BatchOf ==
  ASSUME NEW S, IsFiniteSet(S), NEW b \in InOrder(S)
  PROVE  /\ b \in Seq(S) /\ Len(b) = Cardinality(S) /\ DOMAIN b = 1..Len(b)
         /\ Range(b) = S
         /\ \A j, k \in 1..Len(b) : j < k => b[j] < b[k]
<1>1. Cardinality(S) \in Nat
  BY FS_CardinalityType
<1> QED
  BY <1>1 DEF InOrder

-----------------------------------------------------------------------------
(* TYPES AND POSITIONS                                                     *)

(* Where a try is: it has a result for every action behind it, and while it*)
(* is in the middle of an action, there is one of that kind.               *)
Step == [validated |-> "create", fetched |-> "status", stored |-> "message"]
Within(t) ==
  /\ next[t] <= Len(batch[t])
  /\ outbox[Current(t)].kind = Step[pc[t]] /\ outbox[Current(t)].permitted
PlacedAt(t) ==
  /\ Len(results[t]) = next[t] - 1
  /\ pc[t] = "idle" => batch[t] = <<>> /\ next[t] = 1
  /\ pc[t] \in {"validated", "fetched", "stored"} => Within(t)
  /\ pc[t] = "answered" => next[t] > Len(batch[t])
Placed == \A t \in Try : PlacedAt(t)

Typed == TypeOK /\ Placed

(* What the tries do to the database and the device.                       *)
StoreOK ==
  /\ acked \subseteq Id /\ applied \subseteq Id
  /\ reports \in [Id -> Nat] /\ messages \in [Id -> Nat] /\ pushed \in [Id -> Nat]
  /\ status \in Status /\ seen \in [Try -> Status]

(* The action a try is at.                                                 *)
LEMMA CurrentIsAction ==
  ASSUME TypeOK, NEW t \in Try, next[t] <= Len(batch[t])
  PROVE  Current(t) \in Id /\ outbox[Current(t)] \in Action
<1>1. batch[t] \in Seq(Id) /\ next[t] \in 1..Len(batch[t])
  BY DEF TypeOK
<1>2. Current(t) \in Id
  BY <1>1 DEF Current
<1> QED
  BY <1>2, Numbered

(* Noting a result moves a try on, and no other.                           *)
LEMMA NoteMoves ==
  ASSUME TypeOK, NEW t \in Try, NEW r \in Result, Note(t, r), next[t] <= Len(batch[t]),
         batch' = batch
  PROVE  /\ next' \in [Try -> Nat] /\ \A s \in Try : next'[s] \in 1..(Len(batch'[s]) + 1)
         /\ results' \in [Try -> Seq(Result)]
         /\ next'[t] = next[t] + 1 /\ Len(results'[t]) = Len(results[t]) + 1
         /\ results'[t] = Append(results[t], r)
         /\ \A s \in Try \ {t} : next'[s] = next[s] /\ results'[s] = results[s]
<1>1. /\ batch[t] \in Seq(Id) /\ next \in [Try -> Nat] /\ results \in [Try -> Seq(Result)]
      /\ \A s \in Try : next[s] \in 1..(Len(batch[s]) + 1) /\ Len(batch[s]) \in Nat
  BY DEF TypeOK, Result
<1>2. Append(results[t], r) \in Seq(Result) /\ Len(Append(results[t], r)) = Len(results[t]) + 1
  BY <1>1
<1> QED
  BY <1>1, <1>2 DEF Note

(* A try keeps its place when only others move.                            *)
LEMMA PlaceKept ==
  ASSUME NEW s, PlacedAt(s), outbox' = outbox, pc'[s] = pc[s], batch'[s] = batch[s],
         next'[s] = next[s], results'[s] = results[s]
  PROVE  PlacedAt(s)'
  BY DEF PlacedAt, Within, Current

(* A try that goes from one point of its program to another within the same*)
(* action.                                                                 *)
LEMMA TryMoves ==
  ASSUME Typed, StoreOK', outbox' = outbox, UNCHANGED <<batch, next, results>>,
         NEW t \in Try, NEW to \in {"running", "validated", "fetched", "stored"} \cup Ended,
         pc' = [pc EXCEPT ![t] = to],
         to \in {"validated", "fetched", "stored"} =>
           /\ next[t] <= Len(batch[t])
           /\ outbox[Current(t)].kind = Step[to] /\ outbox[Current(t)].permitted,
         to = "answered" => next[t] > Len(batch[t])
  PROVE  Typed'
<1>1. pc' \in [Try -> {"idle", "sent"} \cup Busy \cup Ended] /\ pc'[t] = to
      /\ \A s \in Try \ {t} : pc'[s] = pc[s]
  BY DEF Typed, TypeOK, Busy
<1>2. TypeOK'
  BY <1>1 DEF Typed, TypeOK, StoreOK, Id
<1>3. PlacedAt(t)'
  <2>1. PlacedAt(t)
    BY DEF Typed, Placed
  <2>2. to # "idle"
    BY DEF Ended
  <2> QED
    BY <1>1, <2>1, <2>2 DEF PlacedAt, Within, Current
<1>4. \A s \in Try \ {t} : PlacedAt(s)'
  BY <1>1, PlaceKept DEF Typed, Placed
<1> QED
  BY <1>2, <1>3, <1>4 DEF Typed, Placed

(* A try that is done with an action and goes on to the next.              *)
LEMMA TryGoesOn ==
  ASSUME Typed, StoreOK', outbox' = outbox, batch' = batch,
         NEW t \in Try, NEW r \in Result, Note(t, r), next[t] <= Len(batch[t]),
         pc' = [pc EXCEPT ![t] = "running"]
  PROVE  Typed'
<1>1. /\ next' \in [Try -> Nat] /\ \A s \in Try : next'[s] \in 1..(Len(batch'[s]) + 1)
      /\ results' \in [Try -> Seq(Result)]
      /\ next'[t] = next[t] + 1 /\ Len(results'[t]) = Len(results[t]) + 1
      /\ \A s \in Try \ {t} : next'[s] = next[s] /\ results'[s] = results[s]
  BY NoteMoves DEF Typed
<1>2. pc' \in [Try -> {"idle", "sent"} \cup Busy \cup Ended] /\ pc'[t] = "running"
      /\ \A s \in Try \ {t} : pc'[s] = pc[s]
  BY DEF Typed, TypeOK, Busy
<1>3. TypeOK'
  BY <1>1, <1>2 DEF Typed, TypeOK, StoreOK, Id, Result
<1>4. PlacedAt(t)'
  <2>1. Len(results[t]) = next[t] - 1 /\ next[t] \in Nat
    BY DEF Typed, Placed, PlacedAt, TypeOK
  <2> QED
    BY <1>1, <1>2, <2>1 DEF PlacedAt
<1>5. \A s \in Try \ {t} : PlacedAt(s)'
  BY <1>1, <1>2, PlaceKept DEF Typed, Placed
<1> QED
  BY <1>3, <1>4, <1>5 DEF Typed, Placed

(* In the middle of an action, and at the beginning of one.                *)
LEMMA InsideAction ==
  ASSUME Typed, NEW t \in Try,
         \/ pc[t] \in {"validated", "fetched", "stored"} \/ next[t] <= Len(batch[t])
  PROVE  /\ next[t] <= Len(batch[t])
         /\ Current(t) \in Id /\ outbox[Current(t)] \in Action
<1>1. next[t] <= Len(batch[t])
  BY DEF Typed, Placed, PlacedAt, Within
<1> QED
  BY <1>1, CurrentIsAction DEF Typed

(* The counters stay counters.                                             *)
LEMMA StoreTyped == ASSUME Typed, [Next]_vars PROVE StoreOK'
<1>0. StoreOK /\ outbox' = outbox /\ Id' = Id
  BY OutboxFixed DEF Typed, TypeOK, StoreOK, Id
<1> USE <1>0 DEF StoreOK, Goto, store
<1>1. ASSUME NEW t \in Try, Answer(t) PROVE StoreOK'
  <2>1. /\ batch[t] \in Seq(Id) /\ results[t] \in Seq(Result)
        /\ next[t] \in 1..(Len(batch[t]) + 1)
    BY DEF Typed, TypeOK, Result
  <2>2. Len(results[t]) = Len(batch[t])
    BY <1>1, <2>1 DEF Answer, Typed, Placed, PlacedAt
  <2>3. DOMAIN results[t] = DOMAIN batch[t]
    BY <2>1, <2>2
  <2>4. acked' \subseteq Id
    BY <1>1, <2>1, <2>3 DEF Answer
  <2> QED
    BY <1>1, <2>4 DEF Answer
<1>2. ASSUME NEW t \in Try, Create(t) PROVE StoreOK'
  BY <1>2, InsideAction DEF Create
<1>3. ASSUME NEW t \in Try, UpdateStatus(t) PROVE StoreOK'
  BY <1>3, InsideAction DEF UpdateStatus, Action
<1>4. ASSUME NEW t \in Try, Store(t) PROVE StoreOK'
  BY <1>4, InsideAction DEF Store, At
<1>5. ASSUME NEW t \in Try, Push(t) PROVE StoreOK'
  BY <1>5, InsideAction DEF Push
<1>6. ASSUME NEW t \in Try, Fetch(t) PROVE StoreOK'
  BY <1>6 DEF Fetch
<1>7. ASSUME NEW t \in Try,
             \/ Send(t) \/ Reject(t) \/ Begin(t) \/ Refuse(t) \/ Validate(t)
             \/ Falter(t) \/ Vanish(t)
      PROVE  StoreOK'
  BY <1>7 DEF Send, Reject, Begin, Refuse, Validate, Falter, Vanish
<1>8. CASE UNCHANGED vars
  BY <1>8 DEF vars
<1> QED
  BY <1>1, <1>2, <1>3, <1>4, <1>5, <1>6, <1>7, <1>8 DEF Next, Process, Quiet

LEMMA TypedHolds == Spec => []Typed
<1>1. Init => Typed
  <2> SUFFICES ASSUME Init PROVE Typed
    OBVIOUS
  <2>1. <<>> \in Seq(Id) /\ <<>> \in Seq(Result) /\ Len(<<>>) = 0
    OBVIOUS
  <2> QED
    BY <2>1, SyncAssumption DEF Init, Typed, TypeOK, Placed, PlacedAt, Result
<1>2. Typed /\ [Next]_vars => Typed'
  <2> SUFFICES ASSUME Typed, [Next]_vars PROVE Typed'
    OBVIOUS
  <2>0. outbox' = outbox /\ Id' = Id /\ StoreOK'
    BY OutboxFixed, StoreTyped DEF Id
  <2> USE <2>0 DEF Goto
  <2>1. ASSUME NEW t \in Try, Send(t) PROVE Typed'
    <3>1. PICK rest \in InOrder(Id \ acked) : batch' = [batch EXCEPT ![t] = rest]
      BY <2>1 DEF Send
    <3>2. IsFiniteSet(Id \ acked)
      <4>1. IsFiniteSet(Id)
        BY Numbered, FS_Interval DEF Typed
      <4> QED
        BY <4>1, FS_Subset
    <3>3. rest \in Seq(Id \ acked) /\ Len(rest) \in Nat
      BY <3>2, BatchOf
    <3>4. rest \in Seq(Id)
      BY <3>3
    <3>5. batch' \in [Try -> Seq(Id)] /\ batch'[t] = rest /\ Len(rest) \in Nat
          /\ \A s \in Try \ {t} : batch'[s] = batch[s]
      BY <3>1, <3>3, <3>4 DEF Typed, TypeOK
    <3>6. /\ next[t] = 1 /\ next' = next /\ results' = results
          /\ pc' = [pc EXCEPT ![t] = "sent"]
      BY <2>1 DEF Send, Typed, Placed, PlacedAt
    <3>7. /\ pc' \in [Try -> {"idle", "sent"} \cup Busy \cup Ended] /\ pc'[t] = "sent"
          /\ \A s \in Try \ {t} : pc'[s] = pc[s]
      BY <3>6 DEF Typed, TypeOK
    <3>8. \A s \in Try : next'[s] \in 1..(Len(batch'[s]) + 1)
      <4>1. next'[t] \in 1..(Len(batch'[t]) + 1)
        BY <3>5, <3>6
      <4>2. \A s \in Try \ {t} : next'[s] \in 1..(Len(batch'[s]) + 1)
        BY <3>5, <3>6 DEF Typed, TypeOK
      <4> QED
        BY <4>1, <4>2
    <3>9. TypeOK'
      BY <3>5, <3>6, <3>7, <3>8 DEF Typed, TypeOK, StoreOK, Id
    <3>10. PlacedAt(t)'
      BY <3>6, <3>7 DEF Typed, Placed, PlacedAt
    <3>11. \A s \in Try \ {t} : PlacedAt(s)'
      BY <3>5, <3>6, <3>7, PlaceKept DEF Typed, Placed
    <3> QED
      BY <3>9, <3>10, <3>11 DEF Typed, Placed
  <2>2. ASSUME NEW t \in Try, Reject(t) \/ Begin(t) \/ Vanish(t) \/ Answer(t) PROVE Typed'
    BY <2>2, TryMoves DEF Reject, Begin, Vanish, Answer, Ended
  <2>3. ASSUME NEW t \in Try, Fetch(t) \/ Store(t) PROVE Typed'
    BY <2>3, TryMoves DEF Fetch, Store, At, Step
  <2>4. ASSUME NEW t \in Try, Validate(t) PROVE Typed'
    <3>1. CASE Taken(Current(t))
      <4>1. pc' = [pc EXCEPT ![t] = "running"]
        BY <2>4, <3>1 DEF Validate, At, Typed, TypeOK
      <4> QED
        BY <2>4, <3>1, <4>1, TryGoesOn DEF Validate, At, Result
    <3>2. CASE ~Taken(Current(t))
      BY <2>4, <3>2, TryMoves DEF Validate, At, Step
    <3> QED
      BY <3>1, <3>2
  <2>5. ASSUME NEW t \in Try, Refuse(t) PROVE Typed'
    <3>1. pc' = [pc EXCEPT ![t] = "running"]
      BY <2>5 DEF Refuse, Typed, TypeOK
    <3> QED
      BY <2>5, <3>1, TryGoesOn DEF Refuse, Result
  <2>6. ASSUME NEW t \in Try, Falter(t) PROVE Typed'
    BY <2>6, TryGoesOn DEF Falter, Result
  <2>7. ASSUME NEW t \in Try, Create(t) PROVE Typed'
    BY <2>7, InsideAction, TryGoesOn DEF Create, Reported, Result
  <2>8. ASSUME NEW t \in Try, UpdateStatus(t) PROVE Typed'
    BY <2>8, InsideAction, TryGoesOn DEF UpdateStatus, Reported, Result
  <2>9. ASSUME NEW t \in Try, Push(t) PROVE Typed'
    BY <2>9, InsideAction, TryGoesOn DEF Push, Result
  <2>10. CASE UNCHANGED vars
    BY <2>10, PlaceKept DEF vars, store, Typed, TypeOK, Placed
  <2> QED
    BY <2>1, <2>2, <2>3, <2>4, <2>5, <2>6, <2>7, <2>8, <2>9, <2>10 DEF Next, Process, Quiet
<1> QED
  BY <1>1, <1>2, PTL DEF Spec

(* Every variable of the synchronisation keeps its type, for outboxes of   *)
(* any length.                                                             *)
THEOREM TypeCorrect == Spec => []TypeOK
<1>1. Typed => TypeOK
  BY DEF Typed
<1> QED
  BY <1>1, TypedHolds, PTL

-----------------------------------------------------------------------------
(* ACKNOWLEDGEMENTS                                                        *)

(* Nothing that was done is undone by a later try.                         *)
LEMMA StoreGrows ==
  ASSUME Typed, [Next]_vars
  PROVE  /\ \A i \in Id : reports'[i] >= reports[i] /\ messages'[i] >= messages[i]
                          /\ pushed'[i] >= pushed[i]
         /\ applied \subseteq applied'
<1>1. /\ reports \in [Id -> Nat] /\ messages \in [Id -> Nat] /\ pushed \in [Id -> Nat]
      /\ \A t \in Try : pc[t] \in {"validated", "stored"} => Current(t) \in Id
  BY InsideAction DEF Typed, TypeOK
<1> USE <1>1
<1>2. ASSUME NEW t \in Try, Create(t) \/ UpdateStatus(t) \/ Push(t)
      PROVE  /\ \A i \in Id : reports'[i] >= reports[i] /\ messages'[i] >= messages[i]
                              /\ pushed'[i] >= pushed[i]
             /\ applied \subseteq applied'
  BY <1>2 DEF Create, UpdateStatus, Push, Goto
<1>3. ASSUME NEW t \in Try, Store(t)
      PROVE  /\ \A i \in Id : reports'[i] >= reports[i] /\ messages'[i] >= messages[i]
                              /\ pushed'[i] >= pushed[i]
             /\ applied \subseteq applied'
  BY <1>3, InsideAction DEF Store, At
<1>4. CASE UNCHANGED store
  BY <1>4 DEF store
<1> QED
  BY <1>2, <1>3, <1>4 DEF Next, Process, Quiet, vars, Send, Reject, Begin, Refuse, Validate,
                          Fetch, Falter, Answer, Vanish

LEMMA DoneStays ==
  ASSUME Typed, [Next]_vars, NEW i \in Id, Done(i)
  PROVE  Done(i)'
<1>1. /\ reports[i] \in Nat /\ messages[i] \in Nat /\ pushed[i] \in Nat
      /\ outbox[i] \in Action
  BY Numbered DEF Typed, TypeOK
<1>2. StoreOK' /\ outbox' = outbox /\ Id' = Id
  BY StoreTyped, OutboxFixed DEF Id
<1>3. reports'[i] \in Nat /\ messages'[i] \in Nat /\ pushed'[i] \in Nat
  BY <1>2 DEF StoreOK
<1>4. /\ reports'[i] >= reports[i] /\ messages'[i] >= messages[i] /\ pushed'[i] >= pushed[i]
      /\ applied \subseteq applied'
  BY StoreGrows
<1>5. CASE outbox[i].kind = "create"
  BY <1>1, <1>2, <1>3, <1>4, <1>5 DEF Done
<1>6. CASE outbox[i].kind = "status"
  BY <1>2, <1>4, <1>6 DEF Done
<1>7. CASE outbox[i].kind = "message"
  BY <1>1, <1>2, <1>3, <1>4, <1>7 DEF Done
<1> QED
  BY <1>1, <1>5, <1>6, <1>7 DEF Action

(* The result at a position is that of the action at this position.        *)
SuccessIsDone ==
  \A t \in Try : \A k \in 1..Len(results[t]) :
    results[t][k] = "success" => Done(batch[t][k])
StoredIsStored == \A t \in Try : pc[t] = "stored" => messages[Current(t)] > 0

AckInv == SuccessIsDone /\ StoredIsStored /\ AckedIsDone

(* The results so far, and one more.                                       *)
LEMMA ResultsSoFar ==
  ASSUME Typed, NEW t \in Try
  PROVE  /\ results[t] \in Seq(Result) /\ batch[t] \in Seq(Id)
         /\ Len(results[t]) = next[t] - 1 /\ next[t] \in 1..(Len(batch[t]) + 1)
         /\ Len(results[t]) <= Len(batch[t]) /\ Len(batch[t]) \in Nat
         /\ \A k \in 1..Len(batch[t]) : batch[t][k] \in Id
<1>1. /\ results[t] \in Seq(Result) /\ batch[t] \in Seq(Id) /\ Len(batch[t]) \in Nat
      /\ Len(results[t]) = next[t] - 1 /\ next[t] \in 1..(Len(batch[t]) + 1)
  BY DEF Typed, TypeOK, Placed, PlacedAt, Result
<1> QED
  BY <1>1

LEMMA AckInvHolds == Spec => []AckInv
<1>1. Init => AckInv
  <2>1. Len(<<>>) = 0
    OBVIOUS
  <2> QED
    BY <2>1 DEF Init, AckInv, SuccessIsDone, StoredIsStored, AckedIsDone
<1>2. Typed /\ AckInv /\ [Next]_vars => AckInv'
  <2> SUFFICES ASSUME Typed, AckInv, [Next]_vars PROVE AckInv'
    OBVIOUS
  <2>0. /\ outbox' = outbox /\ \A i \in Id : Done(i) => Done(i)'
        /\ acked \subseteq Id
        /\ pc \in [Try -> {"idle", "sent"} \cup Busy \cup Ended]
    BY OutboxFixed, DoneStays DEF Typed, TypeOK
  <2> USE <2>0 DEF Goto
  <2>1. ASSUME UNCHANGED <<batch, results>> PROVE SuccessIsDone'
    BY <2>1, ResultsSoFar DEF AckInv, SuccessIsDone
  <2>2. ASSUME acked' = acked PROVE AckedIsDone'
    BY <2>2 DEF AckInv, AckedIsDone
  <2>3. ASSUME UNCHANGED <<batch, next>>,
               \A t \in Try : pc'[t] = "stored" => pc[t] = "stored"
        PROVE  StoredIsStored'
    <3> SUFFICES ASSUME NEW t \in Try, pc'[t] = "stored" PROVE messages'[Current(t)'] > 0
      BY DEF StoredIsStored
    <3>1. Current(t)' = Current(t) /\ Current(t) \in Id /\ messages[Current(t)] > 0
      BY <2>3, InsideAction DEF Current, AckInv, StoredIsStored
    <3>2. messages[Current(t)] \in Nat /\ messages'[Current(t)] \in Nat
          /\ messages'[Current(t)] >= messages[Current(t)]
      BY <3>1, StoreGrows, StoreTyped, OutboxFixed DEF Typed, TypeOK, StoreOK, Id
    <3> QED
      BY <3>1, <3>2
  <2>4. ASSUME NEW t \in Try, NEW r \in Result, Note(t, r), next[t] <= Len(batch[t]),
               batch' = batch, NEW i \in Id, i = Current(t), r = "success" => Done(i)'
        PROVE  SuccessIsDone'
    <3> SUFFICES ASSUME NEW s \in Try, NEW k \in 1..Len(results'[s]), results'[s][k] = "success",
                        NEW j, j = batch[s][k]
                 PROVE  Done(j)'
      BY <2>4 DEF SuccessIsDone
    <3>0. ASSUME k \in 1..Len(results[s]), results[s][k] = "success" PROVE Done(j)'
      <4>1. j \in Id /\ Done(j)
        BY <3>0, ResultsSoFar DEF AckInv, SuccessIsDone
      <4> QED
        BY <4>1
    <3>1. CASE s # t
      <4>1. results'[s] = results[s]
        BY <2>4, <3>1, NoteMoves DEF Typed
      <4> QED
        BY <3>0, <4>1
    <3>2. CASE s = t
      <4>1. /\ results'[t] = Append(results[t], r) /\ results[t] \in Seq(Result)
            /\ Len(results[t]) = next[t] - 1 /\ next[t] \in Nat
        BY <2>4, NoteMoves, ResultsSoFar DEF Typed
      <4>2. CASE k = next[t]
        <5>1. j = i /\ r = "success"
          BY <2>4, <3>2, <4>1, <4>2 DEF Current
        <5> QED
          BY <2>4, <5>1
      <4>3. CASE k # next[t]
        <5>1. k \in 1..Len(results[t]) /\ results[t][k] = "success"
          BY <3>2, <4>1, <4>3
        <5> QED
          BY <3>0, <3>2, <5>1
      <4> QED
        BY <4>2, <4>3
    <3> QED
      BY <3>1, <3>2
  <2>5. ASSUME NEW t \in Try, next' = [next EXCEPT ![t] = @ + 1], batch' = batch,
               pc'[t] = "running", \A s \in Try \ {t} : pc'[s] = pc[s]
        PROVE  StoredIsStored'
    <3> SUFFICES ASSUME NEW s \in Try \ {t}, pc'[s] = "stored" PROVE messages'[Current(s)'] > 0
      BY <2>5 DEF StoredIsStored
    <3>1. Current(s)' = Current(s) /\ Current(s) \in Id /\ messages[Current(s)] > 0
      BY <2>5, InsideAction DEF Current, AckInv, StoredIsStored, Typed, TypeOK
    <3>2. messages[Current(s)] \in Nat /\ messages'[Current(s)] \in Nat
          /\ messages'[Current(s)] >= messages[Current(s)]
      BY <3>1, StoreGrows, StoreTyped, OutboxFixed DEF Typed, TypeOK, StoreOK, Id
    <3> QED
      BY <3>1, <3>2
  <2>6. ASSUME NEW t \in Try, NEW r \in Result, Note(t, r), next[t] <= Len(batch[t]),
               UNCHANGED <<acked, batch>>, NEW i \in Id, i = Current(t), r = "success" => Done(i)',
               pc'[t] = "running", \A s \in Try \ {t} : pc'[s] = pc[s]
        PROVE  AckInv'
    BY <2>2, <2>4, <2>5, <2>6 DEF AckInv, Note
  <2>7. ASSUME NEW t \in Try, Send(t) PROVE AckInv'
    <3>1. \A s \in Try \ {t} : batch'[s] = batch[s] /\ results'[s] = results[s]
                               /\ next'[s] = next[s] /\ pc'[s] = pc[s]
      BY <2>7 DEF Send
    <3>2. /\ Len(results'[t]) = 0 /\ pc'[t] = "sent"
          /\ acked' = acked /\ messages' = messages
      BY <2>7, ResultsSoFar DEF Send, store, Typed, Placed, PlacedAt
    <3>3. SuccessIsDone'
      BY <3>1, <3>2, ResultsSoFar DEF AckInv, SuccessIsDone
    <3>4. StoredIsStored'
      BY <3>1, <3>2 DEF AckInv, StoredIsStored, Current
    <3> QED
      BY <2>2, <3>2, <3>3, <3>4 DEF AckInv
  <2>8. ASSUME NEW t \in Try, Reject(t) \/ Begin(t) \/ Vanish(t) \/ Fetch(t) PROVE AckInv'
    BY <2>1, <2>2, <2>3, <2>8 DEF Reject, Begin, Vanish, Fetch, AckInv
  <2>9. ASSUME NEW t \in Try, Refuse(t) \/ Falter(t) PROVE AckInv'
    BY <2>6, <2>9, CurrentIsAction DEF Refuse, Falter, Result, Typed
  <2>10. ASSUME NEW t \in Try, Validate(t) PROVE AckInv'
    <3>1. CASE Taken(Current(t))
      BY <2>6, <2>10, <3>1, CurrentIsAction DEF Validate, At, Result, Typed
    <3>2. CASE ~Taken(Current(t))
      BY <2>1, <2>2, <2>3, <2>10, <3>2 DEF Validate, At, AckInv
    <3> QED
      BY <3>1, <3>2
  <2>11. ASSUME NEW t \in Try, Create(t) PROVE AckInv'
    <3>1. next[t] <= Len(batch[t]) /\ Current(t) \in Id /\ outbox[Current(t)].kind = "create"
      BY <2>11, InsideAction DEF Create, Typed, Placed, PlacedAt, Within, Step
    <3>2. PICK i \in Id : i = Current(t)
      BY <3>1
    <3>3. reports'[i] > 0
      BY <2>11, <3>1, <3>2 DEF Create, Taken, Typed, TypeOK
    <3>4. Done(i)'
      BY <3>1, <3>2, <3>3 DEF Done
    <3> QED
      BY <2>6, <2>11, <3>1, <3>2, <3>4 DEF Create, Reported, Result
  <2>12. ASSUME NEW t \in Try, UpdateStatus(t) PROVE AckInv'
    <3>1. next[t] <= Len(batch[t]) /\ Current(t) \in Id /\ outbox[Current(t)].kind = "status"
      BY <2>12, InsideAction DEF UpdateStatus, Typed, Placed, PlacedAt, Within, Step
    <3>2. PICK i \in Id : i = Current(t)
      BY <3>1
    <3>3. Changes(t) => Done(i)'
      BY <2>12, <3>1, <3>2 DEF UpdateStatus, Done
    <3>4. CASE Changes(t)
      BY <2>6, <2>12, <3>1, <3>2, <3>3, <3>4 DEF UpdateStatus, Reported, Result
    <3>5. CASE ~Changes(t)
      BY <2>6, <2>12, <3>1, <3>2, <3>5 DEF UpdateStatus, Result
    <3> QED
      BY <3>4, <3>5
  <2>13. ASSUME NEW t \in Try, Store(t) PROVE AckInv'
    <3>1. /\ Current(t)' = Current(t) /\ Current(t) \in Id
          /\ messages'[Current(t)] = messages[Current(t)] + 1
          /\ messages[Current(t)] \in Nat
      BY <2>13, InsideAction DEF Store, At, Current, Typed, TypeOK
    <3>2. StoredIsStored'
      <4> SUFFICES ASSUME NEW s \in Try \ {t}, pc[s] = "stored" PROVE messages'[Current(s)] > 0
        BY <2>13, <3>1 DEF Store, StoredIsStored, Current
      <4>1. Current(s) \in Id /\ messages[Current(s)] > 0
        BY InsideAction DEF AckInv, StoredIsStored
      <4>2. messages[Current(s)] \in Nat /\ messages'[Current(s)] \in Nat
            /\ messages'[Current(s)] >= messages[Current(s)]
        BY <4>1, StoreGrows, StoreTyped, OutboxFixed DEF Typed, TypeOK, StoreOK, Id
      <4> QED
        BY <4>1, <4>2
    <3> QED
      BY <2>1, <2>2, <2>13, <3>2 DEF Store, AckInv
  <2>14. ASSUME NEW t \in Try, Push(t) PROVE AckInv'
    <3>1. next[t] <= Len(batch[t]) /\ Current(t) \in Id /\ outbox[Current(t)].kind = "message"
      BY <2>14, InsideAction DEF Push, Typed, Placed, PlacedAt, Within, Step
    <3>2. PICK i \in Id : i = Current(t)
      BY <3>1
    <3>3. messages'[i] > 0 /\ pushed'[i] > 0
      BY <2>14, <3>1, <3>2 DEF Push, AckInv, StoredIsStored, Typed, TypeOK
    <3>4. Done(i)'
      BY <3>1, <3>2, <3>3 DEF Done
    <3> QED
      BY <2>6, <2>14, <3>1, <3>2, <3>4 DEF Push, Result
  <2>15. ASSUME NEW t \in Try, Answer(t) PROVE AckInv'
    <3>1. \A i \in acked' : i \in acked \/
            \E k \in 1..Len(results[t]) : results[t][k] = "success" /\ i = batch[t][k]
      BY <2>15, ResultsSoFar DEF Answer
    <3>2. AckedIsDone'
      BY <3>1, ResultsSoFar DEF AckInv, AckedIsDone, SuccessIsDone
    <3> QED
      BY <2>1, <2>3, <2>15, <3>2 DEF Answer, AckInv
  <2>16. CASE UNCHANGED vars
    BY <2>1, <2>2, <2>3, <2>16 DEF vars, AckInv
  <2> QED
    BY <2>7, <2>8, <2>9, <2>10, <2>11, <2>12, <2>13, <2>14, <2>15, <2>16 DEF Next, Process, Quiet
<1> QED
  BY <1>1, <1>2, TypedHolds, PTL DEF Spec

(* The device never takes an action for done that was not carried out.     *)
THEOREM AckedWasDone == Spec => []AckedIsDone
<1>1. AckInv => AckedIsDone
  BY DEF AckInv
<1> QED
  BY <1>1, AckInvHolds, PTL

-----------------------------------------------------------------------------
(* MALFORMED BATCHES                                                       *)

(* With a malformed action in the outbox, every batch holds it for ever.   *)
Untouched ==
  /\ acked = {} /\ status = New /\ \A i \in Id : reports[i] = 0 /\ messages[i] = 0
  /\ \A t \in Try : /\ pc[t] \in {"idle", "sent", "rejected", "gone"}
                    /\ pc[t] = "sent" => Range(batch[t]) = Id
MalformedInv == (\E i \in Id : ~outbox[i].wellformed) => Untouched

(* A batch with a malformed action changes nothing at all, however often   *)
(* it is sent.                                                             *)
THEOREM MalformedIsHarmless == Spec => []MalformedChangesNothing
<1>1. Init => MalformedInv
  BY DEF Init, MalformedInv, Untouched
<1>2. Typed /\ MalformedInv /\ [Next]_vars => MalformedInv'
  <2> SUFFICES ASSUME Typed, MalformedInv, [Next]_vars, NEW i \in Id, ~outbox[i].wellformed
               PROVE  Untouched'
    BY OutboxFixed DEF MalformedInv, Id
  <2>0. Untouched /\ outbox' = outbox /\ Id' = Id
    BY OutboxFixed DEF MalformedInv, Id
  <2> USE <2>0 DEF Untouched, Goto, store, Busy
  <2>1. ASSUME NEW t \in Try, Send(t) PROVE Untouched'
    <3>1. PICK rest \in InOrder(Id \ acked) : batch' = [batch EXCEPT ![t] = rest]
      BY <2>1 DEF Send
    <3>2. Range(rest) = Id
      <4>1. IsFiniteSet(Id \ acked) /\ Id \ acked = Id
        BY Numbered, FS_Interval DEF Typed
      <4> QED
        BY <3>1, <4>1, BatchOf
    <3>3. batch'[t] = rest /\ \A s \in Try \ {t} : batch'[s] = batch[s]
      BY <3>1 DEF Typed, TypeOK
    <3>4. pc'[t] = "sent" /\ \A s \in Try \ {t} : pc'[s] = pc[s]
      BY <2>1 DEF Send, Typed, TypeOK
    <3> QED
      BY <2>1, <3>2, <3>3, <3>4 DEF Send
  <2>2. ASSUME NEW t \in Try, Reject(t) \/ Vanish(t) PROVE Untouched'
    BY <2>2 DEF Reject, Vanish, Typed, TypeOK
  <2>3. ASSUME NEW t \in Try, Begin(t) PROVE FALSE
    BY <2>3 DEF Begin, Wellformed
  <2>4. ASSUME NEW t \in Try,
               \/ Refuse(t) \/ Validate(t) \/ Create(t) \/ Fetch(t) \/ UpdateStatus(t)
               \/ Store(t) \/ Push(t) \/ Falter(t) \/ Answer(t)
        PROVE  FALSE
    BY <2>4 DEF Refuse, Validate, Create, Fetch, UpdateStatus, Store, Push, Falter, Answer, At
  <2>5. CASE UNCHANGED vars
    BY <2>5 DEF vars
  <2> QED
    BY <2>1, <2>2, <2>3, <2>4, <2>5 DEF Next, Process, Quiet
<1>3. MalformedInv => MalformedChangesNothing
  BY DEF MalformedInv, Untouched, MalformedChangesNothing
<1> QED
  BY <1>1, <1>2, <1>3, TypedHolds, PTL DEF Spec

-----------------------------------------------------------------------------
(* THE REFINEMENT                                                          *)

(* The only step that files, and what it files.                            *)
Files(i) == reports' = [reports EXCEPT ![i] = @ + 1] /\ ~Taken(i)
LEMMA OnlyCreateFiles ==
  ASSUME Typed, [Next]_vars
  PROVE  reports' = reports \/ \E i \in Id : Files(i)
<1>1. ASSUME NEW t \in Try, Create(t) PROVE reports' = reports \/ \E i \in Id : Files(i)
  BY <1>1, InsideAction DEF Create, Goto, Files
<1> QED
  BY <1>1 DEF Next, Process, Quiet, vars, store, Send, Reject, Begin, Refuse, Validate, Fetch,
              UpdateStatus, Store, Push, Falter, Answer, Vanish

(* OfflineSync implements FiledReports: a creation files one report under  *)
(* the key of its action, and no other step of any try touches the table.  *)
THEOREM Refinement == Spec => FiledOnce
<1>1. Init => Filings!Init
  <2> SUFFICES ASSUME Init PROVE ReportTable = {}
    BY DEF Filings!Init
  <2>1. \A i \in Id : 1..reports[i] = {}
    BY DEF Init
  <2> QED
    BY <2>1 DEF ReportTable
<1>2. Typed /\ [Next]_vars => [Filings!Next]_ReportTable
  <2> SUFFICES ASSUME Typed, [Next]_vars PROVE [Filings!Next]_ReportTable
    OBVIOUS
  <2>0. outbox' = outbox /\ Id' = Id /\ reports \in [Id -> Nat] /\ Id \subseteq Nat \ {0}
    BY OutboxFixed, Numbered DEF Typed, TypeOK, Id
  <2>1. CASE reports' = reports
    BY <2>0, <2>1 DEF ReportTable, KeyOf
  <2>2. ASSUME NEW i \in Id, Files(i) PROVE Filings!Next
    <3> DEFINE n == reports[i] + 1
               f == <<<<i, n>>, KeyOf(i)>>
    <3>1. reports' = [reports EXCEPT ![i] = n] /\ n \in Nat /\ 1..n = (1..reports[i]) \cup {n}
      BY <2>0, <2>2 DEF Files
    <3>2. ReportTable' = ReportTable \cup {f}
      <4>1. \A j \in Id : KeyOf(j)' = KeyOf(j)
        BY <2>0 DEF KeyOf
      <4>2. \A e : e \in ReportTable' <=>
              \E j \in Id : \E m \in 1..reports'[j] : e = <<<<j, m>>, KeyOf(j)>>
        BY <2>0, <4>1 DEF ReportTable
      <4>3. \A e : e \in ReportTable <=>
              \E j \in Id : \E m \in 1..reports[j] : e = <<<<j, m>>, KeyOf(j)>>
        BY DEF ReportTable
      <4>4. \A j \in Id : 1..reports'[j] = IF j = i THEN (1..reports[j]) \cup {n} ELSE 1..reports[j]
        BY <2>0, <3>1
      <4> HIDE DEF n
      <4>5. \A e : e \in ReportTable' <=> e \in ReportTable \/ e = f
        <5>1. ASSUME NEW e \in ReportTable' PROVE e \in ReportTable \/ e = f
          <6>1. PICK j \in Id : \E m \in 1..reports'[j] : e = <<<<j, m>>, KeyOf(j)>>
            BY <4>2, <5>1
          <6>2. PICK m \in 1..reports'[j] : e = <<<<j, m>>, KeyOf(j)>>
            BY <6>1
          <6>3. m \in 1..reports[j] \/ (j = i /\ m = n)
            BY <4>4
          <6> QED
            BY <4>3, <6>2, <6>3
        <5>2. ASSUME NEW e \in ReportTable PROVE e \in ReportTable'
          <6>1. PICK j \in Id : \E m \in 1..reports[j] : e = <<<<j, m>>, KeyOf(j)>>
            BY <4>3, <5>2
          <6>2. PICK m \in 1..reports[j] : e = <<<<j, m>>, KeyOf(j)>>
            BY <6>1
          <6>3. m \in 1..reports'[j]
            BY <4>4
          <6> QED
            BY <4>2, <6>2, <6>3
        <5>3. f \in ReportTable'
          <6>1. n \in 1..reports'[i]
            BY <4>4
          <6> QED
            BY <4>2, <6>1
        <5> QED
          BY <5>1, <5>2, <5>3
      <4> QED
        BY <4>5
    <3>3. \A e \in ReportTable : e[1] # f[1] /\ (e[2] = f[2] => f[2] = 0)
      <4> SUFFICES ASSUME NEW j \in Id, NEW m \in 1..reports[j]
                   PROVE  <<j, m>> # <<i, n>> /\ (KeyOf(j) = KeyOf(i) => KeyOf(i) = 0)
        BY DEF ReportTable
      <4>1. <<j, m>> # <<i, n>>
        BY <2>0
      <4>2. KeyOf(j) = KeyOf(i) => KeyOf(i) = 0
        <5>1. CASE outbox[i].keyed
          <6>1. reports[i] = 0
            BY <2>0, <2>2, <5>1 DEF Files, Taken
          <6>2. j # i
            BY <6>1
          <6> QED
            BY <2>0, <5>1, <6>2 DEF KeyOf
        <5>2. CASE ~outbox[i].keyed
          BY <5>2 DEF KeyOf
        <5> QED
          BY <5>1, <5>2
      <4> QED
        BY <4>1, <4>2
    <3>4. Filings!File(f[1], f[2])
      BY <3>2, <3>3 DEF Filings!File
    <3> QED
      BY <3>2, <3>4 DEF Filings!Next
  <2> QED
    BY <2>1, <2>2, OnlyCreateFiles
<1> QED
  BY <1>1, <1>2, TypedHolds, PTL DEF Spec, FiledOnce, Filings!Spec

-----------------------------------------------------------------------------
(* MESSAGES                                                                *)

(* The actions of a batch are in the order of the outbox, each of them once*)
Ordered ==
  \A t \in Try : \A j, k \in 1..Len(batch[t]) : j < k => batch[t][j] < batch[t][k]

LEMMA OrderedHolds == Spec => []Ordered
<1>1. Init => Ordered
  BY DEF Init, Ordered
<1>2. Typed /\ Ordered /\ [Next]_vars => Ordered'
  <2> SUFFICES ASSUME Typed, Ordered, [Next]_vars PROVE Ordered'
    OBVIOUS
  <2>1. ASSUME NEW t \in Try, Send(t) PROVE Ordered'
    <3>1. PICK rest \in InOrder(Id \ acked) : batch' = [batch EXCEPT ![t] = rest]
      BY <2>1 DEF Send
    <3>2. \A j, k \in 1..Len(rest) : j < k => rest[j] < rest[k]
      <4>1. IsFiniteSet(Id)
        BY Numbered, FS_Interval DEF Typed
      <4>2. IsFiniteSet(Id \ acked)
        BY <4>1, FS_Subset
      <4> QED
        BY <3>1, <4>2, BatchOf
    <3>3. batch'[t] = rest /\ \A s \in Try \ {t} : batch'[s] = batch[s]
      BY <3>1 DEF Typed, TypeOK
    <3> QED
      BY <3>2, <3>3 DEF Ordered
  <2>2. CASE batch' = batch
    BY <2>2 DEF Ordered
  <2> QED
    BY <2>1, <2>2 DEF Next, Process, Quiet, vars, Reject, Begin, Refuse, Validate, Create, Fetch,
                      UpdateStatus, Store, Push, Falter, Answer, Vanish
<1> QED
  BY <1>1, <1>2, TypedHolds, PTL DEF Spec

LEMMA EachOnce ==
  ASSUME Typed, Ordered, NEW t \in Try, NEW j \in 1..Len(batch[t]), NEW k \in 1..Len(batch[t]),
         batch[t][j] = batch[t][k]
  PROVE  j = k
<1>1. /\ batch[t][j] \in Nat /\ batch[t][k] \in Nat
      /\ j < k => batch[t][j] < batch[t][k]
      /\ k < j => batch[t][k] < batch[t][j]
      /\ Len(batch[t]) \in Nat
  BY Numbered, ResultsSoFar DEF Typed, Ordered
<1> QED
  BY <1>1

(* A try that has stored its action, if the action is a message.           *)
Reached(t, i) ==
  \E k \in 1..Len(batch[t]) :
    batch[t][k] = i /\ (k < next[t] \/ (k = next[t] /\ pc[t] \in {"stored", "gone"}))
Reachers(i) == {t \in Try : Reached(t, i)}

LEMMA ReachedStays ==
  ASSUME Typed, [Next]_vars, NEW t \in Try, NEW i, Reached(t, i)
  PROVE  Reached(t, i)'
<1>0. PICK k \in 1..Len(batch[t]) :
        batch[t][k] = i /\ (k < next[t] \/ (k = next[t] /\ pc[t] \in {"stored", "gone"}))
  BY DEF Reached
<1> USE <1>0 DEF Goto
<1>1. next \in [Try -> Nat] /\ Len(batch[t]) \in Nat
      /\ pc \in [Try -> {"idle", "sent"} \cup Busy \cup Ended]
  BY ResultsSoFar DEF Typed, TypeOK
<1> USE <1>1
<1>2. ASSUME batch'[t] = batch[t], next'[t] = next[t],
             pc[t] \in {"stored", "gone"} => pc'[t] \in {"stored", "gone"}
      PROVE  Reached(t, i)'
  BY <1>2 DEF Reached
<1>3. ASSUME batch'[t] = batch[t], next'[t] = next[t] + 1 PROVE Reached(t, i)'
  BY <1>3 DEF Reached
<1>4. ASSUME NEW s \in Try, Send(s) PROVE Reached(t, i)'
  <2>1. s # t
    <3>1. batch[s] = <<>> \/ pc[s] # "idle"
      BY DEF Typed, Placed, PlacedAt
    <3> QED
      BY <1>4, <3>1 DEF Send
  <2> QED
    BY <1>2, <1>4, <2>1 DEF Send
<1>5. ASSUME NEW s \in Try, Reject(s) \/ Begin(s) \/ Fetch(s) \/ Store(s) \/ Vanish(s) \/ Answer(s)
      PROVE  Reached(t, i)'
  BY <1>2, <1>5 DEF Reject, Begin, Fetch, Store, Vanish, Answer, At
<1>6. ASSUME NEW s \in Try, NEW r, Note(s, r), batch' = batch,
             \A u \in Try \ {s} : pc'[u] = pc[u]
      PROVE  Reached(t, i)'
  BY <1>2, <1>3, <1>6 DEF Note
<1>7. ASSUME NEW s \in Try, Refuse(s) \/ Falter(s) \/ Create(s) \/ UpdateStatus(s) \/ Push(s)
      PROVE  Reached(t, i)'
  BY <1>6, <1>7 DEF Refuse, Falter, Create, Reported, UpdateStatus, Push
<1>8. ASSUME NEW s \in Try, Validate(s) PROVE Reached(t, i)'
  <2>1. CASE Taken(Current(s))
    BY <1>6, <1>8, <2>1 DEF Validate
  <2>2. CASE ~Taken(Current(s))
    BY <1>2, <1>8, <2>2 DEF Validate
  <2> QED
    BY <2>1, <2>2
<1>9. CASE UNCHANGED vars
  BY <1>2, <1>9 DEF vars
<1> QED
  BY <1>4, <1>5, <1>7, <1>8, <1>9 DEF Next, Process, Quiet

(* Storing a message is the only step that adds one, and it is counted for *)
(* a try that was not counted for this message.                            *)
LEMMA StoreIsNew ==
  ASSUME Typed, Ordered, NEW t \in Try, Store(t)
  PROVE  \E i \in Id : /\ messages' = [messages EXCEPT ![i] = @ + 1]
                       /\ ~Reached(t, i) /\ Reached(t, i)'
<1>1. /\ next[t] \in 1..Len(batch[t]) /\ Current(t) \in Id /\ pc[t] = "running"
      /\ Len(batch[t]) \in Nat
  BY InsideAction, ResultsSoFar DEF Store, At
<1>2. PICK i \in Id : i = Current(t)
  BY <1>1
<1>3. ~Reached(t, i)
  <2> SUFFICES ASSUME NEW k \in 1..Len(batch[t]), batch[t][k] = i, k < next[t] PROVE FALSE
    BY <1>1 DEF Reached
  <2>1. k = next[t]
    BY <1>1, <1>2, EachOnce DEF Current
  <2> QED
    BY <1>1, <2>1
<1>4. Reached(t, i)'
  <2>1. batch' = batch /\ next' = next /\ pc'[t] = "stored"
    BY DEF Store, Goto, Typed, TypeOK
  <2> QED
    BY <1>1, <1>2, <2>1 DEF Reached, Current
<1> QED
  BY <1>2, <1>3, <1>4 DEF Store

(* However often a message is sent and whatever fails, there are no more   *)
(* copies of it than tries that have come to it.                           *)
THEOREM NoCopyWithoutTry ==
  ASSUME IsFiniteSet(Try) PROVE Spec => []StoredOncePerTry
<1> DEFINE Inv == \A i \in Id : messages[i] <= Cardinality(Reachers(i))
<1>0. \A i : /\ IsFiniteSet(Reachers(i)) /\ Cardinality(Reachers(i)) \in Nat
             /\ IsFiniteSet(Reachers(i)') /\ Cardinality(Reachers(i)') \in Nat
  <2>1. \A i : Reachers(i) \subseteq Try /\ Reachers(i)' \subseteq Try
    BY DEF Reachers
  <2> QED
    BY <2>1, FS_Subset, FS_CardinalityType
<1>1. Init => Inv
  <2> SUFFICES ASSUME Init, NEW i \in Id PROVE messages[i] <= Cardinality(Reachers(i))
    OBVIOUS
  <2>1. messages[i] = 0
    BY DEF Init
  <2> QED
    BY <1>0, <2>1
<1>2. Typed /\ Ordered /\ Inv /\ [Next]_vars => Inv'
  <2> SUFFICES ASSUME Typed, Ordered, Inv, [Next]_vars, NEW i \in Id
               PROVE  messages'[i] <= Cardinality(Reachers(i)')
    BY OutboxFixed DEF Id
  <2>1. Reachers(i) \subseteq Reachers(i)'
    BY ReachedStays DEF Reachers
  <2>2. /\ Cardinality(Reachers(i)) <= Cardinality(Reachers(i)')
        /\ messages \in [Id -> Nat] /\ messages[i] <= Cardinality(Reachers(i))
    BY <1>0, <2>1, FS_Subset DEF Typed, TypeOK
  <2>3. CASE messages'[i] = messages[i]
    BY <1>0, <2>2, <2>3
  <2>4. ASSUME NEW t \in Try, Store(t), messages'[i] # messages[i]
        PROVE  messages'[i] <= Cardinality(Reachers(i)')
    <3>1. messages'[i] = messages[i] + 1 /\ t \notin Reachers(i) /\ t \in Reachers(i)'
      BY <2>2, <2>4, StoreIsNew DEF Reachers
    <3>2. Cardinality(Reachers(i) \cup {t}) = Cardinality(Reachers(i)) + 1
          /\ IsFiniteSet(Reachers(i) \cup {t})
      BY <1>0, <3>1, FS_AddElement
    <3>3. Cardinality(Reachers(i) \cup {t}) <= Cardinality(Reachers(i)')
      BY <1>0, <2>1, <3>1, <3>2, FS_Subset
    <3> QED
      BY <1>0, <2>2, <3>1, <3>2, <3>3
  <2>5. messages' = messages \/ \E t \in Try : Store(t)
    BY DEF Next, Process, Quiet, vars, store, Send, Reject, Begin, Refuse, Validate, Create, Fetch,
           UpdateStatus, Push, Falter, Answer, Vanish
  <2> QED
    BY <2>3, <2>4, <2>5
<1>3. Typed /\ Inv => StoredOncePerTry
  <2> SUFFICES ASSUME Typed, Inv, NEW i \in Id
               PROVE  messages[i] <= Cardinality({t \in Try : \E k \in 1..next[t] :
                                       k <= Len(batch[t]) /\ batch[t][k] = i})
    BY DEF StoredOncePerTry
  <2> DEFINE S == {t \in Try : \E k \in 1..next[t] : k <= Len(batch[t]) /\ batch[t][k] = i}
  <2>1. Reachers(i) \subseteq S
    BY ResultsSoFar DEF Reachers, Reached
  <2>2. IsFiniteSet(S) /\ Cardinality(S) \in Nat
    BY FS_Subset, FS_CardinalityType
  <2>3. Cardinality(Reachers(i)) <= Cardinality(S)
    BY <2>1, <2>2, FS_Subset
  <2>4. messages[i] \in Nat /\ messages[i] <= Cardinality(Reachers(i))
    BY DEF Typed, TypeOK
  <2> QED
    BY <1>0, <2>2, <2>3, <2>4
<1> QED
  BY <1>1, <1>2, <1>3, TypedHolds, OrderedHolds, PTL DEF Spec

-----------------------------------------------------------------------------
(* THE LAST EDIT                                                           *)

IsLast(e) == e \in Edits /\ \A d \in Edits : d <= e
Wanted(e) == outbox[e].value

(* A try that is through with the edit e, or has seen that it need not be  *)
(* made; and one that has still to make it.                                *)
Satisfied(t, k, e) ==
  k < next[t] \/ (k = next[t] /\ pc[t] = "fetched" /\ seen[t] = Wanted(e))
Late(t, e)  == \E k \in 1..Len(batch[t]) : batch[t][k] = e /\ Satisfied(t, k, e)
Early(t, e) == pc[t] \in Busy /\ \E k \in 1..Len(batch[t]) : batch[t][k] = e /\ ~Satisfied(t, k, e)

Undisturbed ==
  \A t \in Try :
    /\ pc[t] \notin {"gone", "rejected"}
    /\ "fault" \notin Range(results[t])
    /\ Edits \cap Range(batch[t]) \in {{}, Edits}

(* While the last edit has been made but does not show, another try that   *)
(* undid it has still to make it itself.                                   *)
Undone(e) == (\E t \in Try : Late(t, e)) /\ status # Wanted(e)
LastInv ==
  Undisturbed => \A e \in Id : (IsLast(e) /\ Undone(e)) => \E t \in Try : Early(t, e)

(* What no step changes.                                                   *)
LEMMA EditsFixed ==
  ASSUME outbox' = outbox
  PROVE  Edits' = Edits /\ \A e : (IsLast(e)' <=> IsLast(e)) /\ Wanted(e)' = Wanted(e)
  BY DEF Edits, IsLast, Wanted, Id

(* A disturbance never goes away.                                          *)
LEMMA DisturbanceStays ==
  ASSUME Typed, [Next]_vars, Undisturbed'
  PROVE  Undisturbed
<1> SUFFICES ASSUME NEW t \in Try
             PROVE  /\ pc[t] \notin {"gone", "rejected"}
                    /\ "fault" \notin Range(results[t])
                    /\ Edits \cap Range(batch[t]) \in {{}, Edits}
  BY DEF Undisturbed
<1>0. /\ outbox' = outbox /\ Edits' = Edits
      /\ pc'[t] \notin {"gone", "rejected"}
      /\ "fault" \notin Range(results'[t])
      /\ Edits \cap Range(batch'[t]) \in {{}, Edits}
  BY OutboxFixed, EditsFixed DEF Undisturbed
<1>1. /\ pc \in [Try -> {"idle", "sent"} \cup Busy \cup Ended]
      /\ batch \in [Try -> Seq(Id)] /\ results[t] \in Seq(Result)
  BY DEF Typed, TypeOK, Result
<1>2. pc[t] \in {"gone", "rejected"} => pc'[t] = pc[t]
  BY <1>1 DEF Next, Process, Quiet, vars, Goto, Send, Reject, Begin, Refuse, Validate, Create,
              Fetch, UpdateStatus, Store, Push, Falter, Answer, Vanish, At, Busy
<1>3. batch'[t] = batch[t] \/ batch[t] = <<>>
  <2>1. ASSUME NEW s \in Try, Send(s) PROVE batch'[t] = batch[t] \/ batch[t] = <<>>
    <3>1. batch[s] = <<>> \/ pc[s] # "idle"
      BY DEF Typed, Placed, PlacedAt
    <3> QED
      BY <1>1, <2>1, <3>1 DEF Send, Goto
  <2> QED
    BY <2>1 DEF Next, Process, Quiet, vars, Reject, Begin, Refuse, Validate, Create, Fetch,
                UpdateStatus, Store, Push, Falter, Answer, Vanish
<1>4. Edits \cap Range(batch[t]) \in {{}, Edits}
  BY <1>0, <1>3 DEF Range
<1>5. Range(results[t]) \subseteq Range(results'[t])
  <2>1. ASSUME NEW s \in Try, NEW r, Note(s, r) PROVE Range(results[t]) \subseteq Range(results'[t])
    <3>1. CASE s = t
      <4>1. results'[t] = Append(results[t], r)
        BY <2>1, <3>1 DEF Note, Typed, TypeOK
      <4>2. \A k \in DOMAIN results[t] : k \in DOMAIN results'[t] /\ results'[t][k] = results[t][k]
        BY <1>1, <4>1
      <4> QED
        BY <4>2 DEF Range
    <3>2. CASE s # t
      BY <2>1, <3>2 DEF Note, Typed, TypeOK
    <3> QED
      BY <3>1, <3>2
  <2>2. CASE results' = results
    BY <2>2
  <2> QED
    BY <2>1, <2>2 DEF Next, Process, Quiet, vars, Send, Reject, Begin, Refuse, Validate, Create,
                      Fetch, Reported, UpdateStatus, Store, Push, Falter, Answer, Vanish
<1> QED
  BY <1>0, <1>2, <1>4, <1>5

(* A try that passes another action is as far from the last edit as before.*)
LEMMA Passing ==
  ASSUME Typed, outbox' = outbox, NEW t \in Try, NEW e, Current(t) # e,
         batch'[t] = batch[t], next'[t] = next[t] + 1, pc'[t] = "running", pc[t] \in Busy
  PROVE  (Late(t, e)' => Late(t, e)) /\ (Early(t, e) => Early(t, e)')
<1>1. next[t] \in Nat
  BY ResultsSoFar
<1>2. \A k \in 1..Len(batch[t]) : batch[t][k] = e => (Satisfied(t, k, e)' <=> Satisfied(t, k, e))
  BY <1>1 DEF Satisfied, Current
<1> QED
  BY <1>2 DEF Late, Early, Busy

LEMMA LastInvHolds == Spec => []LastInv
<1>1. Init => LastInv
  <2> SUFFICES ASSUME Init PROVE \A t \in Try : \A e : ~Late(t, e)
    BY DEF LastInv, Undone
  <2>1. Len(<<>>) = 0
    OBVIOUS
  <2> QED
    BY <2>1 DEF Init, Late
<1>2. Typed /\ Ordered /\ LastInv /\ [Next]_vars => LastInv'
  <2> SUFFICES ASSUME Typed, Ordered, LastInv, [Next]_vars, Undisturbed',
                      NEW e \in Id, IsLast(e), Undone(e)'
               PROVE  \E t \in Try : Early(t, e)'
    BY OutboxFixed, EditsFixed DEF LastInv, Id
  <2>0. /\ outbox' = outbox /\ Wanted(e)' = Wanted(e)
        /\ Undone(e) => \E t \in Try : Early(t, e)
        /\ \A t \in Try : pc'[t] \notin {"gone", "rejected"} /\ "fault" \notin Range(results'[t])
        /\ \A t \in Try : Edits \cap Range(batch[t]) \in {{}, Edits}
        /\ pc \in [Try -> {"idle", "sent"} \cup Busy \cup Ended]
    BY OutboxFixed, EditsFixed, DisturbanceStays DEF LastInv, Undisturbed, Typed, TypeOK
  <2> USE <2>0 DEF Goto
  <2>1. ASSUME NEW s \in Try, pc'[s] = pc[s], batch'[s] = batch[s], next'[s] = next[s],
               seen'[s] = seen[s]
        PROVE  (Late(s, e)' <=> Late(s, e)) /\ (Early(s, e)' <=> Early(s, e))
    BY <2>1 DEF Late, Early, Satisfied
  <2>2. ASSUME NEW t \in Try, status' = status,
               \A s \in Try \ {t} : /\ pc'[s] = pc[s] /\ batch'[s] = batch[s]
                                    /\ next'[s] = next[s] /\ seen'[s] = seen[s],
               (Late(t, e)' => Late(t, e)) /\ (Early(t, e) => Early(t, e)')
        PROVE  \E s \in Try : Early(s, e)'
    BY <2>1, <2>2 DEF Undone
  <2>3. ASSUME NEW t \in Try, NEW r, Note(t, r), status' = status, UNCHANGED <<batch, seen>>,
               pc'[t] = "running", \A s \in Try \ {t} : pc'[s] = pc[s],
               pc[t] \in Busy, Current(t) # e
        PROVE  \E s \in Try : Early(s, e)'
    <3>1. next'[t] = next[t] + 1 /\ \A s \in Try \ {t} : next'[s] = next[s]
      BY <2>3 DEF Note, Typed, TypeOK
    <3> QED
      BY <2>2, <2>3, <3>1, Passing
  <2>4. ASSUME NEW t \in Try, Send(t) PROVE \E s \in Try : Early(s, e)'
    <3>1. ~Late(t, e)' /\ ~Early(t, e)
      <4>1. next'[t] = 1 /\ pc'[t] = "sent" /\ pc[t] = "idle"
        BY <2>4 DEF Send, Typed, Placed, PlacedAt
      <4>2. \A k \in 1..Len(batch'[t]) : ~(k < 1)
        BY StoreTyped
      <4> QED
        BY <4>1, <4>2 DEF Late, Early, Satisfied, Busy
    <3> QED
      BY <2>2, <2>4, <3>1 DEF Send, store
  <2>5. ASSUME NEW t \in Try, Begin(t) \/ Answer(t) PROVE \E s \in Try : Early(s, e)'
    <3>1. Late(t, e)' => Late(t, e)
      BY <2>5 DEF Begin, Answer, Late, Satisfied
    <3>2. ~Early(t, e)
      <4>1. CASE Begin(t)
        BY <4>1 DEF Begin, Early, Busy
      <4>2. CASE Answer(t)
        <5>1. next[t] \in Nat /\ Len(batch[t]) \in Nat
          BY ResultsSoFar
        <5> QED
          BY <4>2, <5>1 DEF Answer, Early, Satisfied
      <4> QED
        BY <2>5, <4>1, <4>2
    <3> QED
      BY <2>2, <2>5, <3>1, <3>2 DEF Begin, Answer, store
  <2>6. ASSUME NEW t \in Try, Reject(t) \/ Vanish(t) PROVE FALSE
    BY <2>6 DEF Reject, Vanish
  <2>7. ASSUME NEW t \in Try, Falter(t) PROVE FALSE
    <3>1. results'[t] = Append(results[t], "fault") /\ results[t] \in Seq(Result)
      BY <2>7 DEF Falter, Note, Typed, TypeOK, Result
    <3>2. Len(results[t]) + 1 \in DOMAIN results'[t]
          /\ results'[t][Len(results[t]) + 1] = "fault"
      BY <3>1
    <3> QED
      BY <3>2 DEF Range
  <2>8. ASSUME NEW t \in Try, Refuse(t) PROVE \E s \in Try : Early(s, e)'
    <3>1. Current(t) # e
      BY <2>8 DEF Refuse, IsLast, Edits
    <3> QED
      BY <2>3, <2>8, <3>1 DEF Refuse, store, Busy
  <2>9. ASSUME NEW t \in Try, Validate(t) PROVE \E s \in Try : Early(s, e)'
    <3>1. Current(t) # e
      BY <2>9 DEF Validate, At, IsLast, Edits
    <3>2. CASE Taken(Current(t))
      BY <2>3, <2>9, <3>1, <3>2 DEF Validate, At, store, Busy
    <3>3. CASE ~Taken(Current(t))
      <4>1. (Late(t, e)' => Late(t, e)) /\ (Early(t, e) => Early(t, e)')
        BY <2>9, <3>3 DEF Validate, At, Late, Early, Satisfied, Busy
      <4> QED
        BY <2>2, <2>9, <3>3, <4>1 DEF Validate, store
    <3> QED
      BY <3>2, <3>3
  <2>10. ASSUME NEW t \in Try, Create(t) \/ Push(t) PROVE \E s \in Try : Early(s, e)'
    <3>1. Current(t) # e
      BY <2>10 DEF Create, Push, Typed, Placed, PlacedAt, Within, Step, IsLast, Edits
    <3> QED
      BY <2>3, <2>10, <3>1 DEF Create, Reported, Push, Busy
  <2>11. ASSUME NEW t \in Try, Store(t) PROVE \E s \in Try : Early(s, e)'
    <3>1. (Late(t, e)' => Late(t, e)) /\ (Early(t, e) => Early(t, e)')
      BY <2>11 DEF Store, At, Late, Early, Satisfied, Busy
    <3> QED
      BY <2>2, <2>11, <3>1 DEF Store
  <2>12. ASSUME NEW t \in Try, Fetch(t) PROVE \E s \in Try : Early(s, e)'
    <3>1. seen'[t] # Wanted(e) /\ \A s \in Try \ {t} : seen'[s] = seen[s]
      BY <2>12 DEF Fetch, store, Undone, Typed, TypeOK
    <3>2. (Late(t, e)' => Late(t, e)) /\ (Early(t, e) => Early(t, e)')
      BY <2>12, <3>1 DEF Fetch, At, Late, Early, Satisfied, Busy
    <3> QED
      BY <2>2, <2>12, <3>1, <3>2 DEF Fetch, store
  <2>13. ASSUME NEW t \in Try, UpdateStatus(t) PROVE \E s \in Try : Early(s, e)'
    <3>0. /\ next[t] \in 1..Len(batch[t]) /\ Current(t) \in Id /\ Len(batch[t]) \in Nat
          /\ outbox[Current(t)].kind = "status" /\ outbox[Current(t)].permitted
      BY <2>13, InsideAction, ResultsSoFar
         DEF UpdateStatus, Typed, Placed, PlacedAt, Within, Step
    <3>1. /\ next'[t] = next[t] + 1 /\ pc'[t] = "running" /\ batch' = batch /\ seen' = seen
          /\ \A s \in Try \ {t} : pc'[s] = pc[s] /\ next'[s] = next[s]
      BY <2>13 DEF UpdateStatus, Reported, Note, Typed, TypeOK
    <3>2. CASE Changes(t)
      <4>1. status' = Wanted(Current(t)) /\ Current(t) \in Edits
        BY <2>13, <3>0, <3>2 DEF UpdateStatus, Changes, Wanted, Edits
      <4>2. Current(t) # e /\ Current(t) < e
        BY <4>1, <3>0, Numbered DEF Undone, IsLast, Typed
      <4>3. PICK k \in 1..Len(batch[t]) : batch[t][k] = e
        <5>1. Current(t) \in Range(batch[t]) /\ batch[t] \in Seq(Id)
          BY <3>0, ResultsSoFar DEF Current, Range
        <5>2. e \in Range(batch[t])
          BY <4>1, <5>1 DEF IsLast
        <5> QED
          BY <5>1, <5>2 DEF Range
      <4>4. next[t] < k
        <5>1. k < next[t] => e < Current(t)
          BY <3>0, <4>3 DEF Ordered, Current
        <5>2. k # next[t]
          BY <4>2, <4>3 DEF Current
        <5> QED
          BY <3>0, <4>2, <5>1, <5>2, Numbered DEF Typed
      <4>5. ~Satisfied(t, k, e)'
        BY <3>0, <3>1, <4>4 DEF Satisfied
      <4> QED
        BY <3>1, <4>3, <4>5 DEF Early, Busy
    <3>3. CASE ~Changes(t) /\ Current(t) # e
      BY <2>2, <2>13, <3>1, <3>3, Passing DEF UpdateStatus, Busy
    <3>4. CASE ~Changes(t) /\ Current(t) = e
      <4>1. status' = status /\ seen[t] = Wanted(e) /\ pc[t] = "fetched"
        BY <2>13, <3>4 DEF UpdateStatus, Changes, IsLast, Edits, Wanted
      <4>2. Satisfied(t, next[t], e) /\ batch[t][next[t]] = e
        BY <3>4, <4>1 DEF Satisfied, Current
      <4>3. Late(t, e)
        BY <3>0, <4>2 DEF Late
      <4>4. ~Early(t, e)
        BY <3>0, <4>2, EachOnce DEF Early
      <4>5. PICK s \in Try \ {t} : Early(s, e)
        BY <4>1, <4>3, <4>4 DEF Undone
      <4> QED
        BY <2>1, <3>1, <4>5
    <3> QED
      BY <3>2, <3>3, <3>4
  <2>14. CASE UNCHANGED vars
    BY <2>1, <2>14 DEF vars, store, Undone
  <2> QED
    BY <2>4, <2>5, <2>6, <2>7, <2>8, <2>9, <2>10, <2>11, <2>12, <2>13, <2>14
       DEF Next, Process, Quiet
<1> QED
  BY <1>1, <1>2, TypedHolds, OrderedHolds, PTL DEF Spec

(* Overlapping tries do not undo the last edit of the device: however they *)
(* were interleaved, the report ends with the status of that edit.         *)
THEOREM LastEditStays == Spec => []LastEditWins
<1>1. Typed /\ LastInv => LastEditWins
  <2> SUFFICES ASSUME Typed, LastInv, Settled, NEW e \in Edits, \A d \in Edits : d <= e
               PROVE  status = Wanted(e)
    BY DEF LastEditWins, Wanted
  <2>1. Undisturbed /\ e \in Id /\ IsLast(e)
    BY DEF Settled, Undisturbed, Edits, IsLast
  <2>2. PICK t \in Try : Edits \subseteq Range(batch[t])
    BY DEF Settled
  <2>3. batch[t] \in Seq(Id) /\ Len(batch[t]) \in Nat /\ next[t] \in Nat
    BY ResultsSoFar
  <2>4. PICK k \in 1..Len(batch[t]) : batch[t][k] = e
    BY <2>2, <2>3 DEF Range
  <2>5. pc[t] = "answered"
    <3>1. Len(<<>>) = 0
      OBVIOUS
    <3>2. pc[t] # "idle"
      BY <2>4, <3>1 DEF Typed, Placed, PlacedAt
    <3> QED
      BY <3>2 DEF Settled
  <2>6. next[t] > Len(batch[t])
    BY <2>5 DEF Typed, Placed, PlacedAt
  <2>7. Late(t, e)
    BY <2>3, <2>4, <2>6 DEF Late, Satisfied
  <2>8. \A s \in Try : ~Early(s, e)
    BY DEF Settled, Early, Busy
  <2> QED
    BY <2>1, <2>7, <2>8 DEF LastInv, Undone
<1> QED
  BY <1>1, TypedHolds, LastInvHolds, PTL
=============================================================================
