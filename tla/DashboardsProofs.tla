-------------------------- MODULE DashboardsProofs --------------------------
(***************************************************************************)
(* Proofs about Dashboards, for every set of connections and reports, every*)
(* capacity of the layer's queues and every number of broadcasts.          *)
(***************************************************************************)
EXTENDS Dashboards, SequenceTheorems, TLAPS

-----------------------------------------------------------------------------
(* WHAT A CLIENT RECEIVED AND WHAT IS ON ITS WAY                           *)

Increasing(p) == \A i, j \in DOMAIN p : i < j => p[i] < p[j]

(* An event that is shown leaves the queue and joins what was received.    *)
LEMMA HeadMoves ==
  ASSUME NEW S, NEW s \in Seq(S), NEW q \in Seq(S), q # <<>>
  PROVE  /\ Append(s, Head(q)) \o Tail(q) = s \o q
         /\ Append(s, Head(q)) \in Seq(S) /\ Tail(q) \in Seq(S)
<1>1. Head(q) \in S /\ Tail(q) \in Seq(S) /\ Len(Tail(q)) = Len(q) - 1
      /\ \A i \in 1..Len(Tail(q)) : Tail(q)[i] = q[i + 1]
  BY HeadTailProperties
<1>2. Len(s) \in Nat /\ Len(q) \in Nat \ {0} /\ Head(q) = q[1]
  BY EmptySeq, LenProperties
<1> DEFINE a == Append(s, Head(q))
<1>3. /\ a \in Seq(S) /\ Len(a) = Len(s) + 1 /\ a[Len(s) + 1] = q[1]
      /\ \A i \in 1..Len(s) : a[i] = s[i]
  BY <1>1, <1>2, AppendProperties
<1> HIDE DEF a
<1>4. /\ a \o Tail(q) \in Seq(S) /\ Len(a \o Tail(q)) = Len(s) + Len(q)
      /\ \A i \in 1..(Len(s) + Len(q)) :
           (a \o Tail(q))[i] = IF i <= Len(s) + 1 THEN a[i] ELSE Tail(q)[i - (Len(s) + 1)]
  <2>1. Len(a) + Len(Tail(q)) = Len(s) + Len(q)
    BY <1>1, <1>2, <1>3
  <2>2. /\ a \o Tail(q) \in Seq(S) /\ Len(a \o Tail(q)) = Len(a) + Len(Tail(q))
        /\ \A i \in 1..(Len(a) + Len(Tail(q))) :
             (a \o Tail(q))[i] = IF i <= Len(a) THEN a[i] ELSE Tail(q)[i - Len(a)]
    BY <1>1, <1>3, ConcatProperties
  <2> QED
    BY <1>3, <2>1, <2>2
<1>5. /\ s \o q \in Seq(S) /\ Len(s \o q) = Len(s) + Len(q)
      /\ \A i \in 1..(Len(s) + Len(q)) : (s \o q)[i] = IF i <= Len(s) THEN s[i] ELSE q[i - Len(s)]
  BY ConcatProperties
<1>6. ASSUME NEW i \in 1..(Len(s) + Len(q)) PROVE (a \o Tail(q))[i] = (s \o q)[i]
  <2>1. CASE i <= Len(s)
    BY <1>2, <1>3, <1>4, <1>5, <2>1
  <2>2. CASE i = Len(s) + 1
    BY <1>2, <1>3, <1>4, <1>5, <2>2
  <2>3. CASE i > Len(s) + 1
    <3>1. i - (Len(s) + 1) \in 1..Len(Tail(q)) /\ i - (Len(s) + 1) + 1 = i - Len(s)
      BY <1>1, <1>2, <2>3
    <3>2. Tail(q)[i - (Len(s) + 1)] = q[i - Len(s)]
      BY <1>1, <3>1
    <3> QED
      BY <1>2, <1>4, <1>5, <2>3, <3>2
  <2>4. i <= Len(s) \/ i = Len(s) + 1 \/ i > Len(s) + 1
    BY <1>2
  <2> QED
    BY <2>1, <2>2, <2>3, <2>4
<1>7. a \o Tail(q) = s \o q
  BY <1>4, <1>5, <1>6, SeqEqual
<1> QED
  BY <1>1, <1>3, <1>7 DEF a

(* An event that is queued comes last.                                     *)
LEMMA QueuedLast ==
  ASSUME NEW s \in Seq(Nat), NEW q \in Seq(Nat), NEW n \in Nat
  PROVE  /\ s \o Append(q, n) = Append(s \o q, n)
         /\ Range(s \o Append(q, n)) = Range(s \o q) \cup {n}
         /\ (Increasing(s \o q) /\ \A m \in Range(s \o q) : m < n)
              => Increasing(s \o Append(q, n))
<1> DEFINE p == s \o q
           a == Append(p, n)
<1>1. p \in Seq(Nat) /\ s \o Append(q, n) = a
  <2>1. <<n>> \in Seq(Nat) /\ Append(q, n) = q \o <<n>> /\ p \in Seq(Nat)
    BY AppendIsConcat, ConcatProperties
  <2> QED
    BY <2>1, AppendIsConcat, ConcatAssociative
<1> HIDE DEF p
<1>2. /\ DOMAIN p = 1..Len(p) /\ Len(p) \in Nat /\ DOMAIN a = 1..(Len(p) + 1)
      /\ a[Len(p) + 1] = n /\ \A i \in 1..Len(p) : a[i] = p[i]
  BY <1>1, AppendProperties, LenProperties
<1>3. \A i \in 1..Len(p) : p[i] \in Nat
  BY <1>1, ElementOfSeq
<1> HIDE DEF a
<1>4. Range(a) = Range(p) \cup {n}
  <2>1. ASSUME NEW m PROVE (\E i \in DOMAIN a : m = a[i]) <=> (\E i \in DOMAIN p : m = p[i]) \/ m = n
    <3>1. \A i \in 1..(Len(p) + 1) : i \in 1..Len(p) \/ i = Len(p) + 1
      BY <1>2
    <3>2. Len(p) + 1 \in DOMAIN a /\ \A i \in DOMAIN p : i \in DOMAIN a
      BY <1>2
    <3> QED
      BY <1>2, <3>1, <3>2, Zenon
  <2>2. \A m : m \in Range(a) <=> \E i \in DOMAIN a : m = a[i]
    BY DEF Range
  <2>3. \A m : m \in Range(p) <=> \E i \in DOMAIN p : m = p[i]
    BY DEF Range
  <2> QED
    BY <2>1, <2>2, <2>3
<1>5. ASSUME Increasing(p), \A m \in Range(p) : m < n
      PROVE  Increasing(a)
  <2>1. \A i \in DOMAIN p : p[i] < n
    BY <1>5 DEF Range
  <2>2. ASSUME NEW i \in DOMAIN a, NEW j \in DOMAIN a, i < j PROVE a[i] < a[j]
    <3>1. i \in DOMAIN p /\ a[i] = p[i]
      BY <1>2, <2>2
    <3>2. CASE j = Len(p) + 1
      BY <1>2, <2>1, <3>1, <3>2
    <3>3. CASE j \in DOMAIN p
      BY <1>2, <1>5, <2>2, <3>1, <3>3 DEF Increasing
    <3> QED
      BY <1>2, <3>2, <3>3
  <2> QED
    BY <2>2 DEF Increasing
<1> QED
  BY <1>1, <1>4, <1>5 DEF p

(* A sequence in two parts is in order if both parts are and the first is  *)
(* before the second.                                                      *)
Before(s, q) ==
  Increasing(s) /\ Increasing(q) /\ \A i \in DOMAIN s, j \in DOMAIN q : s[i] < q[j]

LEMMA PlacesOfParts ==
  ASSUME NEW s \in Seq(Nat), NEW q \in Seq(Nat)
  PROVE  /\ Len(s) \in Nat /\ DOMAIN s = 1..Len(s)
         /\ Len(q) \in Nat /\ DOMAIN q = 1..Len(q)
         /\ DOMAIN (s \o q) = 1..(Len(s) + Len(q))
         /\ \A i \in 1..Len(s) : (s \o q)[i] = s[i]
         /\ \A i \in 1..Len(q) : (s \o q)[Len(s) + i] = q[i]
<1>1. Len(s) \in Nat /\ Len(q) \in Nat /\ DOMAIN s = 1..Len(s) /\ DOMAIN q = 1..Len(q)
  BY LenProperties
<1>2. /\ s \o q \in Seq(Nat) /\ Len(s \o q) = Len(s) + Len(q)
      /\ \A i \in 1..(Len(s) + Len(q)) : (s \o q)[i] = IF i <= Len(s) THEN s[i] ELSE q[i - Len(s)]
  BY ConcatProperties
<1>3. DOMAIN (s \o q) = 1..(Len(s) + Len(q))
  BY <1>2, LenProperties
<1>4. ASSUME NEW i \in 1..Len(q) PROVE (s \o q)[Len(s) + i] = q[i]
  <2>1. Len(s) + i \in 1..(Len(s) + Len(q)) /\ ~(Len(s) + i <= Len(s)) /\ Len(s) + i - Len(s) = i
    BY <1>1
  <2> QED
    BY <1>2, <2>1
<1>5. ASSUME NEW i \in 1..Len(s) PROVE (s \o q)[i] = s[i]
  <2>1. i \in 1..(Len(s) + Len(q)) /\ i <= Len(s)
    BY <1>1
  <2> QED
    BY <1>2, <2>1
<1> QED
  BY <1>1, <1>3, <1>4, <1>5

LEMMA OrderOfParts ==
  ASSUME NEW s \in Seq(Nat), NEW q \in Seq(Nat)
  PROVE  Increasing(s \o q) <=> Before(s, q)
<1> DEFINE p == s \o q
           a == Len(s)
           b == Len(q)
<1>1. /\ a \in Nat /\ DOMAIN s = 1..a /\ b \in Nat /\ DOMAIN q = 1..b
      /\ DOMAIN p = 1..(a + b)
      /\ \A i \in 1..a : p[i] = s[i]
      /\ \A i \in 1..b : p[a + i] = q[i]
  BY PlacesOfParts
<1> HIDE DEF p, a, b
<1>2. /\ \A i \in 1..a : i \in 1..(a + b)
      /\ \A i \in 1..b : a + i \in 1..(a + b)
  BY <1>1
<1>3. ASSUME Increasing(p) PROVE Before(s, q)
  <2>1. Increasing(s)
    BY <1>1, <1>2, <1>3 DEF Increasing
  <2>2. ASSUME NEW i \in 1..b, NEW j \in 1..b, i < j PROVE q[i] < q[j]
    <3>1. a + i < a + j
      BY <1>1, <2>2
    <3>2. p[a + i] < p[a + j]
      BY <1>1, <1>2, <1>3, <3>1 DEF Increasing
    <3> QED
      BY <1>1, <3>2
  <2>3. ASSUME NEW i \in 1..a, NEW j \in 1..b PROVE s[i] < q[j]
    <3>1. i < a + j
      BY <1>1
    <3>2. p[i] < p[a + j]
      BY <1>1, <1>2, <1>3, <3>1 DEF Increasing
    <3> QED
      BY <1>1, <3>2
  <2> QED
    BY <1>1, <2>1, <2>2, <2>3 DEF Before, Increasing
<1>4. ASSUME Before(s, q) PROVE Increasing(p)
  <2> SUFFICES ASSUME NEW i \in 1..(a + b), NEW j \in 1..(a + b), i < j PROVE p[i] < p[j]
    BY <1>1 DEF Increasing
  <2>1. \A k \in 1..(a + b) : k \in 1..a \/ (k - a \in 1..b /\ a + (k - a) = k)
    BY <1>1
  <2>2. CASE j \in 1..a
    <3>1. i \in 1..a
      BY <1>1, <2>2
    <3> QED
      BY <1>1, <1>4, <2>2, <3>1 DEF Before, Increasing
  <2>3. CASE j \notin 1..a /\ i \in 1..a
    <3>1. j - a \in 1..b /\ p[j] = q[j - a]
      <4>1. j - a \in 1..b /\ a + (j - a) = j
        BY <2>1, <2>3
      <4>2. p[a + (j - a)] = q[j - a]
        BY <1>1, <4>1
      <4> QED
        BY <4>1, <4>2
    <3>2. s[i] < q[j - a]
      BY <1>1, <1>4, <2>3, <3>1 DEF Before
    <3> QED
      BY <1>1, <2>3, <3>1, <3>2
  <2>4. CASE j \notin 1..a /\ i \notin 1..a
    <3>1. ASSUME NEW k \in {i, j} PROVE k - a \in 1..b /\ p[k] = q[k - a]
      <4>1. k - a \in 1..b /\ a + (k - a) = k
        BY <2>1, <2>4
      <4>2. p[a + (k - a)] = q[k - a]
        BY <1>1, <4>1
      <4> QED
        BY <4>1, <4>2
    <3>2. i - a \in 1..b /\ j - a \in 1..b /\ p[i] = q[i - a] /\ p[j] = q[j - a]
      BY <3>1
    <3>3. i - a < j - a
      BY <1>1
    <3>4. q[i - a] < q[j - a]
      BY <1>1, <1>4, <3>2, <3>3 DEF Before, Increasing
    <3> QED
      BY <3>2, <3>4
  <2> QED
    BY <2>2, <2>3, <2>4
<1> QED
  BY <1>3, <1>4 DEF p

(* What the layer drops from the front of a queue leaves the rest in order.*)
LEMMA HeadDropped ==
  ASSUME NEW s \in Seq(Nat), NEW q \in Seq(Nat), q # <<>>, Increasing(s \o q)
  PROVE  Increasing(s \o Tail(q))
<1>1. Tail(q) \in Seq(Nat) /\ Len(Tail(q)) = Len(q) - 1
      /\ \A i \in 1..Len(Tail(q)) : Tail(q)[i] = q[i + 1]
  BY HeadTailProperties
<1>2. Before(s, q)
  BY OrderOfParts
<1>3. Len(q) \in Nat /\ DOMAIN q = 1..Len(q) /\ DOMAIN Tail(q) = 1..Len(Tail(q))
  BY <1>1, LenProperties
<1>4. ASSUME NEW i \in DOMAIN Tail(q) PROVE i \in Nat /\ i + 1 \in DOMAIN q /\ Tail(q)[i] = q[i + 1]
  BY <1>1, <1>3
<1>5. Before(s, Tail(q))
  <2>1. ASSUME NEW i \in DOMAIN Tail(q), NEW j \in DOMAIN Tail(q), i < j
        PROVE  Tail(q)[i] < Tail(q)[j]
    <3>1. i + 1 < j + 1
      BY <1>4, <2>1
    <3> QED
      BY <1>2, <1>4, <3>1 DEF Before, Increasing
  <2> QED
    BY <1>2, <1>4, <2>1 DEF Before, Increasing
<1> QED
  BY <1>1, <1>5, OrderOfParts

-----------------------------------------------------------------------------
(* STEPS: every step of the program broadcasts one event, takes one event  *)
(* from a queue or leaves the layer alone.                                 *)

Kind == {"created", "updated", "chat"}

Sends(e) ==
  /\ e \in Event /\ e.change = Len(sent) + 1 /\ Len(sent) < MaxEvents
  /\ sent' = Append(sent, e) /\ Len(sent') = Len(sent) + 1
  /\ queue' = [c \in Conn |-> IF c \in members[e.to] /\ Len(queue[c]) < Capacity
                              THEN Append(queue[c], Len(sent) + 1) ELSE queue[c]]
  /\ missed' = [c \in Conn |-> missed[c] \/ (c \in members[e.to] /\ Len(queue[c]) >= Capacity)]
  /\ UNCHANGED <<members, state, client, shown, since, refused>>

(* A broadcast by one of the services is one event.                        *)
LEMMA NewsSent ==
  ASSUME TypeOK, NEW k \in Kind, NEW r \in Report, Becomes(GroupSend(Layer, News(k, r))),
         UNCHANGED <<members, state, client, shown, since, refused>>
  PROVE  Sends(News(k, r))
<1> DEFINE e == News(k, r)
<1>1. Len(sent) \in Nat /\ MaxEvents \in Nat /\ Capacity \in Nat
  BY LenProperties, DashboardsAssumption DEF TypeOK
<1>2. e.to \in Group /\ e.about = r /\ e.kind = k /\ e.change = Len(sent) + 1
  BY DEF News, Group, Kind
<1>3. sent' = Append(sent, e) /\ Len(sent') <= MaxEvents
  BY DEF Becomes, GroupSend, Layer
<1>4. Len(sent') = Len(sent) + 1
  BY <1>3 DEF TypeOK
<1>5. Len(sent) < MaxEvents /\ Len(sent) + 1 \in 1..MaxEvents
  BY <1>1, <1>3, <1>4
<1>6. e \in Event
  BY <1>5 DEF News, Event, Group, Kind
<1>7. /\ queue' = [c \in Conn |-> IF c \in members[e.to] /\ Len(queue[c]) < Capacity
                                  THEN Append(queue[c], Len(sent) + 1) ELSE queue[c]]
      /\ missed' = [c \in Conn |-> missed[c] \/
                                   (c \in members[e.to] /\ Len(queue[c]) >= Capacity)]
  BY DEF Becomes, GroupSend, Layer, Hear
<1> QED
  BY <1>2, <1>3, <1>4, <1>5, <1>6, <1>7 DEF Sends

(* So every step of the services sends one.                                *)
LEMMA BroadcastSends ==
  ASSUME TypeOK, Broadcast \/ Chat
  PROVE  \E e \in Event : Sends(e)
<1>1. CASE Broadcast
  <2>1. PICK r \in Report, k \in {"created", "updated"} : Becomes(GroupSend(Layer, News(k, r)))
    BY <1>1 DEF Broadcast
  <2>2. Sends(News(k, r))
    BY <1>1, <2>1, NewsSent DEF Broadcast, Kind
  <2> QED
    BY <2>2 DEF Sends
<1>2. CASE Chat
  <2>1. PICK r \in Report : Becomes(GroupSend(Layer, News("chat", r)))
    BY <1>2 DEF Chat
  <2>2. Sends(News("chat", r))
    BY <1>2, <2>1, NewsSent DEF Chat, Kind
  <2> QED
    BY <2>2 DEF Sends
<1> QED
  BY <1>1, <1>2

(* No frame passes: the nested serializers see nothing but the type.       *)
LEMMA FrameRefused ==
  ASSUME NEW c \in Conn, Frame(c)
  PROVE  /\ UNCHANGED <<sent, members, queue, state, client, shown, since, missed>>
         /\ refused' = refused \cup {c}
<1>1. \A k \in DOMAIN Required : ~Valid(k)
  BY DEF Valid, Required, Declared
<1> QED
  BY <1>1 DEF Frame, Becomes, Layer

-----------------------------------------------------------------------------
(* TYPES                                                                   *)

(* What a consumer does to itself alone.                                   *)
Moves(c) ==
  /\ state' \in [Conn -> {"new", "rejected", "joined", "ready", "open"} \cup Final]
  /\ members' \in [Group -> SUBSET Conn] /\ since' \in [Conn -> [Group -> 0..MaxEvents]]
  /\ UNCHANGED <<sent, queue, client, shown, missed, refused>>

(* connect() and disconnect() change groups and the consumer's own state.  *)
LEMMA ConsumerMoves ==
  ASSUME TypeOK, NEW c \in Conn, Connecting(c) \/ DisconnectRejected(c) \/ Disconnect(c)
  PROVE  Moves(c)
<1>1. Len(sent) \in 0..MaxEvents /\ client[c].asks \in Asked
  BY LenProperties, DashboardsAssumption DEF TypeOK, Visitor
<1>2. CASE Reject(c)
  BY <1>2 DEF Reject, Goto, Moves, TypeOK, Final, Left
<1>3. CASE JoinAll(c)
  BY <1>1, <1>3 DEF JoinAll, Join, Goto, Moves, TypeOK, Final, Left, Group
<1>4. CASE Stumble(c)
  BY <1>4 DEF Stumble, Goto, Moves, TypeOK, Final, Left
<1>5. CASE JoinReport(c)
  BY <1>1, <1>5 DEF JoinReport, CanAccess, Join, Goto, Moves, TypeOK, Final, Left, Group
<1>6. CASE SkipReport(c)
  BY <1>6 DEF SkipReport, Goto, Moves, TypeOK, Final, Left
<1>7. CASE Accept(c)
  BY <1>7 DEF Accept, Goto, Moves, TypeOK, Final, Left
<1>8. CASE DisconnectRejected(c)
  BY <1>8 DEF DisconnectRejected, Goto, Moves, TypeOK, Final, Left
<1>9. CASE Disconnect(c)
  BY <1>9 DEF Disconnect, Goto, Moves, TypeOK, Final, Left
<1> QED
  BY <1>2, <1>3, <1>4, <1>5, <1>6, <1>7, <1>8, <1>9 DEF Connecting

(* Queues and what was shown are sequences of numbers of broadcasts.       *)
LEMMA QueuesOf ==
  ASSUME TypeOK, NEW c \in Conn
  PROVE  /\ Len(sent) \in Nat
         /\ queue[c] \in Seq(1..Len(sent)) /\ shown[c] \in Seq(1..Len(sent))
         /\ queue[c] \in Seq(Nat) /\ shown[c] \in Seq(Nat)
         /\ Len(queue[c]) \in Nat
<1>1. Len(sent) \in Nat /\ 1..Len(sent) \subseteq Nat
  BY LenProperties DEF TypeOK
<1>2. queue[c] \in Seq(1..Len(sent)) /\ shown[c] \in Seq(1..Len(sent))
  BY DEF TypeOK
<1> QED
  BY <1>1, <1>2, SeqMonotonic, LenProperties

(* The types of the state, the bound of the queues and of the broadcasts.  *)
THEOREM TypeCorrect == Spec => []TypeOK
<1>1. Init => TypeOK
  <2> SUFFICES ASSUME Init PROVE TypeOK
    OBVIOUS
  <2>1. /\ sent = <<>> /\ Len(sent) = 0
        /\ queue = [c \in Conn |-> <<>>] /\ shown = [c \in Conn |-> <<>>]
        /\ <<>> \in Seq(1..Len(sent)) /\ <<>> \in Seq(Event) /\ Len(<<>>) = 0
    BY EmptySeq DEF Init
  <2> QED
    BY <2>1, DashboardsAssumption DEF Init, TypeOK
<1>2. TypeOK /\ [Next]_vars => TypeOK'
  <2> SUFFICES ASSUME TypeOK, [Next]_vars PROVE TypeOK'
    OBVIOUS
  <2>1. CASE Broadcast \/ Chat
    <3>1. PICK e \in Event : Sends(e)
      BY <2>1, BroadcastSends
    <3>2. sent' \in Seq(Event) /\ Len(sent') <= MaxEvents /\ Len(sent) \in Nat
      BY <3>1, AppendProperties, LenProperties, DashboardsAssumption DEF Sends, TypeOK
    <3>3. ASSUME NEW q \in Seq(1..Len(sent))
          PROVE  /\ q \in Seq(1..Len(sent')) /\ Append(q, Len(sent) + 1) \in Seq(1..Len(sent'))
                 /\ Len(q) \in Nat /\ Len(Append(q, Len(sent) + 1)) = Len(q) + 1
      <4>1. 1..Len(sent) \subseteq 1..Len(sent') /\ Len(sent) + 1 \in 1..Len(sent')
        BY <3>1, <3>2 DEF Sends
      <4>2. q \in Seq(1..Len(sent'))
        BY <4>1, SeqMonotonic
      <4> QED
        BY <4>1, <4>2, AppendProperties, LenProperties
    <3>4. queue' \in [Conn -> Seq(1..Len(sent'))]
      BY <3>1, <3>3 DEF Sends, TypeOK
    <3>5. ASSUME NEW c \in Conn PROVE Len(queue'[c]) <= Capacity
      <4>1. queue[c] \in Seq(1..Len(sent)) /\ Len(queue[c]) <= Capacity
        BY DEF TypeOK
      <4>2. Len(queue[c]) \in Nat /\ Len(Append(queue[c], Len(sent) + 1)) = Len(queue[c]) + 1
        BY <4>1, <3>3
      <4> QED
        BY <3>1, <4>1, <4>2, DashboardsAssumption DEF Sends
    <3>6. shown' \in [Conn -> Seq(1..Len(sent'))]
      BY <3>1, <3>3 DEF Sends, TypeOK
    <3>7. missed' \in [Conn -> BOOLEAN]
      BY <3>1 DEF Sends
    <3> QED
      BY <3>1, <3>2, <3>4, <3>5, <3>6, <3>7 DEF Sends, TypeOK
  <2>2. ASSUME NEW c \in Conn, Connecting(c) \/ DisconnectRejected(c) \/ Disconnect(c)
        PROVE  TypeOK'
    BY <2>2, ConsumerMoves DEF Moves, TypeOK
  <2>3. ASSUME NEW c \in Conn, Show(c)
        PROVE  TypeOK'
    <3>1. queue[c] # <<>> /\ queue[c] \in Seq(1..Len(sent)) /\ shown[c] \in Seq(1..Len(sent))
      BY <2>3 DEF Show, TypeOK
    <3>2. /\ Append(shown[c], Head(queue[c])) \in Seq(1..Len(sent))
          /\ Tail(queue[c]) \in Seq(1..Len(sent))
          /\ Len(Tail(queue[c])) = Len(queue[c]) - 1 /\ Len(queue[c]) \in Nat
      BY <3>1, HeadMoves, HeadTailProperties, LenProperties
    <3>3. \A d \in Conn : Len(queue'[d]) <= Capacity
      BY <2>3, <3>2, DashboardsAssumption DEF Show, TypeOK
    <3> QED
      BY <2>3, <3>2, <3>3 DEF Show, TypeOK
  <2>4. ASSUME NEW c \in Conn, Choke(c) \/ Expire(c)
        PROVE  TypeOK'
    <3>1. queue[c] # <<>> /\ queue[c] \in Seq(1..Len(sent))
      BY <2>4 DEF Choke, Expire, TypeOK
    <3>2. /\ Tail(queue[c]) \in Seq(1..Len(sent))
          /\ Len(Tail(queue[c])) = Len(queue[c]) - 1 /\ Len(queue[c]) \in Nat
      BY <3>1, HeadTailProperties, LenProperties
    <3>3. queue' = [queue EXCEPT ![c] = Tail(queue[c])]
          /\ UNCHANGED <<sent, client, shown, since, refused>>
      BY <2>4 DEF Choke, Expire
    <3>4. queue' \in [Conn -> Seq(1..Len(sent'))] /\ \A d \in Conn : Len(queue'[d]) <= Capacity
      BY <3>2, <3>3, DashboardsAssumption DEF TypeOK
    <3>5. /\ state' \in [Conn -> {"new", "rejected", "joined", "ready", "open"} \cup Final]
          /\ members' \in [Group -> SUBSET Conn] /\ missed' \in [Conn -> BOOLEAN]
      <4>1. CASE Choke(c)
        BY <4>1 DEF Choke, Goto, TypeOK, Final, Left
      <4>2. CASE Expire(c)
        BY <4>2 DEF Expire, TypeOK
      <4> QED
        BY <2>4, <4>1, <4>2
    <3> QED
      BY <3>3, <3>4, <3>5 DEF TypeOK
  <2>5. ASSUME NEW c \in Conn, Frame(c)
        PROVE  TypeOK'
    BY <2>5, FrameRefused DEF TypeOK
  <2>6. CASE UNCHANGED vars
    BY <2>6 DEF vars, TypeOK
  <2> QED
    BY <2>1, <2>2, <2>3, <2>4, <2>5, <2>6 DEF Next, Deliver, Quiet
<1> QED
  BY <1>1, <1>2, PTL DEF Spec

-----------------------------------------------------------------------------
(* GROUPS: a consumer is in the groups that its connect() has joined so far*)
(* and that it has not left; in the report's group only after the general  *)
(* one.                                                                    *)

Enrolled(c, g) ==
  /\ state[c] \notin {"new", "rejected"} \cup Left
  /\ g = "reports" \/ (g = client[c].asks /\ state[c] # "joined")
Grouped == \A c \in Conn, g \in Group : c \in members[g] => Enrolled(c, g)

LEMMA GroupedHolds == Spec => []Grouped
<1>1. Init => Grouped
  BY DEF Init, Grouped
<1>2. TypeOK /\ Grouped /\ [Next]_vars => Grouped'
  <2> SUFFICES ASSUME TypeOK, Grouped, [Next]_vars PROVE Grouped'
    OBVIOUS
  <2>1. CASE Broadcast \/ Chat
    <3>1. UNCHANGED <<members, state, client>>
      BY <2>1 DEF Broadcast, Chat
    <3> QED
      BY <3>1 DEF Grouped, Enrolled
  <2>2. ASSUME NEW c \in Conn, Connecting(c)
        PROVE  Grouped'
    <3>1. CASE Reject(c)
      BY <3>1 DEF Reject, Goto, Grouped, Enrolled, Left, TypeOK
    <3>2. CASE JoinAll(c)
      <4>1. /\ state[c] = "new" /\ client' = client
            /\ state' = [state EXCEPT ![c] = "joined"]
            /\ members' = [members EXCEPT !["reports"] = @ \cup {c}]
        BY <3>2 DEF JoinAll, Goto, Join
      <4> QED
        BY <4>1 DEF Grouped, Enrolled, Left, TypeOK
    <3>3. CASE Stumble(c)
      BY <3>3 DEF Stumble, Goto, Grouped, Enrolled, Left, TypeOK
    <3>4. CASE JoinReport(c)
      <4>1. /\ state[c] = "joined" /\ client' = client
            /\ state' = [state EXCEPT ![c] = "ready"]
            /\ members' = [members EXCEPT ![client[c].asks] = @ \cup {c}]
        BY <3>4 DEF JoinReport, Goto, Join
      <4> QED
        BY <4>1 DEF Grouped, Enrolled, Left, TypeOK
    <3>5. CASE SkipReport(c)
      BY <3>5 DEF SkipReport, Goto, Grouped, Enrolled, Left, TypeOK
    <3>6. CASE Accept(c)
      BY <3>6 DEF Accept, Goto, Grouped, Enrolled, Left, TypeOK
    <3> QED
      BY <2>2, <3>1, <3>2, <3>3, <3>4, <3>5, <3>6 DEF Connecting
  <2>3. ASSUME NEW c \in Conn, Deliver(c)
        PROVE  Grouped'
    BY <2>3 DEF Deliver, Show, Choke, Goto, Grouped, Enrolled, Left, TypeOK
  <2>4. ASSUME NEW c \in Conn, Frame(c)
        PROVE  Grouped'
    BY <2>4, FrameRefused DEF Grouped, Enrolled
  <2>5. ASSUME NEW c \in Conn, DisconnectRejected(c) \/ Disconnect(c)
        PROVE  Grouped'
    BY <2>5 DEF DisconnectRejected, Disconnect, Goto, Grouped, Enrolled, Left, TypeOK
  <2>6. ASSUME NEW c \in Conn, Expire(c)
        PROVE  Grouped'
    BY <2>6 DEF Expire, Grouped, Enrolled, Left, TypeOK
  <2>7. CASE UNCHANGED vars
    BY <2>7 DEF vars, Grouped, Enrolled
  <2> QED
    BY <2>1, <2>2, <2>3, <2>4, <2>5, <2>6, <2>7 DEF Next, Quiet
<1> QED
  BY <1>1, <1>2, TypeCorrect, PTL DEF Spec

(* A connection that was closed is in no group: disconnect() leaves every  *)
(* group that connect() can have joined.                                   *)
THEOREM GroupsLeft == Spec => []LeftMeansLeft
<1>1. Grouped => LeftMeansLeft
  BY DEF Grouped, Enrolled, LeftMeansLeft
<1> QED
  BY <1>1, GroupedHolds, PTL

-----------------------------------------------------------------------------
(* ORDER AND COMPLETENESS                                                  *)

(* The n-th broadcast tells of the n-th change: nothing is broadcast twice.*)
Numbered == \A n \in 1..Len(sent) : sent[n].change = n

(* Nobody joined in the future.                                            *)
SinceInv == \A c \in Conn, g \in Group : since[c][g] <= Len(sent)

(* What a client received and is about to receive is in order; a consumer  *)
(* that is new has nothing; one that lost nothing has all that it is owed. *)
PipeAt(c) ==
  /\ InOrder(c)
  /\ state[c] = "new" => Pipe(c) = <<>>
  /\ Live(c) /\ ~missed[c] => Range(Pipe(c)) = Owed(c)
PipeInv == Numbered /\ SinceInv /\ \A c \in Conn : PipeAt(c)

(* So is what was shown with what is queued.                               *)
LEMMA PipeOf ==
  ASSUME TypeOK, NEW c \in Conn
  PROVE  /\ Pipe(c) \in Seq(1..Len(sent)) /\ Pipe(c) \in Seq(Nat)
         /\ Range(Pipe(c)) \subseteq 1..Len(sent)
         /\ \A i \in DOMAIN Pipe(c) : Pipe(c)[i] \in 1..Len(sent)
<1>1. Pipe(c) \in Seq(1..Len(sent)) /\ Pipe(c) \in Seq(Nat)
  BY QueuesOf, ConcatProperties DEF Pipe
<1>2. \A i \in DOMAIN Pipe(c) : Pipe(c)[i] \in 1..Len(sent)
  BY <1>1, LenProperties, ElementOfSeq
<1>3. Range(Pipe(c)) \subseteq 1..Len(sent)
  BY <1>2 DEF Range
<1> QED
  BY <1>1, <1>2, <1>3

(* A consumer to which nothing happened.                                   *)
LEMMA PipeStays ==
  ASSUME PipeInv, NEW c \in Conn, sent' = sent, Pipe(c)' = Pipe(c),
         Live(c)' => (Live(c) /\ missed'[c] = missed[c]),
         state'[c] # "new" \/ state'[c] = state[c],
         Live(c)' => \A g \in Group : (c \in members'[g] <=> c \in members[g]) /\ since'[c][g] = since[c][g],
         \A n \in 1..Len(sent) : sent[n].to \in Group
  PROVE  PipeAt(c)'
<1>1. PipeAt(c)
  BY DEF PipeInv
<1>2. InOrder(c)' /\ (state'[c] = "new" => Pipe(c)' = <<>>)
  BY <1>1 DEF PipeAt, InOrder
<1>3. ASSUME Live(c)', ~missed'[c] PROVE Range(Pipe(c)') = Owed(c)'
  <2>1. Owed(c)' = Owed(c)
    BY <1>3 DEF Owed
  <2> QED
    BY <1>1, <1>3, <2>1 DEF PipeAt
<1> QED
  BY <1>2, <1>3 DEF PipeAt

(* A broadcast comes last in the pipe of whoever is in its group, has room *)
(* for it, and nobody else's.                                              *)
LEMMA BroadcastQueued ==
  ASSUME TypeOK, PipeInv, Grouped, NEW e \in Event, Sends(e), NEW c \in Conn
  PROVE  PipeAt(c)'
<1> DEFINE n == Len(sent) + 1
           hears == c \in members[e.to] /\ Len(queue[c]) < Capacity
<1>1. /\ PipeAt(c) /\ Len(sent) \in Nat /\ n \in Nat
      /\ shown[c] \in Seq(Nat) /\ queue[c] \in Seq(Nat) /\ Len(queue[c]) \in Nat
  BY QueuesOf DEF PipeInv
<1>2. Pipe(c)' = IF hears THEN shown[c] \o Append(queue[c], n) ELSE Pipe(c)
  BY DEF Sends, Pipe
<1>3. \A m \in Range(Pipe(c)) : m < n
  BY <1>1, PipeOf
<1>4. InOrder(c)'
  <2>1. CASE hears
    <3>1. Increasing(shown[c] \o queue[c]) /\ \A m \in Range(shown[c] \o queue[c]) : m < n
      BY <1>1, <1>3 DEF PipeAt, InOrder, Increasing, Pipe
    <3>2. Increasing(shown[c] \o Append(queue[c], n))
      BY <1>1, <3>1, QueuedLast
    <3> QED
      BY <1>2, <2>1, <3>2 DEF InOrder, Increasing
  <2>2. CASE ~hears
    BY <1>1, <1>2, <2>2 DEF PipeAt, InOrder
  <2> QED
    BY <2>1, <2>2
<1>5. ASSUME state'[c] = "new" PROVE Pipe(c)' = <<>>
  <2>1. state[c] = "new" /\ c \notin members[e.to]
    BY <1>5 DEF Sends, Grouped, Enrolled, Event, Group
  <2> QED
    BY <1>1, <1>2, <2>1 DEF PipeAt
<1>6. ASSUME Live(c)', ~missed'[c] PROVE Range(Pipe(c)') = Owed(c)'
  <2>1. /\ Live(c) /\ ~missed[c] /\ (c \in members[e.to] <=> hears)
    <3>1. Live(c) /\ ~missed[c] /\ ~(c \in members[e.to] /\ Len(queue[c]) >= Capacity)
      BY <1>6 DEF Sends, Live
    <3>2. Len(queue[c]) >= Capacity \/ Len(queue[c]) < Capacity
      BY <1>1, DashboardsAssumption
    <3> QED
      BY <3>1, <3>2
  <2>2. Range(Pipe(c)) = Owed(c)
    BY <1>1, <2>1 DEF PipeAt
  <2>3. Range(Pipe(c)') = IF hears THEN Range(Pipe(c)) \cup {n} ELSE Range(Pipe(c))
    <3>1. Range(shown[c] \o Append(queue[c], n)) = Range(Pipe(c)) \cup {n}
      BY <1>1, QueuedLast DEF Pipe
    <3> QED
      BY <1>2, <3>1
  <2>4. /\ Len(sent') = n /\ sent'[n] = e
        /\ \A m \in 1..Len(sent) : sent'[m] = sent[m]
    BY AppendProperties DEF Sends, TypeOK
  <2>5. since[c][e.to] < n
    <3>1. e.to \in Group /\ since[c][e.to] \in Nat
      BY DEF Event, Group, TypeOK
    <3> QED
      BY <1>1, <3>1 DEF PipeInv, SinceInv
  <2>6. Owed(c)' = IF hears THEN Owed(c) \cup {n} ELSE Owed(c)
    <3>1. 1..Len(sent') = 1..Len(sent) \cup {n} /\ n \notin 1..Len(sent)
      BY <1>1, <2>4
    <3>2. members' = members /\ since' = since
      BY DEF Sends
    <3>3. \A m \in 1..Len(sent) : m \in Owed(c)' <=> m \in Owed(c)
      BY <2>4, <3>1, <3>2 DEF Owed
    <3>4. n \in Owed(c)' <=> hears
      BY <1>1, <2>1, <2>4, <2>5, <3>1, <3>2 DEF Owed
    <3>5. Owed(c) \subseteq 1..Len(sent) /\ Owed(c)' \subseteq 1..Len(sent')
      BY DEF Owed
    <3>6. \A m \in 1..Len(sent') : m \in Owed(c)' <=> (m \in Owed(c) \/ (hears /\ m = n))
      BY <3>1, <3>3, <3>4, <3>5
    <3> QED
      BY <3>1, <3>5, <3>6
  <2> QED
    BY <2>2, <2>3, <2>6
<1> QED
  BY <1>4, <1>5, <1>6 DEF PipeAt

(* A consumer that joins a group is owed what is broadcast from then on.   *)
LEMMA JoinerComplete ==
  ASSUME TypeOK, PipeInv, NEW c \in Conn, NEW g \in Group, Join(c, g),
         c \notin members[g], missed' = missed, sent' = sent, Pipe(c)' = Pipe(c),
         state'[c] # "new", Live(c) \/ (Pipe(c) = <<>> /\ \A h \in Group : c \notin members[h])
  PROVE  PipeAt(c)'
<1>1. PipeAt(c) /\ Len(sent) \in Nat
  BY QueuesOf DEF PipeInv
<1>2. InOrder(c)'
  BY <1>1 DEF PipeAt, InOrder
<1>3. ASSUME ~missed'[c] PROVE Range(Pipe(c)') = Owed(c)'
  <2>1. /\ \A h \in Group : c \in members'[h] <=> (c \in members[h] \/ h = g)
        /\ since'[c][g] = Len(sent) /\ \A h \in Group \ {g} : since'[c][h] = since[c][h]
    BY DEF Join, TypeOK
  <2>2. ASSUME NEW n \in 1..Len(sent)
        PROVE  sent[n].to \in Group /\ ~(n > Len(sent))
    <3>1. sent[n] \in Event
      BY ElementOfSeq DEF TypeOK
    <3> QED
      BY <1>1, <3>1 DEF Event, Group
  <2>3. ASSUME NEW n \in 1..Len(sent)
        PROVE  (c \in members'[sent[n].to] /\ n > since'[c][sent[n].to])
                 <=> (c \in members[sent[n].to] /\ n > since[c][sent[n].to])
    <3>1. CASE sent[n].to = g
      BY <2>1, <2>2, <3>1
    <3>2. CASE sent[n].to # g
      BY <2>1, <2>2, <3>2
    <3> QED
      BY <3>1, <3>2
  <2>4. Owed(c)' = Owed(c)
    BY <2>3 DEF Owed
  <2>5. CASE Live(c)
    BY <1>1, <1>3, <2>4, <2>5 DEF PipeAt
  <2>6. CASE ~Live(c)
    <3>1. Owed(c) = {}
      BY <2>2, <2>6 DEF Owed
    <3>2. Range(Pipe(c)) = {}
      BY <2>6, EmptySeq DEF Range
    <3> QED
      BY <2>4, <3>1, <3>2
  <2> QED
    BY <2>5, <2>6
<1> QED
  BY <1>2, <1>3 DEF PipeAt

LEMMA PipeInvHolds == Spec => []PipeInv
<1>1. Init => PipeInv
  <2> SUFFICES ASSUME Init PROVE PipeInv
    OBVIOUS
  <2>1. sent = <<>> /\ Len(sent) = 0
    BY EmptySeq DEF Init
  <2>2. Numbered /\ SinceInv
    BY <2>1 DEF Init, Numbered, SinceInv
  <2>3. ASSUME NEW c \in Conn PROVE PipeAt(c)
    <3>1. Pipe(c) = <<>> /\ state[c] = "new" /\ DOMAIN Pipe(c) = {}
      <4>1. <<>> \in Seq(Nat) /\ <<>> \o <<>> = <<>>
        BY EmptySeq, ConcatEmptySeq
      <4> QED
        BY <4>1 DEF Init, Pipe
    <3> QED
      BY <3>1 DEF PipeAt, InOrder, Live
  <2> QED
    BY <2>2, <2>3 DEF PipeInv
<1>2. TypeOK /\ TypeOK' /\ Grouped /\ PipeInv /\ [Next]_vars => PipeInv'
  <2> SUFFICES ASSUME TypeOK, TypeOK', Grouped, PipeInv, [Next]_vars PROVE PipeInv'
    OBVIOUS
  <2>0. \A n \in 1..Len(sent) : sent[n].to \in Group
    <3>1. \A n \in 1..Len(sent) : sent[n] \in Event
      BY ElementOfSeq DEF TypeOK
    <3> QED
      BY <3>1 DEF Event, Group
  <2>1. CASE Broadcast \/ Chat
    <3>1. PICK e \in Event : Sends(e)
      BY <2>1, BroadcastSends
    <3>2. \A c \in Conn : PipeAt(c)'
      BY <3>1, BroadcastQueued
    <3>3. /\ Len(sent) \in Nat /\ Len(sent') = Len(sent) + 1 /\ sent'[Len(sent) + 1] = e
          /\ \A n \in 1..Len(sent) : sent'[n] = sent[n]
      BY <3>1, AppendProperties, LenProperties DEF Sends, TypeOK
    <3>4. ASSUME NEW n \in 1..Len(sent') PROVE sent'[n].change = n
      <4>1. n \in 1..Len(sent) \/ n = Len(sent) + 1
        BY <3>3
      <4> QED
        BY <3>1, <3>3, <4>1 DEF PipeInv, Numbered, Sends
    <3>5. ASSUME NEW c \in Conn, NEW g \in Group PROVE since'[c][g] <= Len(sent')
      <4>1. since[c][g] \in Nat /\ since[c][g] <= Len(sent) /\ since' = since
        BY <3>1 DEF TypeOK, PipeInv, SinceInv, Sends
      <4> QED
        BY <3>3, <4>1
    <3> QED
      BY <3>2, <3>4, <3>5 DEF PipeInv, Numbered, SinceInv
  <2>2. ASSUME NEW c \in Conn, Reject(c) \/ Stumble(c) \/ SkipReport(c) \/ Accept(c)
                               \/ DisconnectRejected(c) \/ Disconnect(c)
        PROVE  PipeInv'
    <3>1. UNCHANGED <<sent, queue, shown, since, missed>>
      BY <2>2 DEF Reject, Stumble, SkipReport, Accept, DisconnectRejected, Disconnect
    <3>2. /\ \A d \in Conn : Live(d)' => Live(d)
          /\ \A d \in Conn : state'[d] # "new" \/ state'[d] = state[d]
          /\ \A d \in Conn, g \in Group : Live(d)' => (d \in members'[g] <=> d \in members[g])
      <4>1. CASE Reject(c)
        BY <4>1 DEF Reject, Goto, Live, TypeOK
      <4>2. CASE Stumble(c)
        BY <4>2 DEF Stumble, Goto, Live, TypeOK
      <4>3. CASE SkipReport(c)
        BY <4>3 DEF SkipReport, Goto, Live, TypeOK
      <4>4. CASE Accept(c)
        BY <4>4 DEF Accept, Goto, Live, TypeOK
      <4>5. CASE DisconnectRejected(c)
        BY <4>5 DEF DisconnectRejected, Goto, Live, TypeOK
      <4>6. CASE Disconnect(c)
        BY <4>6 DEF Disconnect, Goto, Live, TypeOK
      <4> QED
        BY <2>2, <4>1, <4>2, <4>3, <4>4, <4>5, <4>6
    <3>3. ASSUME NEW d \in Conn PROVE PipeAt(d)'
      <4>1. Pipe(d)' = Pipe(d)
        BY <3>1 DEF Pipe
      <4> QED
        BY <2>0, <3>1, <3>2, <4>1, PipeStays
    <3> QED
      BY <3>1, <3>3 DEF PipeInv, Numbered, SinceInv
  <2>3. ASSUME NEW c \in Conn, JoinAll(c) \/ JoinReport(c)
        PROVE  PipeInv'
    <3>1. UNCHANGED <<sent, queue, client, shown, missed>>
      BY <2>3 DEF JoinAll, JoinReport
    <3>2. \A d \in Conn : Pipe(d)' = Pipe(d)
      BY <3>1 DEF Pipe
    <3>3. PICK g \in Group :
            /\ Join(c, g) /\ c \notin members[g] /\ state'[c] # "new"
            /\ Live(c) \/ (Pipe(c) = <<>> /\ \A h \in Group : c \notin members[h])
            /\ \A d \in Conn \ {c} : state'[d] = state[d]
      <4>1. CASE JoinAll(c)
        <5>1. /\ "reports" \in Group /\ Join(c, "reports") /\ state[c] = "new"
              /\ state' = [state EXCEPT ![c] = "joined"]
          BY <4>1 DEF JoinAll, Goto, Group
        <5>2. Pipe(c) = <<>> /\ \A h \in Group : c \notin members[h]
          BY <5>1 DEF Grouped, Enrolled, PipeInv, PipeAt
        <5> QED
          BY <5>1, <5>2 DEF TypeOK
      <4>2. CASE JoinReport(c)
        <5>1. /\ client[c].asks \in Report \cup Variant /\ Join(c, client[c].asks)
              /\ state[c] = "joined"
              /\ state' = [state EXCEPT ![c] = "ready"]
          BY <4>2 DEF JoinReport, CanAccess, Goto
        <5>2. c \notin members[client[c].asks] /\ client[c].asks \in Group /\ Live(c)
          BY <5>1, DashboardsAssumption DEF Grouped, Enrolled, Live, Group
        <5> QED
          BY <5>1, <5>2 DEF TypeOK
      <4> QED
        BY <2>3, <4>1, <4>2
    <3>4. PipeAt(c)'
      BY <3>1, <3>2, <3>3, JoinerComplete
    <3>5. ASSUME NEW d \in Conn, d # c PROVE PipeAt(d)'
      <4>1. \A h \in Group : (d \in members'[h] <=> d \in members[h]) /\ since'[d][h] = since[d][h]
        BY <3>3, <3>5 DEF Join, TypeOK
      <4>2. state'[d] = state[d] /\ (Live(d)' <=> Live(d)) /\ missed'[d] = missed[d]
        BY <3>1, <3>3, <3>5 DEF Live
      <4> QED
        BY <2>0, <3>1, <3>2, <4>1, <4>2, PipeStays
    <3>6. ASSUME NEW d \in Conn, NEW h \in Group PROVE since'[d][h] <= Len(sent')
      <4>1. Len(sent) \in Nat /\ since[d][h] <= Len(sent)
        BY QueuesOf DEF PipeInv, SinceInv
      <4> QED
        BY <3>1, <3>3, <4>1 DEF Join, TypeOK
    <3> QED
      BY <3>1, <3>4, <3>5, <3>6 DEF PipeInv, Numbered, SinceInv
  <2>4. ASSUME NEW c \in Conn, Show(c)
        PROVE  PipeInv'
    <3>1. /\ UNCHANGED <<sent, members, state, client, since, missed>> /\ queue[c] # <<>>
          /\ shown' = [shown EXCEPT ![c] = Append(@, Head(queue[c]))]
          /\ queue' = [queue EXCEPT ![c] = Tail(@)]
      BY <2>4 DEF Show
    <3>2. ASSUME NEW d \in Conn PROVE Pipe(d)' = Pipe(d)
      <4>1. CASE d = c
        <5>1. queue'[c] = Tail(queue[c]) /\ shown'[c] = Append(shown[c], Head(queue[c]))
          BY <3>1 DEF TypeOK
        <5> QED
          <6>1. shown[c] \in Seq(Nat) /\ queue[c] \in Seq(Nat)
            BY QueuesOf
          <6>2. Append(shown[c], Head(queue[c])) \o Tail(queue[c]) = shown[c] \o queue[c]
            BY <3>1, <6>1, HeadMoves
          <6>3. Pipe(c)' = Pipe(c)
            BY <5>1, <6>2 DEF Pipe
          <6> QED
            BY <4>1, <6>3
      <4>2. CASE d # c
        BY <3>1, <4>2 DEF Pipe, TypeOK
      <4> QED
        BY <4>1, <4>2
    <3>3. ASSUME NEW d \in Conn PROVE PipeAt(d)'
      BY <2>0, <3>1, <3>2, PipeStays DEF Live
    <3> QED
      BY <3>1, <3>3 DEF PipeInv, Numbered, SinceInv
  <2>5. ASSUME NEW c \in Conn, Choke(c) \/ Expire(c)
        PROVE  PipeInv'
    <3>1. /\ UNCHANGED <<sent, client, shown, since>> /\ queue[c] # <<>>
          /\ queue' = [queue EXCEPT ![c] = Tail(@)]
          /\ \A d \in Conn \ {c} : state'[d] = state[d] /\ missed'[d] = missed[d]
          /\ \A d \in Conn \ {c}, g \in Group : d \in members'[g] <=> d \in members[g]
      BY <2>5 DEF Choke, Expire, Goto, TypeOK
    <3>2. ASSUME NEW d \in Conn, d # c PROVE PipeAt(d)'
      <4>1. Pipe(d)' = Pipe(d) /\ (Live(d)' <=> Live(d))
        BY <3>1, <3>2 DEF Pipe, Live, TypeOK
      <4> QED
        BY <2>0, <3>1, <3>2, <4>1, PipeStays
    <3>3. PipeAt(c)'
      <4>1. Pipe(c)' = shown[c] \o Tail(queue[c])
        BY <3>1 DEF Pipe, TypeOK
      <4>2. Increasing(shown[c] \o queue[c])
        BY DEF PipeInv, PipeAt, InOrder, Increasing, Pipe
      <4>3. Increasing(shown[c] \o Tail(queue[c]))
        BY <3>1, <4>2, QueuesOf, HeadDropped
      <4>4. InOrder(c)'
        BY <4>1, <4>3 DEF InOrder, Increasing
      <4>5. Pipe(c) # <<>>
        <5>1. shown[c] \in Seq(Nat) /\ queue[c] \in Seq(Nat)
          BY QueuesOf
        <5>2. shown[c] \o queue[c] = <<>> => queue[c] = <<>>
          BY <5>1, ConcatEqualIffEmpty
        <5> QED
          BY <3>1, <5>2 DEF Pipe
      <4>6. state[c] # "new"
        BY <4>5 DEF PipeInv, PipeAt
      <4>7. state'[c] # "new" /\ ~(Live(c)' /\ ~missed'[c])
        BY <2>5, <4>6 DEF Choke, Expire, Goto, Live, TypeOK
      <4> QED
        BY <4>4, <4>7 DEF PipeAt
    <3> QED
      BY <3>1, <3>2, <3>3 DEF PipeInv, Numbered, SinceInv
  <2>6. CASE (\E c \in Conn : Frame(c)) \/ UNCHANGED vars
    <3>1. UNCHANGED <<sent, members, queue, state, client, shown, since, missed>>
      BY <2>6, FrameRefused DEF vars
    <3>2. ASSUME NEW d \in Conn PROVE PipeAt(d)'
      BY <2>0, <3>1, PipeStays DEF Pipe, Live
    <3> QED
      BY <3>1, <3>2 DEF PipeInv, Numbered, SinceInv
  <2> QED
    BY <2>1, <2>2, <2>3, <2>4, <2>5, <2>6 DEF Next, Connecting, Deliver, Quiet
<1> QED
  BY <1>1, <1>2, TypeCorrect, GroupedHolds, PTL DEF Spec

(* A dashboard is never told twice of the same change, whatever frames the *)
(* clients send: receive() would broadcast a status change three times, but*)
(* none of its frames is valid.                                            *)
THEOREM ToldAtMostOnce == Spec => []ToldOnce
<1>1. TypeOK /\ PipeInv => ToldOnce
  <2> SUFFICES ASSUME TypeOK, PipeInv, NEW c \in Conn,
                      NEW i \in DOMAIN Pipe(c), NEW j \in DOMAIN Pipe(c), i # j
               PROVE  sent[Pipe(c)[i]].change # sent[Pipe(c)[j]].change
    BY DEF ToldOnce
  <2>1. i \in Nat /\ j \in Nat
    BY PipeOf, LenProperties
  <2>2. Pipe(c)[i] \in 1..Len(sent) /\ Pipe(c)[j] \in 1..Len(sent) /\ Len(sent) \in Nat
    BY PipeOf, QueuesOf
  <2>3. Pipe(c)[i] < Pipe(c)[j] \/ Pipe(c)[j] < Pipe(c)[i]
    <3>1. i < j \/ j < i
      BY <2>1
    <3> QED
      BY <3>1 DEF PipeInv, PipeAt, InOrder
  <2>4. Pipe(c)[i] # Pipe(c)[j]
    BY <2>2, <2>3
  <2> QED
    BY <2>2, <2>4 DEF PipeInv, Numbered
<1> QED
  BY <1>1, TypeCorrect, PipeInvHolds, PTL

(* From the moment a dashboard joins a group, before it is accepted and    *)
(* while its connect() goes on, every broadcast to the group reaches it or *)
(* is on its way, once and in order, unless the layer dropped something.   *)
THEOREM EverythingArrives == Spec => []NothingMissed
<1>1. PipeInv => NothingMissed
  BY DEF PipeInv, PipeAt, NothingMissed
<1> QED
  BY <1>1, PipeInvHolds, PTL
=============================================================================
