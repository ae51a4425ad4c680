------------------------------ MODULE Dashboards ------------------------------
(***************************************************************************)
(* WebSocket dashboards: ReportConsumer (apps/notifications/consumers.py)  *)
(* on the in-memory channel layer, and the broadcasts that                 *)
(* NotificationService and MessageService send through it.                 *)
(*                                                                         *)
(* Every connection has a consumer, which handles one thing at a time: its *)
(* connect() with all its awaits, then, in any order the two queues give,  *)
(* events of the channel layer, frames of the client and its departure.    *)
(* An exception that no handler catches ends the consumer WITHOUT running  *)
(* disconnect().                                                           *)
(*                                                                         *)
(* The channel layer (groups, bounded queues that drop, messages that      *)
(* expire) and the consumer's dispatch loop are library code, modelled from*)
(* how this program uses them.                                             *)
(***************************************************************************)
EXTENDS Naturals, Sequences, Functions

CONSTANTS
  Conn,       \* the connections that clients open
  Report,     \* the reports that exist
  Assigned,   \* the reports that have an officer
  NoReport,   \* no report_id in the query string
  Variant,    \* report_ids of reports, spelled otherwise than str(report.id)
  Unknown,    \* a report_id that is a UUID of no report
  Malformed,  \* a report_id that is no UUID, or cannot be part of a group's name
  Client,     \* the roles and report_ids that connections come with
  Capacity,   \* of a channel's queue (100 in the library)
  MaxEvents   \* bound: broadcasts that are made

Role == {"security", "ict_admin", "management", "system_admin", "student", "staff"}
Watcher == {"security", "ict_admin", "management"}

Asked == Report \cup Variant \cup {NoReport, Unknown, Malformed}
Visitor == [role : Role, asks : Asked]

ASSUME DashboardsAssumption ==
  /\ Assigned \subseteq Report
  /\ {NoReport, Unknown, Malformed, "reports"} \cap (Report \cup Variant) = {}
  /\ Client \subseteq Visitor
  /\ Capacity \in Nat \ {0} /\ MaxEvents \in Nat

VARIABLES
  sent,     \* every event that was broadcast, in order
  members,  \* the channel layer's groups: "reports" and one per report_id
  queue,    \* the channel layer's queue of each consumer
  state,    \* where each consumer is
  client,   \* the role in its token and the report_id of its query string
  shown,    \* the numbers of the events its client received
  since,    \* history: broadcasts before the join of each of its groups
  missed,   \* history: the layer dropped something for it
  refused   \* history: connections that had a well-formed frame refused

vars == <<sent, members, queue, state, client, shown, since, missed, refused>>

-----------------------------------------------------------------------------
(* An event goes to a group, and tells of one change to a report.  The name*)
(* of a report's group has its id as the client spelled it when he joins,  *)
(* and as str() spells it when somebody sends.                             *)
Group == {"reports"} \cup Report \cup Variant
Event == [to : {"reports"} \cup Report, about : Report, kind : {"created", "updated", "chat"},
          change : 1..MaxEvents]
News(k, r) == [to |-> IF k = "chat" THEN r ELSE "reports", about |-> r, kind |-> k,
               change |-> Len(sent) + 1]

Left  == {"closed", "raised"}  \* disconnect() was called
Final == Left \cup {"died"}

Init ==
  /\ sent = <<>>
  /\ members = [g \in Group |-> {}]
  /\ queue = [c \in Conn |-> <<>>]
  /\ state = [c \in Conn |-> "new"]
  /\ client \in [Conn -> Client]
  /\ shown = [c \in Conn |-> <<>>]
  /\ since = [c \in Conn |-> [g \in Group |-> 0]]
  /\ missed = [c \in Conn |-> FALSE]
  /\ refused = {}

Goto(c, from, to) == state[c] = from /\ state' = [state EXCEPT ![c] = to]
Join(c, g) ==
  /\ members' = [members EXCEPT ![g] = @ \cup {c}]
  /\ since' = [since EXCEPT ![c][g] = Len(sent)]

(* group_send: to every member whose queue has room; ChannelFull is        *)
(* swallowed.                                                              *)
HearAlways(q, n) == Append(q, n)  \* fault: an unbounded queue
Hear(q, n) == IF Len(q) < Capacity THEN Append(q, n) ELSE q
Layer == [sent |-> sent, queue |-> queue, missed |-> missed]
GroupSend(L, e) ==
  [sent |-> Append(L.sent, e),
   queue |-> [c \in Conn |-> IF c \in members[e.to] THEN Hear(L.queue[c], Len(L.sent) + 1)
                             ELSE L.queue[c]],
   missed |-> [c \in Conn |-> L.missed[c] \/
                              (c \in members[e.to] /\ Len(L.queue[c]) >= Capacity)]]
Becomes(L) ==
  /\ Len(L.sent) <= MaxEvents
  /\ sent' = L.sent /\ queue' = L.queue /\ missed' = L.missed

-----------------------------------------------------------------------------
(* The services: a report was created or its status changed; a chat message*)
(* was stored (MessageService.send_message).                               *)
Broadcast ==
  /\ \E r \in Report, k \in {"created", "updated"} : Becomes(GroupSend(Layer, News(k, r)))
  /\ UNCHANGED <<members, state, client, shown, since, refused>>

Chat ==
  /\ \E r \in Report : Becomes(GroupSend(Layer, News("chat", r)))
  /\ UNCHANGED <<members, state, client, shown, since, refused>>

(* connect(): token and role, the general group, access to the report, its *)
(* group, accept().                                                        *)
Reject(c) ==
  /\ client[c].role \notin Watcher
  /\ Goto(c, "new", "rejected")
  /\ UNCHANGED <<sent, members, queue, client, shown, since, missed, refused>>

(* disconnect() of a rejected connection leaves the general group, where it*)
(* is not, and raises on report_groups, which connect() did not set.       *)
DisconnectRejected(c) ==
  /\ Goto(c, "rejected", "raised")
  /\ members' = [members EXCEPT !["reports"] = @ \ {c}]
  /\ UNCHANGED <<sent, queue, client, shown, since, missed, refused>>

JoinAll(c) ==
  /\ client[c].role \in Watcher
  /\ Goto(c, "new", "joined")
  /\ Join(c, "reports")
  /\ UNCHANGED <<sent, queue, client, shown, missed, refused>>

(* Report.objects.get raises ValidationError for what is no UUID, and only *)
(* DoesNotExist is caught; group_add raises for a name with the braces or  *)
(* colons that a UUID may be spelled with.                                 *)
Stumble(c) ==
  /\ client[c].asks = Malformed
  /\ Goto(c, "joined", "died")
  /\ UNCHANGED <<sent, members, queue, client, shown, since, missed, refused>>

(* Every role that gets here may access every report that exists.          *)
CanAccess(c) == client[c].asks \in Report \cup Variant

JoinReport(c) ==
  /\ CanAccess(c)
  /\ Goto(c, "joined", "ready")
  /\ Join(c, client[c].asks)
  /\ UNCHANGED <<sent, queue, client, shown, missed, refused>>

SkipReport(c) ==
  /\ client[c].asks \in {NoReport, Unknown}
  /\ Goto(c, "joined", "ready")
  /\ UNCHANGED <<sent, members, queue, client, shown, since, missed, refused>>

(* accept() follows whether or not a report was asked for.                 *)
AcceptFresh(c) ==  \* fault: events that came before are thrown away
  /\ Goto(c, "ready", "open")
  /\ queue' = [queue EXCEPT ![c] = <<>>]
  /\ UNCHANGED <<sent, members, client, shown, since, missed, refused>>
AcceptIndented(c) ==  \* fault: only connections that asked for a report
  /\ CanAccess(c)
  /\ Goto(c, "ready", "open")
  /\ UNCHANGED <<sent, members, queue, client, shown, since, missed, refused>>
Accept(c) ==
  /\ Goto(c, "ready", "open")
  /\ UNCHANGED <<sent, members, queue, client, shown, since, missed, refused>>

(* report_created, report_updated, chat_message: json.dumps of the event.  *)
(* The payload of a report with an officer holds a uuid.UUID, which        *)
(* json.dumps refuses.                                                     *)
Unserializable(e) == e.kind # "chat" /\ e.about \in Assigned

Show(c) ==
  /\ state[c] = "open" /\ queue[c] # <<>>
  /\ ~Unserializable(sent[Head(queue[c])])
  /\ shown' = [shown EXCEPT ![c] = Append(@, Head(queue[c]))]
  /\ queue' = [queue EXCEPT ![c] = Tail(@)]
  /\ UNCHANGED <<sent, members, state, client, since, missed, refused>>

Choke(c) ==
  /\ queue[c] # <<>>
  /\ Unserializable(sent[Head(queue[c])])
  /\ Goto(c, "open", "died")
  /\ queue' = [queue EXCEPT ![c] = Tail(@)]
  /\ UNCHANGED <<sent, members, client, shown, since, missed, refused>>

(* receive(): WebSocketMessageSerializer hands the nested serializer of the*)
(* frame's type only the fields it declares itself, which is "type".       *)
Required == [status_update |-> {"report_id", "status"},
             chat_message |-> {"report_id", "content"}]
DeclaredAll == {"type", "report_id", "status", "content"}  \* fault: it declares every field
Declared == {"type"}
Valid(k) == Required[k] \subseteq Declared

(* What a frame that passes would broadcast: update_status does, and       *)
(* receive() again to both groups; a chat message goes to its report.      *)
Echo(c, k, r) ==
  LET updated == News("updated", r)
  IN  IF k = "chat_message" THEN GroupSend(Layer, News("chat", r))
      ELSE IF client[c].role = "security"
           THEN GroupSend(GroupSend(GroupSend(Layer, updated), updated),
                          [updated EXCEPT !.to = r])
           ELSE Layer

Frame(c) ==
  /\ state[c] = "open"
  /\ \E k \in DOMAIN Required, r \in Report :
       /\ Becomes(IF Valid(k) THEN Echo(c, k, r) ELSE Layer)
       /\ refused' = IF Valid(k) THEN refused ELSE refused \cup {c}
  /\ UNCHANGED <<members, state, client, shown, since>>

(* The client goes away: disconnect() leaves the general group and the     *)
(* groups connect() remembered.                                            *)
DisconnectGeneral(c) ==  \* fault: the report's group is not left
  /\ Goto(c, "open", "closed")
  /\ members' = [members EXCEPT !["reports"] = @ \ {c}]
  /\ UNCHANGED <<sent, queue, client, shown, since, missed, refused>>
Disconnect(c) ==
  /\ Goto(c, "open", "closed")
  /\ members' = [g \in Group |-> IF g = "reports" \/ g = client[c].asks
                                 THEN members[g] \ {c} ELSE members[g]]
  /\ UNCHANGED <<sent, queue, client, shown, since, missed, refused>>

(* A message that nobody took for a minute: the layer drops it and takes   *)
(* its channel out of all groups.                                          *)
Expire(c) ==
  /\ queue[c] # <<>>
  /\ queue' = [queue EXCEPT ![c] = Tail(@)]
  /\ members' = [g \in Group |-> members[g] \ {c}]
  /\ missed' = [missed EXCEPT ![c] = TRUE]
  /\ UNCHANGED <<sent, state, client, shown, since, refused>>

Quiet == Len(sent) = MaxEvents /\ UNCHANGED vars

Connecting(c) ==
  Reject(c) \/ JoinAll(c) \/ Stumble(c) \/ JoinReport(c) \/ SkipReport(c) \/ Accept(c)
Deliver(c) == Show(c) \/ Choke(c)

Next ==
  \/ Broadcast \/ Chat
  \/ \E c \in Conn : Connecting(c) \/ Deliver(c) \/ Frame(c) \/ DisconnectRejected(c)
                     \/ Disconnect(c) \/ Expire(c)
  \/ Quiet

Spec == Init /\ [][Next]_vars

(* A consumer goes on with its connect() and with the events it has.       *)
FairSpec == Spec /\ \A c \in Conn : WF_vars(Connecting(c)) /\ WF_vars(Deliver(c))

-----------------------------------------------------------------------------
TypeOK ==
  /\ sent \in Seq(Event) /\ Len(sent) <= MaxEvents
  /\ members \in [Group -> SUBSET Conn]
  /\ queue \in [Conn -> Seq(1..Len(sent))] /\ \A c \in Conn : Len(queue[c]) <= Capacity
  /\ state \in [Conn -> {"new", "rejected", "joined", "ready", "open"} \cup Final]
  /\ client \in [Conn -> Client]
  /\ shown \in [Conn -> Seq(1..Len(sent))]
  /\ since \in [Conn -> [Group -> 0..MaxEvents]]
  /\ missed \in [Conn -> BOOLEAN]
  /\ refused \subseteq Conn

(* What a client has received and what is on its way to it.                *)
Pipe(c) == shown[c] \o queue[c]
Live(c) == state[c] \in {"joined", "ready", "open"}

(* A dashboard is told of a change once: the second broadcast that receive()*)
(* makes of a status change never happens, because its frames are refused. *)
ToldOnce ==
  \A c \in Conn : \A i, j \in DOMAIN Pipe(c) :
    i # j => sent[Pipe(c)[i]].change # sent[Pipe(c)[j]].change

(* From the moment it joins a group, also before it is accepted, a dashboard*)
(* gets every broadcast to the group, in order, unless the layer dropped    *)
(* something for it (a full queue, an expired message).                     *)
InOrder(c) == \A i, j \in DOMAIN Pipe(c) : i < j => Pipe(c)[i] < Pipe(c)[j]
Owed(c) == {n \in 1..Len(sent) : c \in members[sent[n].to] /\ n > since[c][sent[n].to]}
NothingMissed ==
  \A c \in Conn : (Live(c) /\ ~missed[c]) => (InOrder(c) /\ Range(Pipe(c)) = Owed(c))

(* Who left is in no group: nothing is queued for a client that is gone.   *)
LeftMeansLeft ==
  \A c \in Conn, g \in Group : state[c] \in Left => c \notin members[g]

(* What is queued for a dashboard, connected or still connecting, gets     *)
(* there, unless the connection ends or the layer drops it.                *)
QueuedIsShown ==
  \A c \in Conn, n \in 1..MaxEvents :
    (Live(c) /\ n \in Range(queue[c]))
      ~> (n \in Range(shown[c]) \/ state[c] \in Final \/ missed[c])

(* "Broadcast report updates to the general group (dashboard)": a broadcast*)
(* does not end the consumer that gets it.                                 *)
BroadcastsSurvived ==
  \A c \in Conn : client[c].asks # Malformed => state[c] # "died"

(* "Main schema for all inbound WebSocket messages": well-formed frames    *)
(* pass it.                                                                *)
FramesPass == refused = {}
=============================================================================
