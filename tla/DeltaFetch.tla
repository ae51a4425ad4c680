----------------------------- MODULE DeltaFetch -----------------------------
(***************************************************************************)
(* Delta fetch: ReportListView (apps/reports/views.py).                    *)
(*                                                                         *)
(* A client keeps a mirror of the reports and a cursor.  It asks for what  *)
(* has updated_at > cursor, gets it page by page in the order of updated_at*)
(* and continues from the X-Cursor header.  Each request for a page reads  *)
(* the database four times in autocommit (count, page, exists, latest), and*)
(* edits commit between the reads.  An edit stamps updated_at before its   *)
(* UPDATE and so before its commit: commits need not come in the order of  *)
(* their stamps, and a report's updated_at may go back (see ReportEdits).  *)
(***************************************************************************)
EXTENDS Naturals, FiniteSets

CONSTANTS
  Report,    \* the reports that exist or may be created
  Edit,      \* the creations and edits that are made
  Original,  \* the contents of a report that was there at the beginning
  Client,    \* the clients that fetch
  PageSize,  \* the page size, 20 unless the client chooses another
  MaxFetch   \* bound: fetches of each client

ASSUME DeltaAssumption ==
  /\ IsFiniteSet(Report)
  /\ Original \notin Edit
  /\ PageSize \in Nat \ {0} /\ MaxFetch \in Nat

VARIABLES
  clock,   \* timezone.now()
  row,     \* committed: updated_at (0: no such report) and who wrote it
  target,  \* the report of each edit
  stage,   \* of each edit
  stamp,   \* the updated_at of each edit
  pc,      \* of the fetch of each client
  number,  \* the number of the page it asks for
  count,   \* what its first query counted
  page,    \* the rows its second query returned
  cursor,  \* the X-Cursor a client continues from (0: it has none)
  mirror,  \* the contents a client has of each report
  fetches, \* how many times it asked
  lapped,  \* history: the clients whose fetch an edit overlapped
  cut      \* history: the clients that did not follow the pages to the end, or
           \* between whose pages something was committed

edits  == <<target, stage, stamp>>
client == <<pc, number, count, page, cursor, mirror, fetches>>
vars   == <<clock, row, edits, client, lapped, cut>>

Contents == Edit \cup {Original}

Init ==
  /\ clock = Cardinality(Report)
  /\ \E old \in SUBSET Report, at \in [Report -> 1..Cardinality(Report)] :
       /\ \A r, s \in Report : at[r] = at[s] => r = s
       /\ row = [r \in Report |-> [at |-> IF r \in old THEN at[r] ELSE 0, by |-> Original]]
  /\ target \in [Edit -> Report]
  /\ stage = [e \in Edit |-> "idle"]
  /\ stamp = [e \in Edit |-> 0]
  /\ pc = [c \in Client |-> "idle"]
  /\ number = [c \in Client |-> 1]
  /\ count = [c \in Client |-> 0]
  /\ page = [c \in Client |-> {}]
  /\ cursor = [c \in Client |-> 0]
  /\ mirror = [c \in Client |-> [r \in Report |-> Original]]
  /\ fetches = [c \in Client |-> 0]
  /\ lapped = [e \in Edit |-> {}]
  /\ cut = {}

-----------------------------------------------------------------------------
Exists(r) == row[r].at > 0
Fetching == {c \in Client : pc[c] # "idle"}
Open(e) == stage[e] = "stamped"
HasNext(c) == number[c] * PageSize < count[c]

(* Clients that have read a page and are going to read another.            *)
BetweenPages == {c \in Client : \/ pc[c] \in {"asked", "counted"} /\ number[c] > 1
                                \/ pc[c] \in {"paged", "some", "none"} /\ HasNext(c)}

(* A service stamps the instance of an existing report, or of a new one.   *)
Stamp(e) ==
  /\ stage[e] = "idle"
  /\ Exists(target[e]) \/ \A d \in Edit : target[d] = target[e] => stage[d] \in {"idle", "failed"}
  /\ clock' = clock + 1
  /\ stage' = [stage EXCEPT ![e] = "stamped"]
  /\ stamp' = [stamp EXCEPT ![e] = clock + 1]
  /\ lapped' = [lapped EXCEPT ![e] = Fetching]
  /\ UNCHANGED <<row, target, client, cut>>

CommitUndated(e) ==  \* fault: update_fields without 'updated_at'
  /\ Open(e)
  /\ stage' = [stage EXCEPT ![e] = "done"]
  /\ row' = [row EXCEPT ![target[e]] =
       [at |-> IF Exists(target[e]) THEN @.at ELSE stamp[e], by |-> e]]
  /\ cut' = cut \cup BetweenPages
  /\ UNCHANGED <<clock, target, stamp, client, lapped>>
Commit(e) ==
  /\ Open(e)
  /\ stage' = [stage EXCEPT ![e] = "done"]
  /\ row' = [row EXCEPT ![target[e]] = [at |-> stamp[e], by |-> e]]
  /\ cut' = cut \cup BetweenPages
  /\ UNCHANGED <<clock, target, stamp, client, lapped>>

Abort(e) ==
  /\ Open(e)
  /\ stage' = [stage EXCEPT ![e] = "failed"]
  /\ UNCHANGED <<clock, row, target, stamp, client, lapped, cut>>

-----------------------------------------------------------------------------
Goto(c, from, to) == pc[c] = from /\ pc' = [pc EXCEPT ![c] = to]

(* get_queryset: updated_at__gt=since; without "since" every report.       *)
Matching(c) == {r \in Report : row[r].at > cursor[c]}

Ask(c) ==
  /\ fetches[c] < MaxFetch
  /\ Goto(c, "idle", "asked")
  /\ fetches' = [fetches EXCEPT ![c] = @ + 1]
  /\ lapped' = [e \in Edit |-> lapped[e] \cup IF Open(e) THEN {c} ELSE {}]
  /\ UNCHANGED <<clock, row, edits, number, count, page, cursor, mirror, cut>>

(* The paginator counts, answers 404 if there is no such page any more, and*)
(* cuts its slice off at what it counted.                                  *)
Count(c) ==
  LET n == Cardinality(Matching(c)) IN
  /\ number[c] = 1 \/ (number[c] - 1) * PageSize < n
  /\ Goto(c, "asked", "counted")
  /\ count' = [count EXCEPT ![c] = n]
  /\ UNCHANGED <<clock, row, edits, number, page, cursor, mirror, fetches, lapped, cut>>

NoSuchPage(c) ==
  /\ number[c] > 1 /\ (number[c] - 1) * PageSize >= Cardinality(Matching(c))
  /\ Goto(c, "asked", "idle")
  /\ number' = [number EXCEPT ![c] = 1]
  /\ UNCHANGED <<clock, row, edits, count, page, cursor, mirror, fetches, lapped, cut>>

(* The place of a report in the order of updated_at.                       *)
Rank(c, r) == Cardinality({s \in Matching(c) : row[s].at < row[r].at})

SliceUnbounded(c) == Matching(c)  \* fault: the list is not paginated
Slice(c) ==
  {r \in Matching(c) : /\ (number[c] - 1) * PageSize <= Rank(c, r)
                       /\ Rank(c, r) < number[c] * PageSize /\ Rank(c, r) < count[c]}

ReadPage(c) ==
  /\ Goto(c, "counted", "paged")
  /\ page' = [page EXCEPT ![c] = {[report |-> r, by |-> row[r].by] : r \in Slice(c)}]
  /\ cut' = IF count[c] < Cardinality(Matching(c)) THEN cut \cup {c} ELSE cut
  /\ UNCHANGED <<clock, row, edits, number, count, cursor, mirror, fetches, lapped>>

(* list(): the queryset is built again, for exists() and for latest().     *)
SeeSome(c) ==
  /\ Matching(c) # {}
  /\ Goto(c, "paged", "some")
  /\ UNCHANGED <<clock, row, edits, number, count, page, cursor, mirror, fetches, lapped, cut>>

SeeNone(c) ==
  /\ Matching(c) = {}
  /\ Goto(c, "paged", "none")
  /\ UNCHANGED <<clock, row, edits, number, count, page, cursor, mirror, fetches, lapped, cut>>

(* The client takes the page over, and follows it to the next page or      *)
(* continues from the cursor.                                              *)
Answer(c, from, x) ==
  /\ mirror' = [mirror EXCEPT ![c] = [r \in Report |->
       IF \E p \in page[c] : p.report = r
       THEN (CHOOSE p \in page[c] : p.report = r).by ELSE @[r]]]
  /\ \/ /\ HasNext(c)
        /\ Goto(c, from, "asked")
        /\ number' = [number EXCEPT ![c] = @ + 1]
        /\ UNCHANGED <<cursor, cut>>
     \/ /\ Goto(c, from, "idle")
        /\ number' = [number EXCEPT ![c] = 1]
        /\ cursor' = [cursor EXCEPT ![c] = x]
        /\ cut' = IF HasNext(c) THEN cut \cup {c} ELSE cut
  /\ UNCHANGED <<clock, row, edits, count, page, fetches, lapped>>

(* X-Cursor without a matching report: timezone.now(), after exists().     *)
Now(c) == Answer(c, "none", clock)

LatestOfAll(c) ==  \* fault: the newest report, whatever "since" is
  \E r \in Report :
    /\ Exists(r) /\ \A s \in Report : row[s].at <= row[r].at
    /\ Answer(c, "some", row[r].at)
Latest(c) ==
  \E r \in Matching(c) :
    /\ \A s \in Matching(c) : row[s].at <= row[r].at
    /\ Answer(c, "some", row[r].at)

(* latest() raises DoesNotExist: the last matching report went back before *)
(* the cursor.  The client gets an error and changes nothing.              *)
LatestRaises(c) ==
  /\ Matching(c) = {}
  /\ Goto(c, "some", "idle")
  /\ number' = [number EXCEPT ![c] = 1]
  /\ UNCHANGED <<clock, row, edits, count, page, cursor, mirror, fetches, lapped, cut>>

Quiet ==
  /\ \A c \in Client : pc[c] = "idle" /\ fetches[c] = MaxFetch
  /\ UNCHANGED vars

Next ==
  \/ \E e \in Edit : Stamp(e) \/ Commit(e) \/ Abort(e)
  \/ \E c \in Client : Ask(c) \/ Count(c) \/ NoSuchPage(c) \/ ReadPage(c) \/ SeeSome(c)
                       \/ SeeNone(c) \/ Now(c) \/ Latest(c) \/ LatestRaises(c)
  \/ Quiet

Spec == Init /\ [][Next]_vars

-----------------------------------------------------------------------------
TypeOK ==
  /\ clock \in Nat
  /\ row \in [Report -> [at : Nat, by : Contents]]
  /\ target \in [Edit -> Report]
  /\ stage \in [Edit -> {"idle", "stamped", "done", "failed"}]
  /\ stamp \in [Edit -> Nat]
  /\ pc \in [Client -> {"idle", "asked", "counted", "paged", "some", "none"}]
  /\ number \in [Client -> Nat \ {0}]
  /\ count \in [Client -> Nat]
  /\ page \in [Client -> SUBSET [report : Report, by : Contents]]
  /\ \A c \in Client : Cardinality(page[c]) <= PageSize
  /\ cursor \in [Client -> Nat]
  /\ mirror \in [Client -> [Report -> Contents]]
  /\ fetches \in [Client -> 0..MaxFetch]
  /\ lapped \in [Edit -> SUBSET Client]
  /\ cut \subseteq Client

(* A client whose cursor has reached a change has the change, if the edit  *)
(* overlapped none of its fetches and the client followed the pages of each*)
(* to the end with nothing committed between them.  (Without either        *)
(* condition the change may be passed over for good: an edit moves its     *)
(* report to the last page and all others forward, past the reader.)       *)
QuietEditsArrive ==
  \A c \in Client \ cut, e \in Edit :
    ( /\ pc[c] = "idle"
      /\ stage[e] = "done" /\ row[target[e]].by = e
      /\ c \notin lapped[e]
      /\ stamp[e] <= cursor[c] )
    => mirror[c][target[e]] = e

(* A client's cursor never goes back, although updated_at may: nothing it  *)
(* already has is sent again because of an older cursor.                   *)
CursorNeverGoesBack == [][\A c \in Client : cursor'[c] >= cursor[c]]_vars
=============================================================================
