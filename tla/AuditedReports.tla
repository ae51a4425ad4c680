---------------------------- MODULE AuditedReports ----------------------------
(***************************************************************************)
(* What the edits of reports promise to somebody who reads the database:   *)
(* a report changes one field at a time, and in the same instant the audit *)
(* trail gains exactly one entry, the newest of that report and field,     *)
(* which names the value written and the request that wrote it.  A status  *)
(* change also leaves its Notification row.  No request takes effect       *)
(* twice, and nothing is ever removed.                                     *)
(*                                                                         *)
(* Workers, in-memory instances, row locks, announcements and failures are *)
(* not visible here: ReportEdits implements this specification.            *)
(***************************************************************************)
EXTENDS Naturals

CONSTANTS Report, Request, Status, New, Officer, Nobody

VARIABLES row, audit, notices

stored == <<row, audit, notices>>

Column == {"status", "assigned_to"}
Contents == Status \cup Officer \cup {Nobody}

Record == [report : Report, field : Column, before : Contents,
           after : Contents, at : Nat, by : Request]

(* What a report is filed with: any officer, or none.                      *)
Created == {[f \in Column |-> IF f = "status" THEN New ELSE o] : o \in Officer \cup {Nobody}}

Init ==
  /\ row \in [Report -> Created]
  /\ audit = {}
  /\ notices = {}

(* The change that the audit entry e records.                              *)
Change(e) ==
  /\ \A d \in audit : d.by # e.by
  /\ \A d \in audit : (d.report = e.report /\ d.field = e.field) => d.at < e.at
  /\ row' = [row EXCEPT ![e.report] = [@ EXCEPT ![e.field] = e.after]]
  /\ audit' = audit \cup {e}
  /\ notices' = IF e.field = "status" THEN notices \cup {e.by} ELSE notices

Next == \E e \in audit' : e \in Record /\ Change(e)

Spec == Init /\ [][Next]_stored
=============================================================================
