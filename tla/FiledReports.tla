---------------------------- MODULE FiledReports ----------------------------
(***************************************************************************)
(* What filing a report promises to somebody who reads the reports table:  *)
(* reports are filed one at a time and never vanish, and no two of them    *)
(* have the same idempotency key, unless they have none (NULL).  A blank   *)
(* key is a key.                                                           *)
(*                                                                         *)
(* Requests, transactions, validation, lookups and batches are not visible *)
(* here: ReportIntake and OfflineSync, the two ways to file a report, both *)
(* implement this specification.                                           *)
(***************************************************************************)
CONSTANT NoKey

VARIABLE filed  \* the committed reports, as pairs of a name and a key

Init == filed = {}

File(report, key) ==
  /\ \A f \in filed : f[1] # report /\ (f[2] = key => key = NoKey)
  /\ filed' = filed \cup {<<report, key>>}

Next == \E f \in filed' : File(f[1], f[2])

Spec == Init /\ [][Next]_filed
=============================================================================
