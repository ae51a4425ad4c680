---------------------------- MODULE MCReportEdits ----------------------------
(* Small instances of ReportEdits for TLC.                                 *)
EXTENDS ReportEdits, TLC

CONSTANTS o1, o2, r1

(* One officer has a phone and an e-mail address, the other e-mail only.   *)
MCContact == [o \in Officer |-> IF o = o1 THEN {"sms", "email"} ELSE {"email"}]

(* One report was filed with an officer.                                   *)
MCChosen == [r \in Report |-> IF r = r1 THEN o1 ELSE Nobody]

(* Requests are interchangeable: each carries its own job.                 *)
RequestSymmetry == Permutations(Request)
=============================================================================
