---------------------------- MODULE MCDashboards ----------------------------
(* Small instances of Dashboards for TLC.                                  *)
EXTENDS Dashboards

CONSTANTS r1, R1

(* Every kind of query string, a role of each kind of treatment; R1 is r1  *)
(* spelled in capitals.                                                    *)
MCClient ==
  {[role |-> "security", asks |-> a] : a \in {r1, NoReport, Malformed}}
  \cup {[role |-> "ict_admin", asks |-> r1], [role |-> "ict_admin", asks |-> R1], [role |-> "management", asks |-> Unknown],
        [role |-> "system_admin", asks |-> r1], [role |-> "student", asks |-> NoReport]}
=============================================================================
