--------------------------- MODULE MCReportIntake ---------------------------
(* Small instances of ReportIntake for TLC.                                *)
EXTENDS ReportIntake, TLC

CONSTANTS s1, s2, o1, k1

MCDepartment == {"Security", "Other"}
MCHead == [d \in Department |-> IF d = "Security" THEN o1 ELSE Nobody]
MCMember == [d \in Department |-> IF d = "Security" THEN {o1, s2} ELSE {}]

Plain == [user |-> s1, key |-> k1, category |-> "theft", custom |-> FALSE,
          officer |-> Nobody, live |-> TRUE, evidence |-> FALSE]

(* One key, no key or a blank one; live or sync; with or without officer;  *)
(* a category with a department, without one, and "other"; with a file.    *)
MCJob ==
  {Plain, [Plain EXCEPT !.live = FALSE], [Plain EXCEPT !.officer = o1],
   [Plain EXCEPT !.key = Blank, !.category = "fire", !.user = s2],
   [Plain EXCEPT !.key = NoKey, !.user = o1],
   [Plain EXCEPT !.key = NoKey, !.category = "other"],
   [Plain EXCEPT !.key = NoKey, !.category = "other", !.custom = TRUE],
   [Plain EXCEPT !.key = NoKey, !.evidence = TRUE]}

(* Live posts of one reporter, without a key.                              *)
QuotaJob == {[Plain EXCEPT !.key = NoKey]}

(* The same submission, sent again.                                        *)
RetryJob == {Plain}

AttemptSymmetry == Permutations(Attempt)
=============================================================================
