----------------------------- MODULE MCCaseFile -----------------------------
(* Small instances of CaseFile for TLC.                                    *)
EXTENDS CaseFile, TLC

CONSTANTS student, staff, officer, admin, system, dept, r1, r2, q1, q2, q3

MCRole == student :> "student" @@ staff :> "staff" @@ officer :> "security"
          @@ admin :> "ict_admin" @@ system :> "system_admin"
MCHead == [d \in Department |-> staff]
MCMember == [d \in Department |-> {officer}]
MCValues == [category |-> {"theft", "fire"}, urgency |-> {"normal", "high"},
              status |-> {"new", "resolved"}]

Anonymous == [anonymous |-> TRUE, identity |-> CreateIdentity(student), assigned |-> Nobody,
              department |-> Nobody, category |-> "theft", status |-> "new", urgency |-> "high"]
Named == [Anonymous EXCEPT !.anonymous = FALSE, !.category = "fire", !.assigned = officer,
                           !.department = dept]
MCFiling == {Anonymous, Named}

Ask(k, u) == [kind |-> k, user |-> u, report |-> r1, fit |-> TRUE]
Upload(u, fit) == [Ask("upload", u) EXCEPT !.fit = fit]
Plans(a, b, c) == {q1 :> x @@ q2 :> y @@ q3 :> z : x \in a, y \in b, z \in c}

(* Two messages and a reader of their thread; a message, an upload and a   *)
(* summary.                                                                *)
MCPlan ==
  Plans({Ask("post", student)}, {Ask("sync", student), Ask("sync", system)},
        {Ask("thread", student), Ask("thread", officer)})
  \cup
  Plans({Ask("post", staff)}, {Ask("post", officer)}, {Ask("thread", staff)})
  \cup
  Plans({Ask("sync", staff)}, {Upload(officer, TRUE), Upload(officer, FALSE), Upload(student, TRUE)},
        {Ask("summary", admin), Ask("summary", student)})
=============================================================================
