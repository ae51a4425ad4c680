-------------------------- MODULE DeltaFetchProofs --------------------------
(***************************************************************************)
(* Proofs about DeltaFetch, for any number of clients, reports, edits,     *)
(* fetches and any page size.                                              *)
(***************************************************************************)
EXTENDS DeltaFetch, FiniteSetTheorems, TLAPS

-----------------------------------------------------------------------------
(* PAGES                                                                   *)

(* A client's result can be counted, and so can what lies before a report. *)
LEMMA ResultFinite ==
  ASSUME NEW c
  PROVE  IsFiniteSet(Matching(c)) /\ Cardinality(Matching(c)) \in Nat
<1>1. Matching(c) \subseteq Report
  BY DEF Matching
<1> QED
  BY <1>1, DeltaAssumption, FS_Subset, FS_CardinalityType

(* Every report of a result has its place in it, and a later one a later   *)
(* place.                                                                  *)
LEMMA RankInResult ==
  ASSUME TypeOK, NEW c, NEW r \in Matching(c)
  PROVE  Rank(c, r) \in Nat /\ Rank(c, r) < Cardinality(Matching(c))
<1> DEFINE S == {s \in Matching(c) : row[s].at < row[r].at}
<1>1. S \subseteq Matching(c) /\ r \notin S
  BY DEF Matching, TypeOK
<1>2. Cardinality(S) \in Nat /\ Cardinality(S) <= Cardinality(Matching(c))
      /\ Cardinality(S) # Cardinality(Matching(c))
  BY <1>1, ResultFinite, FS_Subset, FS_CardinalityType
<1> QED
  BY <1>2, ResultFinite DEF Rank

LEMMA RankOrder ==
  ASSUME TypeOK, NEW c, NEW r \in Matching(c), NEW s \in Matching(c), row[r].at < row[s].at
  PROVE  Rank(c, r) < Rank(c, s)
<1> DEFINE R == {q \in Matching(c) : row[q].at < row[r].at}
           S == {q \in Matching(c) : row[q].at < row[s].at}
<1>1. row[r].at \in Nat /\ row[s].at \in Nat /\ \A q \in Matching(c) : row[q].at \in Nat
  BY DEF Matching, TypeOK
<1>2. R \subseteq S /\ r \in S /\ r \notin R /\ S \subseteq Matching(c)
  BY <1>1
<1>3. IsFiniteSet(S)
  BY <1>2, ResultFinite, FS_Subset
<1>4. Cardinality(R) \in Nat /\ Cardinality(S) \in Nat
  BY <1>2, <1>3, FS_Subset, FS_CardinalityType
<1>5. Cardinality(R) <= Cardinality(S) /\ Cardinality(R) # Cardinality(S)
  BY <1>2, <1>3, FS_Subset
<1> QED
  BY <1>4, <1>5 DEF Rank

(* Where pages begin and end.                                              *)
LEMMA PageEnds ==
  ASSUME NEW n \in Nat \ {0}
  PROVE  /\ (n - 1) * PageSize \in Nat /\ n * PageSize \in Nat
         /\ n * PageSize = (n - 1) * PageSize + PageSize
  BY DeltaAssumption

(* Different reports have different dates.                                 *)
Distinct == \A r, s \in Report : (Exists(r) /\ r # s) => row[r].at # row[s].at

(* Then no page has more than PageSize rows.                               *)
LEMMA PageFits ==
  ASSUME TypeOK, Distinct, NEW c \in Client
  PROVE  Cardinality({[report |-> r, by |-> row[r].by] : r \in Slice(c)}) <= PageSize
<1> DEFINE lo == (number[c] - 1) * PageSize
           hi == number[c] * PageSize
           f  == [r \in Slice(c) |-> Rank(c, r)]
           g  == [r \in Slice(c) |-> [report |-> r, by |-> row[r].by]]
           P  == {[report |-> r, by |-> row[r].by] : r \in Slice(c)}
<1>1. lo \in Nat /\ hi \in Nat /\ hi = lo + PageSize
  BY PageEnds DEF TypeOK
<1>2. \A r \in Slice(c) : r \in Matching(c) /\ r \in Report /\ Exists(r) /\ row[r].at \in Nat
  BY DEF Slice, Matching, TypeOK, Exists
<1>3. \A r \in Slice(c) : Rank(c, r) \in lo..(hi - 1)
  BY <1>1, <1>2, RankInResult DEF Slice
<1>4. ASSUME NEW r \in Slice(c), NEW s \in Slice(c), Rank(c, r) = Rank(c, s) PROVE r = s
  <2>1. ~(row[r].at < row[s].at) /\ ~(row[s].at < row[r].at)
    BY <1>2, <1>3, <1>4, RankOrder
  <2>2. row[r].at = row[s].at
    BY <1>2, <2>1
  <2> QED
    BY <1>2, <2>2 DEF Distinct
<1>5. f \in Injection(Slice(c), lo..(hi - 1))
  BY <1>3, <1>4 DEF Injection, IsInjective
<1>6. IsFiniteSet(lo..(hi - 1)) /\ Cardinality(lo..(hi - 1)) = PageSize
  <2> HIDE DEF lo, hi
  <2>1. lo \in Int /\ hi - 1 \in Int /\ ~(lo > hi - 1) /\ hi - 1 - lo + 1 = PageSize
    BY <1>1, DeltaAssumption
  <2> QED
    BY <2>1, FS_Interval
<1>7. IsFiniteSet(Slice(c)) /\ Cardinality(Slice(c)) <= PageSize
  BY <1>5, <1>6, FS_Injection
<1>8. g \in Surjection(Slice(c), P)
  BY DEF Surjection
<1>9. IsFiniteSet(P) /\ Cardinality(P) <= Cardinality(Slice(c))
  BY <1>7, <1>8, FS_Surjection
<1> QED
  BY <1>7, <1>9, FS_CardinalityType, DeltaAssumption

-----------------------------------------------------------------------------
(* TYPES AND DATES                                                         *)

(* Nothing is dated in the future; the date of a row is that of the edit   *)
(* that wrote it; and an edit that is not committed yet has a date of its  *)
(* own.                                                                    *)
WrittenBy(e, r) == r = target[e] /\ stage[e] = "done" /\ row[r].at = stamp[e]
Dated ==
  /\ \A r \in Report : row[r].at <= clock
  /\ \A e \in Edit : stamp[e] <= clock
  /\ \A c \in Client : cursor[c] <= clock
  /\ \A r \in Report, e \in Edit : row[r].by = e => WrittenBy(e, r)
  /\ \A e \in Edit : Open(e) =>
       /\ stamp[e] > 0
       /\ \A r \in Report : row[r].at # stamp[e]
       /\ \A d \in Edit \ {e} : Open(d) => stamp[d] # stamp[e]
  /\ Distinct

Typed == TypeOK /\ Dated

(* The steps of a client change neither the reports nor the edits, and the *)
(* cursor only in an answer.                                               *)
Reads(c) == Ask(c) \/ Count(c) \/ NoSuchPage(c) \/ ReadPage(c) \/ SeeSome(c) \/ SeeNone(c)
            \/ LatestRaises(c)
Answers(c) ==
  \E from \in {"some", "none"}, x \in cursor[c]..clock : Answer(c, from, x)

LEMMA AnswersMove ==
  ASSUME Typed, NEW c \in Client, Now(c) \/ Latest(c)
  PROVE  Answers(c)
<1>1. cursor[c] \in Nat /\ clock \in Nat /\ cursor[c] <= clock
  BY DEF Typed, TypeOK, Dated
<1>2. CASE Now(c)
  BY <1>1, <1>2 DEF Now, Answers
<1>3. CASE Latest(c)
  <2>1. PICK r \in Matching(c) : Answer(c, "some", row[r].at)
    BY <1>3 DEF Latest
  <2>2. row[r].at \in Nat /\ row[r].at > cursor[c] /\ row[r].at <= clock
    BY DEF Matching, Typed, TypeOK, Dated
  <2> QED
    BY <1>1, <2>1, <2>2 DEF Answers
<1> QED
  BY <1>2, <1>3

LEMMA ClientsRead ==
  ASSUME NEW c \in Client, Reads(c) \/ Answers(c)
  PROVE  UNCHANGED <<clock, row, edits>>
  BY DEF Reads, Answers, Ask, Count, NoSuchPage, ReadPage, SeeSome, SeeNone, LatestRaises, Answer, edits

LEMMA TypedHolds == Spec => []Typed
<1>1. Init => Typed
  <2> SUFFICES ASSUME Init PROVE Typed
    OBVIOUS
  <2> DEFINE n == Cardinality(Report)
  <2>1. n \in Nat
    BY DeltaAssumption, FS_CardinalityType
  <2>2. PICK old \in SUBSET Report, at \in [Report -> 1..n] :
          /\ \A r, s \in Report : at[r] = at[s] => r = s
          /\ row = [r \in Report |-> [at |-> IF r \in old THEN at[r] ELSE 0, by |-> Original]]
    BY DEF Init
  <2> HIDE DEF n
  <2>3. row \in [Report -> [at : Nat, by : Contents]]
        /\ \A r \in Report : row[r].at <= n /\ row[r].by = Original
    BY <2>1, <2>2 DEF Contents
  <2>4. Distinct
    BY <2>1, <2>2 DEF Distinct, Exists
  <2>5. TypeOK
    <3>1. Cardinality({}) <= PageSize
      BY FS_EmptySet, DeltaAssumption
    <3>2. clock = n
      BY DEF Init, n
    <3> QED
      BY <2>1, <2>3, <3>1, <3>2, DeltaAssumption DEF Init, TypeOK, Contents
  <2>6. clock = n
    BY DEF Init, n
  <2> QED
    BY <2>1, <2>3, <2>4, <2>5, <2>6, DeltaAssumption DEF Init, Typed, Dated, Open
<1>2. Typed /\ [Next]_vars => Typed'
  <2> SUFFICES ASSUME Typed, [Next]_vars PROVE Typed'
    OBVIOUS
  <2>1. ASSUME NEW e \in Edit, Stamp(e) PROVE Typed'
    <3>1. TypeOK'
      BY <2>1 DEF Stamp, Typed, TypeOK, client, Fetching
    <3>2. Dated'
      BY <2>1 DEF Stamp, Typed, TypeOK, Dated, client, Open, WrittenBy, Distinct, Exists
    <3> QED
      BY <3>1, <3>2 DEF Typed
  <2>2. ASSUME NEW e \in Edit, Commit(e) PROVE Typed'
    <3>1. TypeOK'
      BY <2>2 DEF Commit, Typed, TypeOK, client, BetweenPages, Contents
    <3>2. Dated'
      BY <2>2, DeltaAssumption DEF Commit, Typed, TypeOK, Dated, client, Open, WrittenBy, Distinct, Exists, Contents
    <3> QED
      BY <3>1, <3>2 DEF Typed
  <2>3. ASSUME NEW e \in Edit, Abort(e) PROVE Typed'
    <3>1. TypeOK'
      BY <2>3 DEF Abort, Typed, TypeOK, client
    <3>2. Dated'
      BY <2>3 DEF Abort, Typed, TypeOK, Dated, client, Open, WrittenBy, Distinct, Exists
    <3> QED
      BY <3>1, <3>2 DEF Typed
  <2>4. ASSUME NEW c \in Client, Reads(c) PROVE Typed'
    <3>1. Dated'
      <4>1. cursor' = cursor
        BY <2>4 DEF Reads, Ask, Count, NoSuchPage, ReadPage, SeeSome, SeeNone, LatestRaises
      <4> QED
        BY <2>4, <4>1, ClientsRead DEF Typed, Dated, edits, Open, WrittenBy, Distinct, Exists
    <3>2. CASE ReadPage(c)
      <4> DEFINE P == {[report |-> r, by |-> row[r].by] : r \in Slice(c)}
      <4>1. Cardinality(P) <= PageSize
        BY PageFits DEF Typed, Dated
      <4>2. P \subseteq [report : Report, by : Contents]
        BY DEF Slice, Matching, Typed, TypeOK
      <4>3. page' = [page EXCEPT ![c] = P]
        BY <3>2 DEF ReadPage
      <4> HIDE DEF P
      <4> QED
        BY <3>1, <3>2, <4>1, <4>2, <4>3 DEF ReadPage, Goto, Typed, TypeOK, edits
    <3>3. CASE Ask(c)
      BY <3>1, <3>3, DeltaAssumption DEF Ask, Goto, Typed, TypeOK, edits
    <3>4. CASE Count(c)
      BY <3>1, <3>4, ResultFinite DEF Count, Goto, Typed, TypeOK, edits
    <3>5. CASE NoSuchPage(c)
      BY <3>1, <3>5 DEF NoSuchPage, Goto, Typed, TypeOK, edits
    <3>6. CASE SeeSome(c) \/ SeeNone(c)
      BY <3>1, <3>6 DEF SeeSome, SeeNone, Goto, Typed, TypeOK, edits
    <3>7. CASE LatestRaises(c)
      BY <3>1, <3>7 DEF LatestRaises, Goto, Typed, TypeOK, edits
    <3> QED
      BY <2>4, <3>2, <3>3, <3>4, <3>5, <3>6, <3>7 DEF Reads
  <2>5. ASSUME NEW c \in Client, Answers(c) PROVE Typed'
    <3>1. PICK from \in {"some", "none"}, x \in cursor[c]..clock : Answer(c, from, x)
      BY <2>5 DEF Answers
    <3>2. x \in Nat /\ x <= clock
      BY DEF Typed, TypeOK
    <3>3. mirror' \in [Client -> [Report -> Contents]]
      <4> DEFINE found(r) == CHOOSE p \in page[c] : p.report = r
                 m == [r \in Report |-> IF \E p \in page[c] : p.report = r
                                        THEN found(r).by ELSE mirror[c][r]]
      <4>1. mirror' = [mirror EXCEPT ![c] = m]
        BY <3>1 DEF Answer
      <4>2. ASSUME NEW r \in Report, \E p \in page[c] : p.report = r
            PROVE  found(r).by \in Contents
        <5>1. found(r) \in page[c]
          BY <4>2
        <5> QED
          BY <5>1 DEF Typed, TypeOK
      <4>3. m \in [Report -> Contents]
        BY <4>2 DEF Typed, TypeOK
      <4> QED
        BY <4>1, <4>3 DEF Typed, TypeOK
    <3>4. TypeOK'
      <4>1. /\ UNCHANGED <<clock, row, edits, count, page, fetches, lapped>>
            /\ \E to \in {"asked", "idle"} : pc' = [pc EXCEPT ![c] = to]
            /\ \E n \in {1, number[c] + 1} : number' = [number EXCEPT ![c] = n]
            /\ cursor' \in {cursor, [cursor EXCEPT ![c] = x]}
            /\ cut' \in {cut, cut \cup {c}}
        BY <3>1 DEF Answer, Goto
      <4>2. number' \in [Client -> Nat \ {0}]
        <5>1. PICK n \in {1, number[c] + 1} : number' = [number EXCEPT ![c] = n]
          BY <4>1
        <5>2. number \in [Client -> Nat \ {0}]
          BY DEF Typed, TypeOK
        <5>3. n \in Nat \ {0}
          BY <5>2
        <5> QED
          BY <5>1, <5>2, <5>3
      <4>3. cursor' \in [Client -> Nat]
        <5>1. cursor \in [Client -> Nat]
          BY DEF Typed, TypeOK
        <5> QED
          BY <3>2, <4>1, <5>1
      <4> QED
        BY <3>3, <4>1, <4>2, <4>3 DEF Typed, TypeOK, edits
    <3>5. \A d \in Client : cursor'[d] <= clock
      BY <3>1, <3>2 DEF Answer, Typed, TypeOK, Dated
    <3> QED
      BY <2>5, <3>4, <3>5, ClientsRead DEF Typed, Dated, edits, Open, WrittenBy, Distinct, Exists
  <2>6. CASE UNCHANGED vars
    BY <2>6 DEF vars, edits, client, Typed, TypeOK, Dated, Open, WrittenBy, Distinct, Exists
  <2> QED
    BY <2>1, <2>2, <2>3, <2>4, <2>5, <2>6, AnswersMove DEF Next, Quiet, Reads
<1> QED
  BY <1>1, <1>2, PTL DEF Spec

(* Every variable has its type, and no page has more rows than PageSize.   *)
THEOREM TypeCorrect == Spec => []TypeOK
<1>1. Typed => TypeOK
  BY DEF Typed
<1> QED
  BY <1>1, TypedHolds, PTL

(* A client's cursor never goes back: X-Cursor is the date of a report that*)
(* was after the old cursor, or the clock, which was never behind it.      *)
THEOREM CursorForward == Spec => CursorNeverGoesBack
<1>1. Typed /\ [Next]_vars => [\A c \in Client : cursor'[c] >= cursor[c]]_vars
  <2> SUFFICES ASSUME Typed, [Next]_vars, NEW d \in Client PROVE cursor'[d] >= cursor[d]
    OBVIOUS
  <2>1. \A c \in Client : cursor[c] \in Nat
    BY DEF Typed, TypeOK
  <2>2. CASE cursor' = cursor
    BY <2>1, <2>2
  <2>3. ASSUME NEW c \in Client, Answers(c) PROVE cursor'[d] >= cursor[d]
    <3>1. PICK from \in {"some", "none"}, x \in cursor[c]..clock : Answer(c, from, x)
      BY <2>3 DEF Answers
    <3>2. cursor' = cursor \/ cursor' = [cursor EXCEPT ![c] = x]
      BY <3>1 DEF Answer
    <3>3. x \in Nat /\ x >= cursor[c] /\ cursor \in [Client -> Nat]
      BY DEF Typed, TypeOK
    <3> QED
      BY <2>1, <3>2, <3>3
  <2>4. ASSUME NEW e \in Edit, Stamp(e) \/ Commit(e) \/ Abort(e) PROVE cursor' = cursor
    BY <2>4 DEF Stamp, Commit, Abort, client
  <2>5. ASSUME NEW c \in Client, Reads(c) PROVE cursor' = cursor
    BY <2>5 DEF Reads, Ask, Count, NoSuchPage, ReadPage, SeeSome, SeeNone, LatestRaises
  <2>6. UNCHANGED vars => cursor' = cursor
    BY DEF vars, client
  <2> QED
    BY <2>2, <2>3, <2>4, <2>5, <2>6, AnswersMove DEF Next, Quiet, Reads
<1> QED
  BY <1>1, TypedHolds, PTL DEF Spec, CursorNeverGoesBack

-----------------------------------------------------------------------------
(* QUIET EDITS                                                             *)

(* An edit in effect that overlapped no fetch of the client.               *)
Quietly(c, e) ==
  /\ stage[e] = "done" /\ row[target[e]].by = e
  /\ c \notin lapped[e] /\ c \notin cut

Has(c, e)   == mirror[c][target[e]] = e
Turned(c, e) == [report |-> target[e], by |-> e] \in page[c]

(* The pages of the fetch that is under way that the client has taken over,*)
(* and those that it has read.                                             *)
Behind(c, e) == Rank(c, target[e]) < (number[c] - 1) * PageSize
Read(c, e)   == ~HasNext(c) \/ Rank(c, target[e]) < number[c] * PageSize

(* A fetch overlaps every edit that is open while it is under way; the     *)
(* others lie after the cursor.                                            *)
OpenInv ==
  \A c \in Client, e \in Edit : Open(e) =>
    /\ pc[c] # "idle" => c \in lapped[e]
    /\ c \notin lapped[e] => cursor[c] < stamp[e]

(* A quiet edit before the cursor is in the mirror, and no page brings an  *)
(* older version; one after it is in the mirror or on the page that was    *)
(* just read, as soon as its place is.                                     *)
QuietAt(c, e) ==
  /\ stamp[e] <= cursor[c] => Has(c, e)
  /\ pc[c] \in {"paged", "some", "none"} => \A p \in page[c] : p.report = target[e] => p.by = e
  /\ (stamp[e] > cursor[c] /\ pc[c] \in {"asked", "counted"} /\ Behind(c, e)) => Has(c, e)
  /\ (stamp[e] > cursor[c] /\ pc[c] \in {"paged", "some", "none"} /\ Read(c, e))
       => Has(c, e) \/ Turned(c, e)
QuietInv == \A c \in Client, e \in Edit : Quietly(c, e) => QuietAt(c, e)

FirstPage == \A c \in Client : pc[c] = "idle" => number[c] = 1

FetchInv == OpenInv /\ FirstPage /\ QuietInv

(* The place of a report depends on the rows and the cursor only.          *)
LEMMA RankKept ==
  ASSUME row' = row, NEW c, cursor'[c] = cursor[c]
  PROVE  Matching(c)' = Matching(c) /\ \A r : Rank(c, r)' = Rank(c, r)
<1>1. Matching(c)' = Matching(c)
  BY DEF Matching
<1> QED
  BY <1>1 DEF Rank

(* A quiet edit after the cursor is part of the result.                    *)
LEMMA QuietMatches ==
  ASSUME Typed, NEW c \in Client, NEW e \in Edit, Quietly(c, e), stamp[e] > cursor[c]
  PROVE  target[e] \in Matching(c)
  BY DEF Typed, TypeOK, Dated, WrittenBy, Quietly, Matching

(* What an answer makes of the mirror.                                     *)
LEMMA MirrorTakesOver ==
  ASSUME Typed, NEW c \in Client, NEW from, NEW x, Answer(c, from, x), NEW e \in Edit,
         \A p \in page[c] : p.report = target[e] => p.by = e,
         Has(c, e) \/ Turned(c, e)
  PROVE  mirror'[c][target[e]] = e
<1> DEFINE r == target[e]
           found(q) == CHOOSE p \in page[c] : p.report = q
           m == [q \in Report |-> IF \E p \in page[c] : p.report = q
                                  THEN found(q).by ELSE mirror[c][q]]
<1>1. mirror'[c] = m /\ r \in Report
  BY DEF Answer, Typed, TypeOK
<1>2. CASE \E p \in page[c] : p.report = r
  <2>1. found(r) \in page[c] /\ found(r).report = r
    BY <1>2
  <2> QED
    BY <1>1, <1>2, <2>1
<1>3. CASE ~\E p \in page[c] : p.report = r
  <2>1. Has(c, e)
    BY <1>3 DEF Turned
  <2> QED
    BY <1>1, <1>3, <2>1 DEF Has
<1> QED
  BY <1>2, <1>3

(* What neither concerns the client nor the edit leaves both as they are.  *)
LEMMA QuietKept ==
  ASSUME NEW c \in Client, NEW e \in Edit, Quietly(c, e) => QuietAt(c, e),
         row' = row, target' = target, stage'[e] = stage[e], stamp'[e] = stamp[e],
         pc'[c] = pc[c], number'[c] = number[c], count'[c] = count[c], page'[c] = page[c],
         cursor'[c] = cursor[c], mirror'[c] = mirror[c],
         c \in lapped[e] => c \in lapped'[e], c \in cut => c \in cut'
  PROVE  (Quietly(c, e) => QuietAt(c, e))'
<1>1. Quietly(c, e)' => Quietly(c, e)
  BY DEF Quietly
<1>2. Rank(c, target[e])' = Rank(c, target[e])
  BY RankKept
<1>3. QuietAt(c, e) => QuietAt(c, e)'
  BY <1>2 DEF QuietAt, Has, Turned, Behind, Read, HasNext
<1> QED
  BY <1>1, <1>3

(* An edit that is stamped, committed or rolled back.                      *)
LEMMA EditStep ==
  ASSUME Typed, FetchInv, NEW f \in Edit, Stamp(f) \/ Commit(f) \/ Abort(f)
  PROVE  FetchInv'
<1>0. UNCHANGED client /\ UNCHANGED <<pc, number, count, page, cursor, mirror>>
  BY DEF Stamp, Commit, Abort, client
<1>1. FirstPage'
  BY <1>0 DEF FetchInv, FirstPage
<1>2. OpenInv'
  <2>1. CASE Stamp(f)
    <3>1. \A c \in Client : cursor[c] < clock + 1 /\ (pc[c] # "idle" => c \in lapped'[f])
      BY <2>1 DEF Stamp, Fetching, Typed, TypeOK, Dated
    <3>2. \A e \in Edit : e # f => stage'[e] = stage[e] /\ stamp'[e] = stamp[e]
                                  /\ lapped'[e] = lapped[e]
      BY <2>1 DEF Stamp, Typed, TypeOK
    <3>3. stamp'[f] = clock + 1
      BY <2>1 DEF Stamp, Typed, TypeOK
    <3> QED
      BY <1>0, <3>1, <3>2, <3>3 DEF FetchInv, OpenInv, Open
  <2>2. CASE Commit(f) \/ Abort(f)
    <3>1. stamp' = stamp /\ lapped' = lapped /\ \A e \in Edit : Open(e)' => Open(e)
      BY <2>2 DEF Commit, Abort, Open, Typed, TypeOK
    <3> QED
      BY <1>0, <3>1 DEF FetchInv, OpenInv
  <2> QED
    BY <2>1, <2>2
<1>3. ASSUME NEW c \in Client, NEW e \in Edit, Quietly(c, e)'
      PROVE  QuietAt(c, e)'
  <2>0. target' = target /\ (e # f => stage'[e] = stage[e] /\ stamp'[e] = stamp[e])
    BY DEF Stamp, Commit, Abort, Typed, TypeOK
  <2>1. CASE e # f /\ row' = row
    <3>1. lapped'[e] = lapped[e] /\ (c \in cut => c \in cut')
      BY <2>1 DEF Stamp, Commit, Abort, Typed, TypeOK
    <3> QED
      BY <1>0, <1>3, <2>0, <2>1, <3>1, QuietKept DEF FetchInv, QuietInv
  <2>2. CASE Commit(f) /\ e = f
    <3>1. c \notin lapped[f] /\ Open(f) /\ stamp' = stamp
      BY <1>3, <2>2 DEF Commit, Quietly
    <3>2. pc[c] = "idle" /\ cursor[c] < stamp[f]
      BY <3>1 DEF FetchInv, OpenInv
    <3>3. ~(stamp[f] <= cursor[c])
      BY <3>2 DEF Typed, TypeOK
    <3> QED
      BY <1>0, <2>2, <3>1, <3>2, <3>3 DEF QuietAt
  <2>3. CASE Commit(f) /\ e # f
    <3>1. /\ stamp' = stamp /\ lapped' = lapped /\ c \notin cut /\ c \notin BetweenPages
          /\ row'[target[e]].by = e
      BY <1>3, <2>3 DEF Commit, Quietly
    <3>2. row[target[e]].by = e
      BY <2>3, <3>1 DEF Commit, Typed, TypeOK
    <3>3. QuietAt(c, e)
      BY <1>3, <2>0, <2>3, <3>1, <3>2 DEF Quietly, FetchInv, QuietInv
    <3>4. Has(c, e)' <=> Has(c, e)
      BY <1>0, <2>0 DEF Has
    <3>5. Turned(c, e)' <=> Turned(c, e)
      BY <1>0, <2>0 DEF Turned
    <3>6. CASE pc[c] = "idle"
      BY <1>0, <2>0, <3>1, <3>3, <3>4, <3>6 DEF QuietAt
    <3>7. CASE pc[c] \in {"asked", "counted"}
      <4>1. number[c] = 1
        <5>1. number[c] \in Nat \ {0}
          BY DEF Typed, TypeOK
        <5>2. number[c] > 1 => c \in BetweenPages
          BY <3>7, <5>1 DEF BetweenPages
        <5> QED
          BY <3>1, <5>1, <5>2
      <4>2. ~Behind(c, e)'
        <5>1. (number'[c] - 1) * PageSize = 0
          BY <1>0, <4>1, DeltaAssumption
        <5>2. Rank(c, target[e])' \in Nat
          <6> DEFINE S == {s \in Matching(c) : row[s].at < row[target[e]].at}
          <6>1. S' \subseteq Report
            BY DEF Matching
          <6>2. Cardinality(S') \in Nat
            BY <6>1, DeltaAssumption, FS_Subset, FS_CardinalityType
          <6> QED
            BY <6>2 DEF Rank
        <5> QED
          BY <2>0, <5>1, <5>2 DEF Behind
      <4> QED
        BY <1>0, <2>0, <3>1, <3>3, <3>4, <3>7, <4>2 DEF QuietAt
    <3>8. CASE pc[c] \in {"paged", "some", "none"}
      <4>1. ~HasNext(c)
        BY <3>1, <3>8 DEF BetweenPages
      <4>2. Read(c, e)
        BY <4>1 DEF Read
      <4> QED
        BY <1>0, <2>0, <3>1, <3>3, <3>4, <3>5, <3>8, <4>2 DEF QuietAt
    <3> QED
      BY <3>6, <3>7, <3>8 DEF Typed, TypeOK
  <2>4. CASE ~Commit(f) /\ e = f
    BY <1>3, <2>4 DEF Stamp, Abort, Quietly, Typed, TypeOK
  <2> QED
    BY <2>1, <2>2, <2>3, <2>4 DEF Stamp, Abort
<1> QED
  BY <1>1, <1>2, <1>3 DEF FetchInv, QuietInv

(* A client's read.                                                        *)
LEMMA ReadStep ==
  ASSUME Typed, FetchInv, NEW d \in Client, Reads(d)
  PROVE  FetchInv'
<1>0. UNCHANGED <<row, target, stage, stamp, cursor, mirror>>
  BY DEF Reads, Ask, Count, NoSuchPage, ReadPage, SeeSome, SeeNone, LatestRaises, edits
<1>1. \A c \in Client \ {d} :
        /\ pc'[c] = pc[c] /\ number'[c] = number[c] /\ count'[c] = count[c] /\ page'[c] = page[c]
        /\ c \in cut <=> c \in cut'
        /\ \A e \in Edit : c \in lapped[e] <=> c \in lapped'[e]
  BY DEF Reads, Ask, Count, NoSuchPage, ReadPage, SeeSome, SeeNone, LatestRaises, Goto, Typed, TypeOK
<1>2. /\ \A e \in Edit : d \in lapped[e] => d \in lapped'[e]
      /\ d \in cut => d \in cut'
  BY DEF Reads, Ask, Count, NoSuchPage, ReadPage, SeeSome, SeeNone, LatestRaises, Typed, TypeOK
<1>3. FirstPage'
  <2>1. pc'[d] = "idle" => number'[d] = 1
    BY DEF Reads, Ask, Count, NoSuchPage, ReadPage, SeeSome, SeeNone, LatestRaises, Goto, Typed, TypeOK
  <2> QED
    BY <1>1, <2>1 DEF FetchInv, FirstPage
<1>4. OpenInv'
  <2>1. ASSUME NEW e \in Edit, Open(e), pc'[d] # "idle" PROVE d \in lapped'[e]
    <3>1. CASE Ask(d)
      BY <2>1, <3>1 DEF Ask, Typed, TypeOK
    <3>2. CASE ~Ask(d)
      <4>1. pc[d] # "idle"
        BY <3>2 DEF Reads, Count, NoSuchPage, ReadPage, SeeSome, SeeNone, LatestRaises, Goto
      <4> QED
        BY <1>2, <2>1, <4>1 DEF FetchInv, OpenInv
    <3> QED
      BY <3>1, <3>2
  <2> QED
    BY <1>0, <1>1, <1>2, <2>1 DEF FetchInv, OpenInv, Open
<1>5. ASSUME NEW c \in Client, NEW e \in Edit, Quietly(c, e)'
      PROVE  QuietAt(c, e)'
  <2>1. CASE c # d
    BY <1>0, <1>1, <1>5, <2>1, QuietKept DEF FetchInv, QuietInv
  <2>2. CASE c = d
    <3>1. Quietly(d, e)
      BY <1>0, <1>2, <1>5, <2>2 DEF Quietly
    <3>2. QuietAt(d, e)
      BY <3>1 DEF FetchInv, QuietInv
    <3>3. (Has(d, e)' <=> Has(d, e)) /\ Rank(d, target[e])' = Rank(d, target[e])
      BY <1>0, RankKept DEF Has
    <3>4. CASE Ask(d)
      <4>1. pc[d] = "idle" /\ number[d] = 1 /\ pc'[d] = "asked" /\ number'[d] = 1
        BY <3>4 DEF Ask, Goto, FetchInv, FirstPage, Typed, TypeOK
      <4>2. ~Behind(d, e)' \/ ~(stamp[e] > cursor[d])
        <5>1. SUFFICES ASSUME stamp[e] > cursor[d] PROVE ~Behind(d, e)'
          OBVIOUS
        <5>2. Rank(d, target[e]) \in Nat
          BY <3>1, <5>1, QuietMatches, RankInResult DEF Typed
        <5>3. (number'[d] - 1) * PageSize = 0
          BY <4>1, DeltaAssumption
        <5> QED
          BY <1>0, <3>3, <5>2, <5>3 DEF Behind
      <4> QED
        BY <1>0, <2>2, <3>2, <3>3, <4>1, <4>2 DEF QuietAt
    <3>5. CASE Count(d)
      <4>1. pc[d] = "asked" /\ pc'[d] = "counted" /\ number' = number
        BY <3>5 DEF Count, Goto, Typed, TypeOK
      <4> QED
        BY <1>0, <2>2, <3>2, <3>3, <4>1 DEF QuietAt, Behind
    <3>6. CASE NoSuchPage(d) \/ LatestRaises(d)
      <4>1. pc'[d] = "idle"
        BY <3>6 DEF NoSuchPage, LatestRaises, Goto, Typed, TypeOK
      <4> QED
        BY <1>0, <2>2, <3>2, <3>3, <4>1 DEF QuietAt
    <3>7. CASE SeeSome(d) \/ SeeNone(d)
      <4>1. /\ pc[d] = "paged" /\ pc'[d] \in {"some", "none"}
            /\ UNCHANGED <<number, count, page>>
        BY <3>7 DEF SeeSome, SeeNone, Goto, Typed, TypeOK
      <4> QED
        BY <1>0, <2>2, <3>2, <3>3, <4>1 DEF QuietAt, Read, HasNext, Turned
    <3>8. CASE ReadPage(d)
      <4>1. /\ pc[d] = "counted" /\ pc'[d] = "paged" /\ UNCHANGED <<number, count>>
            /\ page'[d] = {[report |-> r, by |-> row[r].by] : r \in Slice(d)}
            /\ ~(count[d] < Cardinality(Matching(d)))
        BY <1>5, <2>2, <3>8 DEF ReadPage, Goto, Quietly, Typed, TypeOK
      <4>2. \A p \in page'[d] : p.report = target[e] => p.by = e
        BY <3>1, <4>1 DEF Quietly
      <4>3. ASSUME stamp[e] > cursor[d], Read(d, e)' PROVE Has(d, e) \/ Turned(d, e)'
        <5> DEFINE r == target[e]
                   lo == (number[d] - 1) * PageSize
                   hi == number[d] * PageSize
        <5>1. r \in Matching(d)
          BY <3>1, <4>3, QuietMatches
        <5>2. Rank(d, r) \in Nat /\ Rank(d, r) < Cardinality(Matching(d))
          BY <5>1, RankInResult DEF Typed
        <5>3. Cardinality(Matching(d)) \in Nat /\ count[d] \in Nat
          BY ResultFinite DEF Typed, TypeOK
        <5>4. lo \in Nat /\ hi \in Nat
          BY PageEnds DEF Typed, TypeOK
        <5>5. Rank(d, r) < count[d]
          BY <4>1, <5>2, <5>3
        <5>6. Rank(d, r) < hi
          BY <3>3, <4>1, <4>3, <5>2, <5>3, <5>4, <5>5 DEF Read, HasNext
        <5>7. CASE Rank(d, r) < lo
          BY <3>2, <4>1, <4>3, <5>7 DEF QuietAt, Behind
        <5>8. CASE lo <= Rank(d, r)
          <6>1. r \in Slice(d)
            BY <5>1, <5>5, <5>6, <5>8 DEF Slice
          <6> QED
            BY <1>0, <3>1, <4>1, <6>1 DEF Turned, Quietly
        <5> QED
          BY <5>2, <5>4, <5>7, <5>8
      <4> QED
        BY <1>0, <2>2, <3>2, <3>3, <4>1, <4>2, <4>3 DEF QuietAt
    <3> QED
      BY <3>4, <3>5, <3>6, <3>7, <3>8 DEF Reads
  <2> QED
    BY <2>1, <2>2
<1> QED
  BY <1>3, <1>4, <1>5 DEF FetchInv, QuietInv

(* An answer: the client takes the page over.                              *)
LEMMA AnswerStep ==
  ASSUME Typed, FetchInv, NEW d \in Client, Answers(d)
  PROVE  FetchInv'
<1>0. PICK from \in {"some", "none"}, x \in cursor[d]..clock : Answer(d, from, x)
  BY DEF Answers
<1>1. /\ UNCHANGED <<row, target, stage, stamp, count, page, lapped>>
      /\ pc[d] = from
  BY <1>0 DEF Answer, Goto, edits
<1>2. /\ cut \subseteq cut'
      /\ \A c \in Client \ {d} :
           /\ pc'[c] = pc[c] /\ number'[c] = number[c] /\ cursor'[c] = cursor[c]
           /\ mirror'[c] = mirror[c]
  BY <1>0 DEF Answer, Goto, Typed, TypeOK
<1>3. \/ /\ HasNext(d)
         /\ pc'[d] = "asked" /\ number'[d] = number[d] + 1 /\ cursor'[d] = cursor[d]
      \/ /\ HasNext(d) => d \in cut'
         /\ pc'[d] = "idle" /\ number'[d] = 1
  BY <1>0 DEF Answer, Goto, Typed, TypeOK
<1>4. FirstPage'
  BY <1>2, <1>3 DEF FetchInv, FirstPage
<1>5. OpenInv'
  <2>1. pc[d] # "idle"
    BY <1>1
  <2> QED
    BY <1>1, <1>2, <2>1 DEF FetchInv, OpenInv, Open
<1>6. ASSUME NEW c \in Client, NEW e \in Edit, Quietly(c, e)'
      PROVE  QuietAt(c, e)'
  <2>1. CASE c # d
    BY <1>1, <1>2, <1>6, <2>1, QuietKept DEF FetchInv, QuietInv
  <2>2. CASE c = d
    <3>1. Quietly(d, e)
      BY <1>1, <1>2, <1>6, <2>2 DEF Quietly
    <3>2. QuietAt(d, e)
      BY <3>1 DEF FetchInv, QuietInv
    <3>3. (Has(d, e) \/ Turned(d, e)) => Has(d, e)'
      <4>1. SUFFICES ASSUME Has(d, e) \/ Turned(d, e) PROVE mirror'[d][target[e]] = e
        BY <1>1 DEF Has
      <4>2. \A p \in page[d] : p.report = target[e] => p.by = e
        BY <1>1, <3>2 DEF QuietAt
      <4> QED
        BY <1>0, <4>1, <4>2, MirrorTakesOver
    <3>4. stamp[e] \in Nat /\ cursor[d] \in Nat
      BY DEF Typed, TypeOK
    <3>5. CASE pc'[d] = "asked"
      <4>1. HasNext(d) /\ number'[d] = number[d] + 1 /\ cursor'[d] = cursor[d]
        BY <1>3, <3>5
      <4>2. Rank(d, target[e])' = Rank(d, target[e])
        BY <1>1, <4>1, RankKept
      <4>3. number'[d] - 1 = number[d]
        BY <4>1 DEF Typed, TypeOK
      <4>4. Behind(d, e)' => Read(d, e)
        BY <1>1, <4>2, <4>3 DEF Behind, Read
      <4> QED
        BY <1>1, <2>2, <3>2, <3>3, <3>4, <3>5, <4>1, <4>4 DEF QuietAt
    <3>6. CASE pc'[d] = "idle"
      <4>1. ~HasNext(d)
        BY <1>3, <1>6, <2>2, <3>6 DEF Quietly
      <4>2. Has(d, e) \/ Turned(d, e)
        BY <1>1, <3>2, <3>4, <4>1 DEF QuietAt, Read
      <4> QED
        BY <1>1, <2>2, <3>3, <3>6, <4>2 DEF QuietAt
    <3> QED
      BY <1>3, <3>5, <3>6
  <2> QED
    BY <2>1, <2>2
<1> QED
  BY <1>4, <1>5, <1>6 DEF FetchInv, QuietInv

LEMMA FetchInvHolds == Spec => []FetchInv
<1>1. Init => FetchInv
  BY DEF Init, FetchInv, OpenInv, Open, FirstPage, QuietInv, Quietly
<1>2. Typed /\ FetchInv /\ [Next]_vars => FetchInv'
  <2> SUFFICES ASSUME Typed, FetchInv, [Next]_vars PROVE FetchInv'
    OBVIOUS
  <2>1. CASE UNCHANGED vars
    <3>1. /\ UNCHANGED <<row, target, stage, stamp, pc, number, count, page, cursor, mirror,
                         lapped, cut>>
      BY <2>1 DEF vars, edits, client
    <3>2. OpenInv' /\ FirstPage'
      BY <3>1 DEF FetchInv, OpenInv, Open, FirstPage
    <3>3. QuietInv'
      BY <3>1, QuietKept DEF FetchInv, QuietInv
    <3> QED
      BY <3>2, <3>3 DEF FetchInv
  <2> QED
    BY <2>1, EditStep, ReadStep, AnswerStep, AnswersMove DEF Next, Quiet, Reads
<1> QED
  BY <1>1, <1>2, TypedHolds, PTL DEF Spec

(* What a client's cursor has reached the client has, for any page size and*)
(* any number of edits between its reads, unless the edit overlapped one of*)
(* its fetches or something was committed between two of its pages.        *)
THEOREM QuietEditsSeen == Spec => []QuietEditsArrive
<1>1. Typed /\ FetchInv => QuietEditsArrive
  BY DEF FetchInv, QuietInv, QuietAt, Quietly, Has, QuietEditsArrive
<1> QED
  BY <1>1, TypedHolds, FetchInvHolds, PTL
=============================================================================
