------------------------- MODULE ReviewSerialProofs -------------------------
(***************************************************************************)
(* Theorems about ReviewWorkflow for requests that do not overlap, for     *)
(* every set of companies and operations and every bound.                  *)
(*                                                                         *)
(* Overlapping requests do break these properties: a commit writes by      *)
(* primary key what was computed from rows that may have changed since.    *)
(* Alone, a request finds the rows it has read, and its commit stores what *)
(* it computed, no more and no less.                                       *)
(***************************************************************************)
EXTENDS ReviewWorkflowProofs

\* Requests do not overlap: at most one is in flight at any time.
OneAtATime == \A r, t \in Requests : r = t

-----------------------------------------------------------------------------
(* The commit of a request that finds the rows it has read.                *)

LEMMA RowRewritten ==
    ASSUME NEW old, NEW new, DOMAIN new = DOMAIN old,
           old = [a \in DOMAIN old |-> old[a]], new = [a \in DOMAIN new |-> new[a]]
    PROVE  Over(old, Changed(old, new)) = new
    BY DEF Over, Changed

LEMMA RowsRewritten ==
    ASSUME NEW S, NEW old \in Seq(S), NEW new \in Seq(S), Len(old) <= Len(new),
           \A row, other \in S : Over(row, Changed(row, other)) = other
    PROVE  OverRows(old, ChangedRows(old, new)) \o Inserted(old, new) = new
<1> DEFINE rows == OverRows(old, ChangedRows(old, new))
<1>1. DOMAIN old \subseteq DOMAIN new
    OBVIOUS
<1>2. rows = [i \in DOMAIN old |-> new[i]]
    <2>1. \A i \in DOMAIN old : Over(old[i], ChangedRows(old, new)[i]) = new[i]
        BY <1>1 DEF ChangedRows
    <2> QED BY <2>1 DEF OverRows, ChangedRows
<1> HIDE DEF rows
<1>3. rows \in Seq(S) /\ Len(rows) = Len(old) /\ \A i \in DOMAIN old : rows[i] = new[i]
    BY <1>1, <1>2
<1>4. rows \o SubSeq(new, Len(old) + 1, Len(new)) = new
    BY <1>3
<1> QED BY <1>4 DEF Inserted, rows

\* The commit stores the session that was computed from these rows.
LEMMA CommitStores ==
    ASSUME TypeOK, NEW r \in Requests, Commit(r),
           NEW s, NEW i, Derived(s, i), requests[r].writes = Writes(s)
    PROVE  doc' = s.doc /\ companies' = s.companies /\ versions' = s.versions /\ reviews' = s.reviews
<1> USE DEF TypeOK
<1> DEFINE w == requests[r].writes
<1>1. /\ doc' = Over(doc, w.doc)
      /\ companies' = (companies \ w.unassign) \cup w.assign
      /\ versions' = OverRows(versions, w.versions) \o w.newVersions
      /\ reviews' = OverRows(reviews, w.reviews) \o w.newReviews
    BY DEF Commit
<1>2. /\ w.doc = Changed(doc, s.doc)
      /\ w.assign = s.companies \ companies /\ w.unassign = companies \ s.companies
      /\ w.versions = ChangedRows(versions, s.versions)
      /\ w.newVersions = Inserted(versions, s.versions)
      /\ w.reviews = ChangedRows(reviews, s.reviews)
      /\ w.newReviews = Inserted(reviews, s.reviews)
    BY DEF Writes
<1> HIDE DEF w
<1>3. s \in Sessions /\ Len(versions) <= Len(s.versions) /\ Len(reviews) <= Len(s.reviews)
    BY DEF Derived
<1>4. doc' = s.doc
    <2>1. /\ DOMAIN s.doc = DOMAIN doc
          /\ doc = [a \in DOMAIN doc |-> doc[a]] /\ s.doc = [a \in DOMAIN s.doc |-> s.doc[a]]
        BY <1>3 DEF Sessions, Document
    <2> QED BY <1>1, <1>2, <2>1, RowRewritten
<1>5. companies' = s.companies
    BY <1>1, <1>2, <1>3 DEF Sessions
<1>6. versions' = s.versions
    <2>1. \A row, other \in Version : Over(row, Changed(row, other)) = other
        <3> SUFFICES ASSUME NEW row \in Version, NEW other \in Version
                     PROVE  Over(row, Changed(row, other)) = other
            OBVIOUS
        <3>1. /\ DOMAIN other = DOMAIN row
              /\ row = [a \in DOMAIN row |-> row[a]] /\ other = [a \in DOMAIN other |-> other[a]]
            BY DEF Version
        <3> QED BY <3>1, RowRewritten
    <2> QED BY <1>1, <1>2, <1>3, <2>1, RowsRewritten DEF Sessions
<1>7. reviews' = s.reviews
    <2>1. \A row, other \in Review : Over(row, Changed(row, other)) = other
        <3> SUFFICES ASSUME NEW row \in Review, NEW other \in Review
                     PROVE  Over(row, Changed(row, other)) = other
            OBVIOUS
        <3>1. /\ DOMAIN other = DOMAIN row
              /\ row = [a \in DOMAIN row |-> row[a]] /\ other = [a \in DOMAIN other |-> other[a]]
            BY DEF Review
        <3> QED BY <3>1, RowRewritten
    <2> QED BY <1>1, <1>2, <1>3, <2>1, RowsRewritten DEF Sessions
<1> QED BY <1>4, <1>5, <1>6, <1>7

-----------------------------------------------------------------------------
(* What a request in flight holds.                                         *)

\* What the validation of an approval has found.
Approvable(i) ==
    /\ i \in Pending
    /\ reviews[i].version # 0 => reviews[i].version \in Latest(Live) \cap Unpublished

Approves(i, s) ==
    /\ s.versions = versions
    /\ s.doc.status = Settled("approved")
    /\ s.reviews = [reviews EXCEPT ![i] = [@ EXCEPT !.status = "approved"]]

\* The session of an operation, computed from the rows as they are.
Lawful(op, i, s) ==
    Derived(s, i) /\ IF op = "approve" THEN Approvable(i) /\ Approves(i, s) ELSE Kind(op, s)

\* The inductive invariant of requests that do not overlap: what is in flight was
\* computed from the rows that are there.
InFlight ==
    \A r \in Requests :
      /\ requests[r].op = "approve" => Approvable(requests[r].review)
      /\ Ready(r) => /\ requests[r].op \in Operations
                     /\ \E s : /\ requests[r].writes = Writes(s)
                               /\ Lawful(requests[r].op, requests[r].review, s)

\* The commit of a session.
Takes(r, s) ==
    /\ Lawful(requests[r].op, requests[r].review, s)
    /\ requests[r].op \in Operations
    /\ doc' = s.doc /\ versions' = s.versions /\ reviews' = s.reviews
    /\ requests'[r] = Idle
    /\ UNCHANGED active

LEMMA LawfulStays ==
    ASSUME UNCHANGED stored, NEW op, NEW i
    PROVE  /\ Approvable(i) => Approvable(i)'
           /\ \A s : Writes(s)' = Writes(s) /\ (Lawful(op, i, s) => Lawful(op, i, s)')
<1>0. UNCHANGED doc /\ UNCHANGED companies /\ UNCHANGED active /\ UNCHANGED versions
      /\ UNCHANGED reviews
    BY DEF stored
<1>1. UNCHANGED Live /\ UNCHANGED Pending
    BY <1>0 DEF Live, Pending
<1>2. UNCHANGED Unpublished
    BY <1>0, <1>1 DEF Unpublished
<1>3. UNCHANGED HasPublished
    BY <1>1, <1>2 DEF HasPublished
<1>4. UNCHANGED StaysPublic
    BY <1>0, <1>3 DEF StaysPublic
<1>5. \A t : Settled(t)' = Settled(t) /\ (CanSettle(t)' <=> CanSettle(t))
    BY <1>0, <1>4 DEF Settled, CanSettle, CanTransition
<1>6. \A v : ReviewStatus(v)' = ReviewStatus(v)
    BY <1>0 DEF ReviewStatus
<1>7. /\ UNCHANGED CurrentAudience /\ UNCHANGED AudienceReady
      /\ UNCHANGED CandidateStatus /\ UNCHANGED RestoredStatus
    BY <1>0, <1>3 DEF CurrentAudience, AudienceReady, CandidateStatus, RestoredStatus
<1>8. \A j, outcome : Closed(j, outcome)' = Closed(j, outcome)
    BY <1>0, <1>1 DEF Closed
<1>9. Approvable(i) => Approvable(i)'
    <2>1. Latest(Live)' = Latest(Live)
        BY <1>0, <1>1 DEF Latest
    <2> QED BY <1>0, <1>1, <1>2, <2>1 DEF Approvable
<1>10. ASSUME NEW s PROVE Writes(s)' = Writes(s)
    BY <1>0 DEF Writes, Changed, ChangedRows, Inserted
<1>11. ASSUME NEW s, Kind(op, s) PROVE Kind(op, s)'
    <2>1. Submits(s) => Submits(s)'
        BY <1>0, <1>1, <1>2, <1>5, <1>7 DEF Submits, Submittable
    <2>2. Reverts(s) => Reverts(s)'
        BY <1>0, <1>1, <1>2, <1>5, <1>7, <1>8 DEF Reverts
    <2>3. Dismisses(op, s) => Dismisses(op, s)'
        BY <1>0, <1>1 DEF Dismisses
    <2>4. Edits(s) => Edits(s)'
        BY <1>0, <1>1, <1>2, <1>6 DEF Edits, Mutable
    <2>5. Releases(op, s) => Releases(op, s)'
        BY <1>0, <1>1, <1>2, <1>6, <1>7 DEF Releases, Publishable
    <2>6. Adds(s) => Adds(s)'
        BY <1>0, <1>7 DEF Adds
    <2>7. Readdresses(s) => Readdresses(s)'
        BY <1>0, <1>7 DEF Readdresses
    <2> QED BY <1>11, <2>1, <2>2, <2>3, <2>4, <2>5, <2>6, <2>7 DEF Kind
<1>12. ASSUME NEW s, Derived(s, i) PROVE Derived(s, i)'
    BY <1>0, <1>12 DEF Derived, Numbered
<1>13. ASSUME NEW s, Approves(i, s) PROVE Approves(i, s)'
    BY <1>0, <1>5, <1>13 DEF Approves
<1> QED BY <1>9, <1>10, <1>11, <1>12, <1>13 DEF Lawful

\* One step of requests that do not overlap: the rows stay as they are, or a
\* request stores what it computed from them.
LEMMA AloneStep ==
    ASSUME OneAtATime, WorkInv, InFlight, [Next]_vars
    PROVE  /\ InFlight'
           /\ \/ UNCHANGED <<doc, versions, reviews>>
              \/ \E r \in Requests : \E s : Takes(r, s)
<1>0. DOMAIN requests = Requests
    BY DEF WorkInv, RequestsFit
<1>1. ASSUME NEW r \in Requests, Begins(r)
      PROVE  InFlight' /\ UNCHANGED <<doc, versions, reviews>>
    <2>1. PICK s, op : op # "approve" /\ Derived(s, 0) /\ Kind(op, s) /\ Begin(r, op, s)
        BY <1>1 DEF Begins
    <2>2. UNCHANGED stored /\ requests' = [requests EXCEPT ![r] = [op |-> op, review |-> 0,
                                                                  writes |-> Writes(s)]]
        BY <2>1 DEF Begin
    <2>3. requests'[r].op = op /\ requests'[r].review = 0 /\ requests'[r].writes = Writes(s)
        BY <1>0, <2>2
    <2>4. Lawful(op, 0, s)' /\ Writes(s)' = Writes(s)
        BY <2>1, <2>2, LawfulStays DEF Lawful
    <2>5. \A t \in Requests : t = r
        BY DEF OneAtATime
    <2>6. InFlight'
        BY <2>1, <2>3, <2>4, <2>5 DEF InFlight, Begin, Free
    <2> QED BY <2>2, <2>6 DEF stored
<1>2. ASSUME NEW r \in Requests, NEW i \in DOMAIN reviews, ValidateApproval(r, i)
      PROVE  InFlight' /\ UNCHANGED <<doc, versions, reviews>>
    <2>1. /\ UNCHANGED stored /\ requests' = [requests EXCEPT ![r] =
                                                [Idle EXCEPT !.op = "approve", !.review = i]]
          /\ Approvable(i)
        BY <1>2 DEF ValidateApproval, Approvable, Pending
    <2>2. requests'[r].review = i /\ requests'[r].writes = None
        BY <1>0, <2>1 DEF Idle
    <2>3. Approvable(i)'
        BY <2>1, LawfulStays
    <2>4. \A t \in Requests : t = r
        BY DEF OneAtATime
    <2>5. InFlight'
        BY <2>2, <2>3, <2>4 DEF InFlight, Ready
    <2> QED BY <2>1, <2>5 DEF stored
<1>3. ASSUME NEW r \in Requests, Approve(r)
      PROVE  InFlight' /\ UNCHANGED <<doc, versions, reviews>>
    <2> DEFINE i == requests[r].review
               s == [Session EXCEPT !.doc.status = Settled("approved"),
                                    !.reviews[i].status = "approved"]
    <2>1. /\ UNCHANGED stored /\ requests' = [requests EXCEPT ![r].writes = Writes(s)]
          /\ requests[r].op = "approve"
        BY <1>3 DEF Approve
    <2>2. requests'[r].op = "approve" /\ requests'[r].review = i /\ requests'[r].writes = Writes(s)
        BY <1>0, <2>1 DEF WorkInv, RequestsFit
    <2>3. Approvable(i)
        BY <2>1 DEF InFlight
    <2>4. i \in DOMAIN reviews /\ i \in Nat
        BY <2>3 DEF Approvable, Pending, WorkInv, TypeOK
    <2>5. Derived(s, i)
        BY <2>4, ApproveDerives DEF WorkInv
    <2>6. Approves(i, s)
        BY DEF Approves, Session, WorkInv, TypeOK, Document
    <2> HIDE DEF i, s
    <2>7. PICK x, j : x = s /\ j = i
        OBVIOUS
    <2>8. Lawful("approve", j, x)
        BY <2>3, <2>5, <2>6, <2>7 DEF Lawful
    <2>9. Lawful("approve", j, x)' /\ Writes(x)' = Writes(x) /\ Approvable(j)'
        BY <2>1, <2>3, <2>7, <2>8, LawfulStays
    <2>10. requests'[r].op = "approve" /\ requests'[r].review = j /\ requests'[r].writes = Writes(x)
        BY <2>2, <2>7
    <2>11. \A t \in Requests : t = r
        BY DEF OneAtATime
    <2>12. "approve" \in Operations
        BY <2>1 DEF WorkInv, TypeOK
    <2>13. InFlight'
        BY <2>9, <2>10, <2>11, <2>12 DEF InFlight
    <2> QED BY <2>1, <2>13 DEF stored
<1>4. ASSUME NEW r \in Requests, requests'[r] = Idle PROVE InFlight'
    <2>1. \A t \in Requests : t = r
        BY DEF OneAtATime
    <2> QED BY <1>4, <2>1 DEF InFlight, Ready, Idle
<1>5. ASSUME NEW r \in Requests, Commit(r)
      PROVE  InFlight' /\ \E s : Takes(r, s)
    <2>1. Ready(r) /\ requests'[r] = Idle /\ UNCHANGED active
        BY <1>0, <1>5 DEF Commit
    <2>2. PICK s : /\ requests[r].writes = Writes(s)
                   /\ Lawful(requests[r].op, requests[r].review, s)
        BY <2>1 DEF InFlight
    <2>3. doc' = s.doc /\ versions' = s.versions /\ reviews' = s.reviews
        BY <1>5, <2>2, CommitStores DEF Lawful, WorkInv
    <2>4. requests[r].op \in Operations
        BY <2>1 DEF InFlight
    <2> QED BY <1>4, <2>1, <2>2, <2>3, <2>4 DEF Takes
<1>6. ASSUME NEW r \in Requests, Rollback(r)
      PROVE  InFlight' /\ UNCHANGED <<doc, versions, reviews>>
    BY <1>0, <1>4, <1>6 DEF Rollback, stored
<1>7. ASSUME NEW r \in Requests, CompanyStep(r)
      PROVE  InFlight' /\ UNCHANGED <<doc, versions, reviews>>
    BY <1>4, <1>7
    DEF CompanyStep, SuspendCompany, ReactivateCompany, DeactivateCompany, Free
<1>8. CASE UNCHANGED vars
    <2>1. UNCHANGED stored /\ UNCHANGED requests
        BY <1>8 DEF vars, stored
    <2>2. ASSUME NEW r \in Requests
          PROVE  /\ requests'[r].op = "approve" => Approvable(requests[r].review)'
                 /\ Ready(r)' => requests'[r].op \in Operations
                 /\ Ready(r)' => \E s : /\ requests'[r].writes = Writes(s)'
                                        /\ Lawful(requests[r].op, requests[r].review, s)'
        <3>1. PICK op, i : op = requests[r].op /\ i = requests[r].review
            OBVIOUS
        <3>2. op = "approve" => Approvable(i)'
            BY <2>1, <3>1, LawfulStays DEF InFlight
        <3>3. Ready(r) => \E s : requests[r].writes = Writes(s)' /\ Lawful(op, i, s)'
            BY <2>1, <3>1, LawfulStays DEF InFlight
        <3> QED BY <2>1, <3>1, <3>2, <3>3 DEF Ready, InFlight
    <2> QED BY <2>1, <2>2 DEF InFlight, stored
<1>9. ASSUME NEW r \in Requests, ReviewStep(r)
      PROVE  InFlight' /\ UNCHANGED <<doc, versions, reviews>>
    <2>1. ASSUME Submit(r) PROVE Begins(r)
        BY <2>1, SubmitDerives DEF WorkInv
    <2>2. ASSUME NEW i \in DOMAIN reviews, Reject(r, i) \/ Cancel(r, i) PROVE Begins(r)
        BY <2>2, RevertDerives DEF WorkInv, Reject, Cancel
    <2>3. ASSUME NEW i \in DOMAIN reviews, AssistantReject(r, i) PROVE Begins(r)
        BY <2>3, AssistantRejectDerives DEF WorkInv
    <2> QED BY <1>1, <1>2, <1>3, <1>9, <2>1, <2>2, <2>3 DEF ReviewStep
<1>10. ASSUME NEW r \in Requests, VersionStep(r) \/ DocumentStep(r)
       PROVE  InFlight' /\ UNCHANGED <<doc, versions, reviews>>
    BY <1>1, <1>10, VersionStepDerives, DocumentStepDerives DEF WorkInv
<1> QED BY <1>5, <1>6, <1>7, <1>8, <1>9, <1>10 DEF Next, vars

LEMMA AloneAlways ==
    ASSUME OneAtATime
    PROVE  Spec => [](WorkInv /\ InFlight)
<1>1. Init => InFlight
    BY DEF Init, InFlight, Ready, Idle
<1>2. WorkInv /\ InFlight /\ [Next]_vars => InFlight'
    BY AloneStep
<1> QED BY <1>1, <1>2, WorkAlways, PTL DEF Spec

-----------------------------------------------------------------------------
(* The reviews.                                                            *)

\* No later review is of the same version.
LastOfVersion(rs, i) == \A j \in DOMAIN rs : rs[j].version = rs[i].version => j <= i

\* A review that is still to be decided is the newest one.
PendingIsLast(rs) == \A i \in DOMAIN rs : rs[i].status = "pending" => i = Len(rs)

\* While a review of a version is pending, and as long as its approval is the last
\* word about that version, the version has the content that was submitted.
Unedited(vs, rs) ==
    \A i \in DOMAIN rs :
      /\ rs[i].status \in {"pending", "approved"}
      /\ rs[i].version # 0
      /\ LastOfVersion(rs, i)
      => vs[rs[i].version].content = rs[i].content

\* The inductive invariant of the reviews and what they are of.
ReviewRows(vs, rs) ==
    /\ \A i \in DOMAIN rs : rs[i].version \in 0 .. Len(vs)
    /\ PendingIsLast(rs)
    /\ Unedited(vs, rs)

\* The status of a document tells what became of its last review.
Judged(d, rs) ==
    \A status \in {"pending_review", "approved"} :
      d.status = status =>
        rs # <<>> /\ rs[Len(rs)].status = IF status = "approved" THEN status ELSE "pending"

\* A document is public exactly when a version is, unless it is archived.
Public(d, vs) ==
    d.status # "archived" =>
      (d.status = "active" <=> \E v \in DOMAIN vs : vs[v].live /\ vs[v].published)

\* A review that is decided, or left; the versions stay.
LEMMA DecidingKeepsRows ==
    ASSUME TypeOK, ReviewRows(versions, reviews), NEW rs \in Seq(Review),
           Len(rs) = Len(reviews),
           \A j \in DOMAIN reviews :
             /\ SameReview(reviews[j], rs[j])
             /\ rs[j].status = "pending" => reviews[j].status = "pending"
             /\ rs[j].status = "approved" => reviews[j].status \in {"pending", "approved"}
    PROVE  ReviewRows(versions, rs)
<1>1. DOMAIN rs = DOMAIN reviews
    BY DEF TypeOK
<1>2. \A j \in DOMAIN reviews : rs[j].version = reviews[j].version /\ rs[j].content = reviews[j].content
    BY DEF SameReview
<1>3. \A j \in DOMAIN rs : LastOfVersion(rs, j) => LastOfVersion(reviews, j)
    BY <1>1, <1>2 DEF LastOfVersion
<1>4. PendingIsLast(rs)
    BY <1>1 DEF ReviewRows, PendingIsLast
<1>5. Unedited(versions, rs)
    BY <1>1, <1>2, <1>3 DEF ReviewRows, Unedited
<1> QED BY <1>1, <1>2, <1>4, <1>5 DEF ReviewRows

\* The status of the last of the reviews of a version.
StatusOf(rs, v) ==
    LET of == {i \in DOMAIN rs : rs[i].version = v}
    IN IF of = {} THEN "none" ELSE rs[CHOOSE i \in of : \A j \in of : j <= i].status

LEMMA ReviewStatusOf == \A v : ReviewStatus(v) = StatusOf(reviews, v)
    BY DEF ReviewStatus, StatusOf

LEMMA StatusOfLast ==
    ASSUME NEW rs \in Seq(Review), NEW i \in DOMAIN rs, LastOfVersion(rs, i)
    PROVE  StatusOf(rs, rs[i].version) = rs[i].status
<1> DEFINE of == {j \in DOMAIN rs : rs[j].version = rs[i].version}
<1>1. i \in of /\ \A j \in of : j <= i
    BY DEF LastOfVersion
<1>2. \A k \in of : (\A j \in of : j <= k) => k = i
    BY <1>1
<1>3. (CHOOSE k \in of : \A j \in of : j <= k) = i
    BY <1>1, <1>2
<1> QED BY <1>1, <1>3 DEF StatusOf

LEMMA StatusCases ==
    ASSUME NEW rs \in Seq(Review), NEW v
    PROVE  \/ StatusOf(rs, v) = "none" /\ \A i \in DOMAIN rs : rs[i].version # v
           \/ \E i \in DOMAIN rs :
                /\ rs[i].version = v /\ LastOfVersion(rs, i)
                /\ rs[i].status = StatusOf(rs, v)
<1> DEFINE of == {j \in DOMAIN rs : rs[j].version = v}
           place == [j \in Nat |-> j]
<1>1. CASE of = {}
    BY <1>1 DEF StatusOf
<1>2. CASE of # {}
    <2>1. Len(rs) \in Nat /\ of \in SUBSET (1 .. Len(rs))
        OBVIOUS
    <2>2. \A j \in of : place[j] = j /\ j \in Nat
        BY <2>1
    <2>3. PICK i \in of : \A j \in of : j <= i
        <3> HIDE DEF of, place
        <3>1. \A j \in of : place[j] \in Nat
            BY <2>2
        <3>2. \E i \in of : \A j \in of : place[j] <= place[i]
            BY <1>2, <2>1, <3>1, MaximumExists
        <3> QED BY <2>2, <3>2
    <2>4. LastOfVersion(rs, i)
        BY <2>3 DEF LastOfVersion
    <2> QED BY <2>3, <2>4, StatusOfLast
<1> QED BY <1>1, <1>2

\* The status that guards of versions look at is that of the last review.
LEMMA ReviewStatusOfLast ==
    ASSUME TypeOK, NEW i \in DOMAIN reviews, LastOfVersion(reviews, i)
    PROVE  ReviewStatus(reviews[i].version) = reviews[i].status
    BY ReviewStatusOf, StatusOfLast DEF TypeOK

LEMMA SubmittingKeepsRows ==
    ASSUME TypeOK, ReviewRows(versions, reviews), Pending = {},
           NEW row \in Review,
           row.version # 0 =>
             row.version \in Unpublished /\ row.content = versions[row.version].content
    PROVE  ReviewRows(versions, Append(reviews, row))
<1> DEFINE rs == Append(reviews, row)
<1>1. /\ Len(rs) = Len(reviews) + 1 /\ Len(reviews) \in Nat
      /\ \A j \in DOMAIN reviews : rs[j] = reviews[j] /\ j \in DOMAIN rs
      /\ \A j \in DOMAIN rs : j \in DOMAIN reviews \/ (j = Len(rs) /\ rs[j] = row)
    <2>1. reviews \in Seq(Review)
        BY DEF TypeOK
    <2>2. Len(rs) = Len(reviews) + 1 /\ Len(reviews) \in Nat
        BY <2>1
    <2>3. DOMAIN rs = 1 .. Len(reviews) + 1 /\ DOMAIN reviews = 1 .. Len(reviews)
        BY <2>1
    <2>4. \A j \in DOMAIN reviews : rs[j] = reviews[j]
        BY <2>1
    <2>5. rs[Len(reviews) + 1] = row
        BY <2>1
    <2> HIDE DEF rs
    <2> QED BY <2>2, <2>3, <2>4, <2>5
<1> HIDE DEF rs
<1>2. row.version \in 0 .. Len(versions)
    BY DEF Review, Unpublished, Live, TypeOK
<1>3. PendingIsLast(rs)
    BY <1>1 DEF PendingIsLast, Pending
<1>4. \A j \in DOMAIN reviews : LastOfVersion(rs, j) => LastOfVersion(reviews, j)
    BY <1>1 DEF LastOfVersion
<1>5. Unedited(versions, rs)
    BY <1>1, <1>4 DEF Unedited, ReviewRows
<1>6. \A j \in DOMAIN rs : rs[j].version \in 0 .. Len(versions)
    BY <1>1, <1>2 DEF ReviewRows
<1> QED BY <1>3, <1>5, <1>6 DEF ReviewRows, rs

\* An edit, a deletion, a schedule or a release of a version.
LEMMA EditingKeepsRows ==
    ASSUME TypeOK, ReviewRows(versions, reviews), NEW v \in DOMAIN versions, NEW row,
           row.content = versions[v].content \/ Mutable(v)
    PROVE  ReviewRows([versions EXCEPT ![v] = row], reviews)
<1> DEFINE vs == [versions EXCEPT ![v] = row]
<1>1. /\ Len(vs) = Len(versions) /\ vs[v] = row
      /\ \A u \in DOMAIN versions : u # v => vs[u] = versions[u]
    BY DEF TypeOK
<1> HIDE DEF vs
<1>2. ASSUME NEW i \in DOMAIN reviews, reviews[i].status \in {"pending", "approved"},
             reviews[i].version # 0, LastOfVersion(reviews, i)
      PROVE  vs[reviews[i].version].content = reviews[i].content
    <2>1. versions[reviews[i].version].content = reviews[i].content
        BY <1>2 DEF ReviewRows, Unedited
    <2>2. reviews[i].version \in DOMAIN versions
        BY <1>2 DEF ReviewRows, TypeOK
    <2>3. reviews[i].version = v => ~Mutable(v)
        BY <1>2, ReviewStatusOfLast DEF Mutable
    <2> QED BY <1>1, <2>1, <2>2, <2>3
<1> QED BY <1>1, <1>2 DEF ReviewRows, Unedited, vs

LEMMA AddingKeepsRows ==
    ASSUME TypeOK, ReviewRows(versions, reviews), NEW row \in Version
    PROVE  ReviewRows(Append(versions, row), reviews)
<1> DEFINE vs == Append(versions, row)
<1>1. /\ Len(vs) = Len(versions) + 1 /\ Len(versions) \in Nat
      /\ \A u \in DOMAIN versions : vs[u] = versions[u]
    BY DEF TypeOK
<1> HIDE DEF vs
<1>2. \A i \in DOMAIN reviews : reviews[i].version # 0 => reviews[i].version \in DOMAIN versions
    BY DEF ReviewRows, TypeOK
<1>3. \A i \in DOMAIN reviews : reviews[i].version \in 0 .. Len(vs)
    BY <1>1 DEF ReviewRows
<1> QED BY <1>1, <1>2, <1>3 DEF ReviewRows, Unedited, vs

\* What an operation does to the statuses of the reviews that were there, and the
\* rows that it leaves alone.
LEMMA LawfulKeepsRows ==
    ASSUME TypeOK, ReviewRows(versions, reviews), NEW op, NEW i, NEW s, Lawful(op, i, s)
    PROVE  /\ ReviewRows(s.versions, s.reviews)
           /\ \A j \in DOMAIN reviews \ Pending : s.reviews[j].status = reviews[j].status
<1> DEFINE Goal == /\ ReviewRows(s.versions, s.reviews)
                   /\ \A j \in DOMAIN reviews \ Pending : s.reviews[j].status = reviews[j].status
<1>0. s.reviews \in Seq(Review) /\ \A j \in DOMAIN reviews : SameReview(reviews[j], s.reviews[j])
    BY DEF Lawful, Derived, Sessions
<1>1. ASSUME Approvable(i), Approves(i, s) PROVE Goal
    <2>1. i \in DOMAIN reviews /\ reviews[i].status = "pending" /\ i \in Pending
        BY <1>1 DEF Approvable, Pending
    <2>2. /\ Len(s.reviews) = Len(reviews) /\ s.reviews[i].status = "approved"
          /\ \A j \in DOMAIN reviews : j # i => s.reviews[j] = reviews[j]
        BY <1>1, <2>1, ReviewType DEF Approves, TypeOK, Review
    <2>3. s.versions = versions
        BY <1>1 DEF Approves
    <2> QED BY <1>0, <2>1, <2>2, <2>3, DecidingKeepsRows
<1>2. ASSUME Submits(s) PROVE Goal
    <2>1. PICK row \in Review :
            /\ s.reviews = Append(reviews, row)
            /\ row.version # 0 =>
                 row.version \in Unpublished /\ row.content = versions[row.version].content
        BY <1>2 DEF Submits
    <2>2. Pending = {} /\ s.versions = versions
        BY <1>2 DEF Submits, Submittable
    <2>3. \A j \in DOMAIN reviews : s.reviews[j] = reviews[j]
        BY <2>1 DEF TypeOK
    <2> QED BY <2>1, <2>2, <2>3, SubmittingKeepsRows
<1>3. ASSUME Reverts(s) PROVE Goal
    <2>1. PICK k \in Pending, outcome \in {"rejected", "cancelled"} : s.reviews = Closed(k, outcome)
        BY <1>3 DEF Reverts
    <2>2. /\ Len(s.reviews) = Len(reviews)
          /\ \A j \in DOMAIN reviews :
               s.reviews[j].status = CASE j = k -> outcome
                                       [] j \in Pending \ {k} -> "cancelled"
                                       [] OTHER -> reviews[j].status
        BY <2>1, ClosedType DEF Pending
    <2>3. \A j \in DOMAIN reviews :
            \/ j \in Pending /\ s.reviews[j].status \in {"rejected", "cancelled"}
            \/ j \notin Pending /\ s.reviews[j].status = reviews[j].status
        BY <2>2
    <2>4. s.versions = versions
        BY <1>3 DEF Reverts
    <2>5. \A j \in DOMAIN reviews : j \notin Pending => reviews[j].status # "pending"
        BY DEF Pending
    <2> QED BY <1>0, <2>2, <2>3, <2>4, <2>5, DecidingKeepsRows
<1>4. ASSUME Dismisses(op, s) PROVE Goal
    <2>1. PICK k \in Pending : s.reviews = [reviews EXCEPT ![k] = [@ EXCEPT !.status = "rejected"]]
        BY <1>4 DEF Dismisses
    <2>2. k \in DOMAIN reviews
        BY DEF Pending
    <2>3. /\ Len(s.reviews) = Len(reviews) /\ s.reviews[k].status = "rejected"
          /\ \A j \in DOMAIN reviews : j # k => s.reviews[j] = reviews[j]
        BY <2>1, <2>2, ReviewType DEF TypeOK, Review
    <2>4. s.versions = versions
        BY <1>4 DEF Dismisses
    <2> QED BY <1>0, <2>2, <2>3, <2>4, DecidingKeepsRows
<1>5. ASSUME Edits(s) PROVE Goal
    BY <1>5, EditingKeepsRows, UnpublishedRows DEF Edits
<1>6. ASSUME Releases(op, s) PROVE Goal
    BY <1>6, EditingKeepsRows, UnpublishedRows DEF Releases
<1>7. ASSUME Adds(s) PROVE Goal
    BY <1>7, AddingKeepsRows DEF Adds
<1>8. ASSUME Readdresses(s) PROVE Goal
    BY <1>8 DEF Readdresses
<1> QED BY <1>1, <1>2, <1>3, <1>4, <1>5, <1>6, <1>7, <1>8 DEF Lawful, Kind

\* The inductive invariant of the reviews, on top of what is in flight.
SerialInv == WorkInv /\ InFlight /\ ReviewRows(versions, reviews)

LEMMA SerialAlways ==
    ASSUME OneAtATime
    PROVE  Spec => []SerialInv
<1>1. Init => ReviewRows(versions, reviews)
    BY DEF Init, ReviewRows, PendingIsLast, Unedited
<1>2. ASSUME WorkInv, InFlight, ReviewRows(versions, reviews), [Next]_vars
      PROVE  ReviewRows(versions, reviews)'
    <2>1. CASE UNCHANGED <<doc, versions, reviews>>
        BY <1>2, <2>1 DEF ReviewRows, PendingIsLast, Unedited, LastOfVersion
    <2>2. ASSUME NEW r \in Requests, NEW s, Takes(r, s) PROVE ReviewRows(versions, reviews)'
        <3>1. ReviewRows(s.versions, s.reviews)
            BY <1>2, <2>2, LawfulKeepsRows DEF Takes, WorkInv
        <3> QED BY <2>2, <3>1 DEF Takes, ReviewRows, PendingIsLast, Unedited, LastOfVersion
    <2> QED BY <1>2, <2>1, <2>2, AloneStep
<1> QED BY <1>1, <1>2, AloneAlways, PTL DEF Spec, SerialInv

\* Whatever is submitted, decided, archived, restored and created in between, a
\* document waits for one decision at most: the guard of submissions sees every
\* review that is pending.
THEOREM OnePending ==
    ASSUME OneAtATime
    PROVE  Spec => []OnePendingReview
<1>1. ASSUME SerialInv PROVE OnePendingReview
    <2>1. Pending \subseteq {Len(reviews)}
        BY <1>1 DEF SerialInv, ReviewRows, PendingIsLast, Pending
    <2>2. IsFiniteSet({Len(reviews)}) /\ Cardinality({Len(reviews)}) = 1
        BY FS_Singleton
    <2>3. Cardinality(Pending) <= 1
        BY <2>1, <2>2, FS_Subset
    <2> QED BY <2>3 DEF OnePendingReview
<1> QED BY <1>1, SerialAlways, PTL

\* A decision stands: no later operation writes the status of a review that was
\* approved, rejected or cancelled.
THEOREM DecisionsStand ==
    ASSUME OneAtATime
    PROVE  Spec => DecisionIsFinal
<1>1. ASSUME SerialInv, [Next]_vars
      PROVE  \A i \in DOMAIN reviews :
               reviews[i].status # "pending" => reviews'[i].status = reviews[i].status
    <2>1. ASSUME NEW r \in Requests, NEW s, Takes(r, s)
          PROVE  \A i \in DOMAIN reviews \ Pending : reviews'[i].status = reviews[i].status
        BY <1>1, <2>1, LawfulKeepsRows DEF SerialInv, Takes, WorkInv
    <2> QED BY <1>1, <2>1, AloneStep DEF SerialInv, Pending
<1> QED BY <1>1, SerialAlways, PTL DEF Spec, DecisionIsFinal

\* No edit and no newer version comes between submission and approval: edits look at
\* the last review of the version, and the approval looks for the latest version.
THEOREM ApprovedUnedited ==
    ASSUME OneAtATime
    PROVE  Spec => ApprovedAsSubmitted
<1>1. ASSUME SerialInv, [Next]_vars,
             NEW i \in DOMAIN reviews, reviews[i].status = "pending",
             reviews'[i].status = "approved", reviews[i].version # 0
      PROVE  /\ versions[reviews[i].version].content = reviews[i].content
             /\ reviews[i].version \in Latest(Live) \cap Unpublished
    <2>1. PICK r \in Requests : \E s : Takes(r, s)
        BY <1>1, AloneStep DEF SerialInv
    <2>2. PICK s : Takes(r, s)
        BY <2>1
    <2>3. i = requests[r].review
        BY <1>1, <2>2 DEF Takes, Lawful, Derived
    <2>4. requests[r].op = "approve"
        BY <1>1, <2>3 DEF SerialInv, WorkInv, RequestsFit
    <2>5. Approvable(i)
        BY <2>2, <2>3, <2>4 DEF Takes, Lawful
    <2>6. LastOfVersion(reviews, i)
        BY <1>1 DEF SerialInv, ReviewRows, PendingIsLast, LastOfVersion, WorkInv, TypeOK
    <2> QED BY <1>1, <2>5, <2>6 DEF Approvable, SerialInv, ReviewRows, Unedited
<1>2. ASSUME SerialInv, [Next]_vars
      PROVE  \A i \in DOMAIN reviews :
               /\ reviews[i].status = "pending"
               /\ reviews'[i].status = "approved"
               /\ reviews[i].version # 0
               => /\ versions[reviews[i].version].content = reviews[i].content
                  /\ reviews[i].version \in Latest(Live) \cap Unpublished
    BY <1>1, <1>2
<1> QED BY <1>2, SerialAlways, PTL DEF Spec, ApprovedAsSubmitted

-----------------------------------------------------------------------------
(* The versions.                                                           *)

\* What publishing an unpublished version writes.
Released(op, v, row) ==
    /\ row.live /\ row.published
    /\ row.content = versions[v].content
    /\ row.audience = CurrentAudience
    /\ op # "force_publish" =>
         Publishable(v) /\ (EnforceAudience => companies \subseteq active /\ AudienceReady)

\* An operation touches an unpublished version at most, and releases it or leaves it
\* unpublished.
LEMMA LawfulVersions ==
    ASSUME TypeOK, NEW op, NEW i, NEW s, Lawful(op, i, s), NEW v \in DOMAIN versions
    PROVE  \/ s.versions[v] = versions[v]
           \/ /\ v \in Unpublished
              /\ ~s.versions[v].published \/ Released(op, v, s.versions[v])
<1> DEFINE Goal == \/ s.versions[v] = versions[v]
                   \/ /\ v \in Unpublished
                      /\ ~s.versions[v].published \/ Released(op, v, s.versions[v])
<1>1. ASSUME Edits(s) PROVE Goal
    <2>1. PICK u \in Unpublished, row \in Version :
            s.versions = [versions EXCEPT ![u] = row] /\ ~row.published
        BY <1>1 DEF Edits
    <2>2. s.versions[v] = IF v = u THEN row ELSE versions[v]
        BY <2>1
    <2> QED BY <2>1, <2>2
<1>2. ASSUME Releases(op, s) PROVE Goal
    <2>1. PICK u \in Unpublished, row \in Version :
            s.versions = [versions EXCEPT ![u] = row] /\ Released(op, u, row)
        BY <1>2 DEF Releases, Released
    <2>2. s.versions[v] = IF v = u THEN row ELSE versions[v]
        BY <2>1
    <2> QED BY <2>1, <2>2
<1>3. ASSUME Adds(s) PROVE Goal
    <2>1. PICK row \in Version : s.versions = Append(versions, row)
        BY <1>3 DEF Adds
    <2> QED BY <2>1 DEF TypeOK
<1>4. ASSUME s.versions = versions PROVE Goal
    BY <1>4
<1> QED BY <1>1, <1>2, <1>3, <1>4
        DEF Lawful, Approves, Kind, Submits, Reverts, Dismisses, Readdresses

\* A version that changes in a step, and what the request makes of it.
LEMMA VersionSteps ==
    ASSUME OneAtATime, SerialInv, [Next]_vars,
           NEW v \in DOMAIN versions, versions'[v] # versions[v]
    PROVE  \E r \in Requests :
             /\ requests'[r] = Idle
             /\ v \in Unpublished
             /\ ~versions'[v].published \/ Released(requests[r].op, v, versions'[v])
<1>1. PICK r \in Requests : \E s : Takes(r, s)
    BY AloneStep DEF SerialInv
<1>2. PICK s : Takes(r, s)
    BY <1>1
<1>3. PICK op, i : op = requests[r].op /\ i = requests[r].review
    OBVIOUS
<1>4. Lawful(op, i, s) /\ versions' = s.versions /\ requests'[r] = Idle
    BY <1>2, <1>3 DEF Takes
<1>5. /\ v \in Unpublished
      /\ ~s.versions[v].published \/ Released(op, v, s.versions[v])
    BY <1>4, LawfulVersions DEF SerialInv, WorkInv
<1> QED BY <1>3, <1>4, <1>5

\* A published version is never written again, by any operation.
THEOREM PublishedFrozen ==
    ASSUME OneAtATime
    PROVE  Spec => PublishedIsImmutable
<1>1. ASSUME SerialInv, [Next]_vars
      PROVE  \A v \in Live \ Unpublished : versions'[v] = versions[v]
    BY <1>1, VersionSteps DEF Live
<1> QED BY <1>1, SerialAlways, PTL DEF Spec, PublishedIsImmutable

\* Unless it is forced, what goes out is what was approved: from the submission
\* through the approval to the publication the content stays.
THEOREM PublishedUnedited ==
    ASSUME OneAtATime
    PROVE  Spec => PublishedAsApproved
<1>1. ASSUME SerialInv, [Next]_vars, NEW v \in DOMAIN versions, Publishes(v), ~Forced
      PROVE  \E i \in DOMAIN reviews :
               /\ reviews[i].version = v
               /\ reviews[i].status = "approved"
               /\ reviews[i].content = versions[v].content
    <2>1. versions'[v] # versions[v]
        BY <1>1 DEF Publishes
    <2>2. PICK r \in Requests : requests'[r] = Idle /\ Released(requests[r].op, v, versions'[v])
        BY <1>1, <2>1, VersionSteps DEF Publishes
    <2>3. ReviewStatus(v) = "approved"
        BY <1>1, <2>2 DEF Forced, Released, Publishable
    <2>4. PICK i \in DOMAIN reviews :
            reviews[i].version = v /\ LastOfVersion(reviews, i) /\ reviews[i].status = "approved"
        BY <1>1, <2>3, StatusCases, ReviewStatusOf DEF SerialInv, WorkInv, TypeOK
    <2>5. v # 0
        BY <1>1 DEF SerialInv, WorkInv, TypeOK
    <2> QED BY <1>1, <2>4, <2>5 DEF SerialInv, ReviewRows, Unedited
<1>2. ASSUME SerialInv, [Next]_vars
      PROVE  \A v \in DOMAIN versions :
               Publishes(v) /\ ~Forced =>
                 \E i \in DOMAIN reviews :
                   /\ reviews[i].version = v
                   /\ reviews[i].status = "approved"
                   /\ reviews[i].content = versions[v].content
    BY <1>1, <1>2
<1> QED BY <1>2, SerialAlways, PTL DEF Spec, PublishedAsApproved

\* Where the tenant enforces audiences, a version goes out to the companies that the
\* document has at that moment, all of them active, and to none if it is internal.
THEOREM PublishedAddressed ==
    ASSUME OneAtATime, EnforceAudience
    PROVE  Spec => PublishedToAudience
<1>1. ASSUME SerialInv, [Next]_vars, NEW v \in DOMAIN versions, Publishes(v), ~Forced
      PROVE  /\ versions'[v].audience = CurrentAudience
             /\ CurrentAudience.visibility = "company" <=> CurrentAudience.companies # {}
             /\ CurrentAudience.companies \subseteq active
    <2>1. versions'[v] # versions[v]
        BY <1>1 DEF Publishes
    <2>2. PICK r \in Requests : requests'[r] = Idle /\ Released(requests[r].op, v, versions'[v])
        BY <1>1, <2>1, VersionSteps DEF Publishes
    <2>3. companies \subseteq active /\ AudienceReady
        BY <1>1, <2>2 DEF Forced, Released
    <2> QED BY <2>2, <2>3 DEF Released, CurrentAudience, AudienceReady
<1>2. ASSUME SerialInv, [Next]_vars
      PROVE  \A v \in DOMAIN versions :
               Publishes(v) /\ ~Forced =>
                 LET audience == versions'[v].audience
                 IN /\ audience = CurrentAudience
                    /\ audience.visibility = "company" <=> audience.companies # {}
                    /\ audience.companies \subseteq active
    BY <1>1, <1>2
<1> QED BY <1>2, SerialAlways, PTL DEF Spec, PublishedToAudience

-----------------------------------------------------------------------------
(* The status of the document.                                             *)

LEMMA PublicRows == HasPublished <=> \E v \in DOMAIN versions : versions[v].live /\ versions[v].published
    BY DEF HasPublished, Unpublished, Live

LEMMA LawfulKeepsPublic ==
    ASSUME TypeOK, Public(doc, versions), NEW op, NEW i, NEW s, Lawful(op, i, s)
    PROVE  Public(s.doc, s.versions)
<1>1. doc.status # "archived" => (doc.status = "active" <=> HasPublished)
    BY PublicRows DEF Public
<1>2. ASSUME s.versions = versions,
             s.doc.status \in {doc.status, "archived", RestoredStatus,
                               Settled("pending_review"), Settled("draft"), Settled("approved")}
      PROVE  Public(s.doc, s.versions)
    BY <1>1, <1>2, PublicRows DEF Public, RestoredStatus, Settled, StaysPublic
<1>3. ASSUME Edits(s) PROVE Public(s.doc, s.versions)
    <2>1. PICK v \in Unpublished, row \in Version :
            s.versions = [versions EXCEPT ![v] = row] /\ ~row.published
        BY <1>3 DEF Edits
    <2>2. v \in DOMAIN versions /\ ~versions[v].published
        BY UnpublishedRows
    <2> QED BY <1>3, <2>1, <2>2 DEF Edits, Public
<1>4. ASSUME Releases(op, s) PROVE Public(s.doc, s.versions)
    <2>1. PICK v \in Unpublished, row \in Version :
            s.versions = [versions EXCEPT ![v] = row] /\ row.live /\ row.published
        BY <1>4 DEF Releases
    <2>2. v \in DOMAIN s.versions /\ s.versions[v] = row
        BY <2>1, UnpublishedRows
    <2> QED BY <1>4, <2>1, <2>2 DEF Releases, Public
<1>5. ASSUME Adds(s) PROVE Public(s.doc, s.versions)
    <2>1. PICK row \in Version :
            /\ s.versions = Append(versions, row)
            /\ row.live
            /\ \/ ~row.published /\ s.doc.status \in {doc.status, CandidateStatus}
               \/ row.published /\ doc.status = "active" /\ s.doc.status = "active"
        BY <1>5 DEF Adds
    <2>2. (\E v \in DOMAIN s.versions : s.versions[v].live /\ s.versions[v].published)
            <=> HasPublished \/ row.published
        <3>1. /\ \A v \in DOMAIN versions : v \in DOMAIN s.versions /\ s.versions[v] = versions[v]
              /\ \A v \in DOMAIN s.versions : v \in DOMAIN versions \/ s.versions[v] = row
              /\ \E v \in DOMAIN s.versions : s.versions[v] = row
            BY <2>1 DEF TypeOK
        <3> QED BY <2>1, <3>1, PublicRows
    <2> QED BY <1>1, <2>1, <2>2 DEF Public, CandidateStatus
<1> QED BY <1>2, <1>3, <1>4, <1>5
        DEF Lawful, Approves, Kind, Submits, Reverts, Dismisses, Readdresses

LEMMA PublicAlways ==
    ASSUME OneAtATime, "active" \notin CreatedAs
    PROVE  Spec => []Public(doc, versions)
<1>1. Init => Public(doc, versions)
    BY DEF Init, CreatedByRequest, CreatedByAssistant, NewVersion, Public
<1>2. ASSUME SerialInv, Public(doc, versions), [Next]_vars PROVE Public(doc, versions)'
    <2>1. CASE UNCHANGED <<doc, versions, reviews>>
        BY <1>2, <2>1 DEF Public
    <2>2. ASSUME NEW r \in Requests, NEW s, Takes(r, s) PROVE Public(doc, versions)'
        <3>1. Public(s.doc, s.versions)
            BY <1>2, <2>2, LawfulKeepsPublic DEF Takes, SerialInv, WorkInv
        <3> QED BY <2>2, <3>1 DEF Takes, Public
    <2> QED BY <1>2, <2>1, <2>2, AloneStep DEF SerialInv
<1> QED BY <1>1, <1>2, SerialAlways, PTL DEF Spec

\* A document that was not created as active is public exactly when a version is: in
\* reviews, new versions, deletions, archiving and restoring the status follows what
\* is published, whatever it was.
THEOREM PublicDocument ==
    ASSUME OneAtATime, "active" \notin CreatedAs
    PROVE  Spec => []PublicIffPublished
<1>1. Public(doc, versions) => PublicIffPublished
    BY PublicRows DEF Public, PublicIffPublished
<1> QED BY <1>1, PublicAlways, PTL

LEMMA LawfulKeepsJudged ==
    ASSUME TypeOK, ReviewRows(versions, reviews), Judged(doc, reviews),
           NEW op, op # "assistant_reject", NEW i, NEW s, Lawful(op, i, s)
    PROVE  Judged(s.doc, s.reviews)
<1>1. ASSUME Approvable(i), Approves(i, s) PROVE Judged(s.doc, s.reviews)
    <2>1. i \in DOMAIN reviews /\ i = Len(reviews)
        BY <1>1 DEF Approvable, Pending, ReviewRows, PendingIsLast
    <2>2. /\ Len(s.reviews) = Len(reviews) /\ s.reviews # <<>>
          /\ s.reviews[i].status = "approved"
        BY <1>1, <2>1, ReviewType DEF Approves, TypeOK, Review
    <2>3. s.doc.status \in {"active", "approved"}
        BY <1>1 DEF Approves, Settled
    <2> QED BY <2>1, <2>2, <2>3 DEF Judged
<1>2. ASSUME Submits(s) PROVE Judged(s.doc, s.reviews)
    <2>1. PICK row \in Review : s.reviews = Append(reviews, row) /\ row.status = "pending"
        BY <1>2 DEF Submits
    <2>2. s.reviews # <<>> /\ s.reviews[Len(s.reviews)] = row
        BY <2>1 DEF TypeOK
    <2>3. s.doc.status \in {"active", "pending_review"}
        BY <1>2 DEF Submits, Settled
    <2> QED BY <2>1, <2>2, <2>3 DEF Judged
<1>3. ASSUME s.doc.status \in {"active", "draft", "archived"} PROVE Judged(s.doc, s.reviews)
    BY <1>3 DEF Judged
<1>4. ASSUME s.doc.status = doc.status, s.reviews = reviews PROVE Judged(s.doc, s.reviews)
    BY <1>4 DEF Judged
<1> QED BY <1>1, <1>2, <1>3, <1>4
        DEF Lawful, Kind, Reverts, Settled, Dismisses, Edits, Releases, Adds, CandidateStatus,
            Readdresses, RestoredStatus

\* The status of a document that was not created as reviewed tells the truth about
\* its reviews, unless the assistant's rejection, which leaves the status behind, is
\* among the operations.
THEOREM StatusJudged ==
    ASSUME OneAtATime, "assistant_reject" \notin Operations,
           "pending_review" \notin CreatedAs, "approved" \notin CreatedAs
    PROVE  Spec => []StatusFollowsReviews
<1>1. Init => Judged(doc, reviews)
    BY DEF Init, CreatedByRequest, CreatedByAssistant, Judged
<1>2. ASSUME SerialInv, Judged(doc, reviews), [Next]_vars PROVE Judged(doc, reviews)'
    <2>1. CASE UNCHANGED <<doc, versions, reviews>>
        BY <1>2, <2>1 DEF Judged
    <2>2. ASSUME NEW r \in Requests, NEW s, Takes(r, s) PROVE Judged(doc, reviews)'
        <3>1. requests[r].op # "assistant_reject"
            BY <2>2 DEF Takes
        <3>2. Judged(s.doc, s.reviews)
            BY <1>2, <2>2, <3>1, LawfulKeepsJudged DEF Takes, SerialInv, WorkInv
        <3> QED BY <2>2, <3>2 DEF Takes, Judged
    <2> QED BY <1>2, <2>1, <2>2, AloneStep DEF SerialInv
<1>3. ASSUME SerialInv, Judged(doc, reviews) PROVE StatusFollowsReviews
    <2>1. \A i \in Pending : i = Len(reviews)
        BY <1>3 DEF SerialInv, ReviewRows, PendingIsLast, Pending
    <2>2. reviews # <<>> => Len(reviews) \in DOMAIN reviews
        BY <1>3 DEF SerialInv, WorkInv, TypeOK
    <2>3. doc.status = "pending_review" => Pending # {}
        BY <1>3, <2>2 DEF Judged, Pending
    <2>4. doc.status = "approved" =>
            Pending = {} /\ reviews # <<>> /\ reviews[Len(reviews)].status = "approved"
        BY <1>3, <2>1 DEF Judged, Pending
    <2> QED BY <2>3, <2>4 DEF StatusFollowsReviews
<1> QED BY <1>1, <1>2, <1>3, SerialAlways, PTL DEF Spec

-----------------------------------------------------------------------------
(* The promise to authors, reviewers and readers.                          *)

\* What Publication sees of the rows.
Stages == [v \in 1 .. MaxVersions |-> Stage(v)]
Texts == [v \in 1 .. MaxVersions |-> IF v \in DOMAIN versions THEN versions[v].content ELSE 0]
Verdicts == [v \in 1 .. MaxVersions |-> ReviewStatus(v)]

\* A status that is settled, restored or that of a candidate shows a document that
\* was hidden only if a version is public.
LEMMA MayReturnHolds ==
    ASSUME Public(doc, versions), TypeOK,
           doc'.status \in {doc.status, RestoredStatus, CandidateStatus,
                            Settled("draft"), Settled("approved")}
    PROVE  Promise!MayReturn
<1>1. Promise!Public # {} <=> HasPublished
    <2>1. HasPublished <=> \E v \in 1 .. MaxVersions : Stage(v) = "public"
        <3>1. DOMAIN versions \subseteq 1 .. MaxVersions
            BY BoundsAssumption DEF TypeOK
        <3> QED BY <3>1, PublicRows DEF Stage
    <2> QED BY <2>1 DEF Promise!Public
<1>2. doc.status # "archived" => (doc.status = "active" <=> HasPublished)
    BY PublicRows DEF Public
<1>3. \/ (doc'.status = "active" <=> doc.status = "active")
      \/ HasPublished /\ doc'.status = "active"
    BY <1>2 DEF RestoredStatus, CandidateStatus, Settled, StaysPublic
<1> QED BY <1>1, <1>3 DEF Promise!MayReturn

LEMMA SameVersions ==
    ASSUME UNCHANGED versions PROVE UNCHANGED Stages /\ UNCHANGED Texts
    BY DEF Stages, Texts, Stage

LEMMA SameReviews ==
    ASSUME UNCHANGED reviews PROVE UNCHANGED Verdicts
    BY DEF Verdicts, ReviewStatus

\* One row of versions is written.
LEMMA WrittenVersion ==
    ASSUME TypeOK, NEW v \in DOMAIN versions, NEW row, versions' = [versions EXCEPT ![v] = row]
    PROVE  /\ v \in 1 .. MaxVersions
           /\ Stages' = [Stages EXCEPT ![v] = IF ~row.live THEN "deleted"
                                              ELSE IF row.published THEN "public" ELSE "draft"]
           /\ Texts' = [Texts EXCEPT ![v] = row.content]
<1>1. v \in 1 .. MaxVersions
    BY BoundsAssumption DEF TypeOK
<1>2. DOMAIN versions' = DOMAIN versions
    OBVIOUS
<1>3. \A u \in DOMAIN versions : versions'[u] = IF u = v THEN row ELSE versions[u]
    OBVIOUS
<1>4. \A u \in 1 .. MaxVersions :
        Stage(u)' = IF u = v THEN IF ~row.live THEN "deleted"
                                  ELSE IF row.published THEN "public" ELSE "draft"
                    ELSE Stage(u)
    BY <1>2, <1>3 DEF Stage
<1>5. Stages' = [Stages EXCEPT ![v] = IF ~row.live THEN "deleted"
                                      ELSE IF row.published THEN "public" ELSE "draft"]
    BY <1>4 DEF Stages
<1>6. Texts' = [Texts EXCEPT ![v] = row.content]
    BY <1>2, <1>3 DEF Texts
<1> QED BY <1>1, <1>5, <1>6

\* One row of versions is added.
LEMMA AddedVersion ==
    ASSUME TypeOK, TypeOK', NEW row, row.live, versions' = Append(versions, row)
    PROVE  \E v \in 1 .. MaxVersions :
             /\ Stages[v] = "none"
             /\ Stages' = [Stages EXCEPT ![v] = IF row.published THEN "public" ELSE "draft"]
             /\ Texts' = [Texts EXCEPT ![v] = row.content]
<1> DEFINE v == Len(versions) + 1
<1>1. Len(versions) \in Nat /\ Len(versions') = Len(versions) + 1 /\ Len(versions') <= MaxVersions
    BY DEF TypeOK
<1>2. v \in 1 .. MaxVersions /\ v \notin DOMAIN versions
    BY <1>1, BoundsAssumption DEF TypeOK
<1>3. \A u \in 1 .. MaxVersions : u \in DOMAIN versions' <=> u \in DOMAIN versions \/ u = v
    BY <1>1 DEF TypeOK
<1>4. versions'[v] = row /\ \A u \in DOMAIN versions : versions'[u] = versions[u]
    BY <1>1 DEF TypeOK
<1> HIDE DEF v
<1>5. \A u \in 1 .. MaxVersions :
        Stage(u)' = IF u = v THEN IF row.published THEN "public" ELSE "draft" ELSE Stage(u)
    BY <1>2, <1>3, <1>4 DEF Stage
<1>6. Stages' = [Stages EXCEPT ![v] = IF row.published THEN "public" ELSE "draft"]
    BY <1>5 DEF Stages
<1>7. Texts' = [Texts EXCEPT ![v] = row.content]
    BY <1>2, <1>3, <1>4 DEF Texts
<1>8. Stages[v] = "none"
    BY <1>2 DEF Stages, Stage
<1> QED BY <1>2, <1>6, <1>7, <1>8

\* The newest review is decided.
LEMMA DecidedReview ==
    ASSUME TypeOK, TypeOK', Len(reviews') = Len(reviews),
           NEW k \in DOMAIN reviews, k = Len(reviews),
           \A j \in DOMAIN reviews :
             /\ reviews'[j].version = reviews[j].version
             /\ j # k => reviews'[j].status = reviews[j].status
    PROVE  Verdicts' = [Verdicts EXCEPT ![reviews[k].version] = reviews'[k].status]
<1>1. reviews \in Seq(Review) /\ reviews' \in Seq(Review) /\ DOMAIN reviews' = DOMAIN reviews
    BY DEF TypeOK
<1>2. \A j \in DOMAIN reviews : LastOfVersion(reviews', j) <=> LastOfVersion(reviews, j)
    BY <1>1 DEF LastOfVersion
<1>3. LastOfVersion(reviews', k)
    BY <1>1 DEF LastOfVersion
<1>4. ASSUME NEW u \in 1 .. MaxVersions
      PROVE  StatusOf(reviews', u) = IF u = reviews[k].version THEN reviews'[k].status
                                     ELSE StatusOf(reviews, u)
    <2>1. CASE u = reviews[k].version
        BY <1>1, <1>3, <2>1, StatusOfLast
    <2>2. CASE u # reviews[k].version
        <3>1. ASSUME NEW i \in DOMAIN reviews, reviews[i].version = u, LastOfVersion(reviews, i)
              PROVE  StatusOf(reviews', u) = StatusOf(reviews, u)
            <4>1. StatusOf(reviews, u) = reviews[i].status
                BY <1>1, <3>1, StatusOfLast
            <4>2. StatusOf(reviews', u) = reviews'[i].status
                BY <1>1, <1>2, <3>1, StatusOfLast
            <4> QED BY <2>2, <3>1, <4>1, <4>2
        <3>2. ASSUME \A i \in DOMAIN reviews : reviews[i].version # u
              PROVE  StatusOf(reviews', u) = StatusOf(reviews, u)
            BY <1>1, <3>2, StatusCases
        <3> QED BY <1>1, <2>2, <3>1, <3>2, StatusCases
    <2> QED BY <2>1, <2>2
<1>5. \A u : ReviewStatus(u)' = StatusOf(reviews', u)
    BY DEF ReviewStatus, StatusOf
<1> QED BY <1>4, <1>5, ReviewStatusOf DEF Verdicts

\* A review is added.
LEMMA AddedReview ==
    ASSUME TypeOK, NEW row \in Review, reviews' = Append(reviews, row)
    PROVE  Verdicts' = [Verdicts EXCEPT ![row.version] = row.status]
<1> DEFINE k == Len(reviews) + 1
<1>1. /\ reviews \in Seq(Review) /\ reviews' \in Seq(Review)
      /\ DOMAIN reviews' = 1 .. k /\ DOMAIN reviews = 1 .. (k - 1) /\ k \in Nat
    BY DEF TypeOK
<1>2. reviews'[k] = row /\ \A j \in DOMAIN reviews : reviews'[j] = reviews[j]
    BY DEF TypeOK
<1>3. k \in DOMAIN reviews' /\ \A j \in DOMAIN reviews' : j \in DOMAIN reviews \/ j = k
    BY <1>1
<1>4. \A j \in DOMAIN reviews : j \in DOMAIN reviews' /\ j <= k
    BY <1>1
<1> HIDE DEF k
<1>5. LastOfVersion(reviews', k)
    BY <1>1, <1>3, <1>4 DEF LastOfVersion
<1>6. ASSUME NEW u \in 1 .. MaxVersions
      PROVE  StatusOf(reviews', u) = IF u = row.version THEN row.status ELSE StatusOf(reviews, u)
    <2>1. CASE u = row.version
        BY <1>1, <1>2, <1>3, <1>5, <2>1, StatusOfLast
    <2>2. CASE u # row.version
        <3>1. ASSUME NEW i \in DOMAIN reviews, reviews[i].version = u, LastOfVersion(reviews, i)
              PROVE  StatusOf(reviews', u) = StatusOf(reviews, u)
            <4>1. LastOfVersion(reviews', i)
                BY <1>2, <1>3, <2>2, <3>1 DEF LastOfVersion
            <4>2. StatusOf(reviews, u) = reviews[i].status
                BY <1>1, <3>1, StatusOfLast
            <4>3. StatusOf(reviews', u) = reviews'[i].status
                BY <1>1, <1>2, <1>4, <3>1, <4>1, StatusOfLast
            <4> QED BY <1>2, <4>2, <4>3
        <3>2. ASSUME \A i \in DOMAIN reviews : reviews[i].version # u
              PROVE  StatusOf(reviews', u) = StatusOf(reviews, u)
            <4>1. \A j \in DOMAIN reviews' : reviews'[j].version # u
                BY <1>2, <1>3, <2>2, <3>2
            <4>2. StatusOf(reviews', u) = "none"
                BY <1>1, <4>1, StatusCases
            <4>3. StatusOf(reviews, u) = "none"
                BY <1>1, <3>2, StatusCases
            <4> QED BY <4>2, <4>3
        <3> QED BY <1>1, <2>2, <3>1, <3>2, StatusCases
    <2> QED BY <2>1, <2>2
<1>7. \A u : ReviewStatus(u)' = StatusOf(reviews', u)
    BY DEF ReviewStatus, StatusOf
<1> QED BY <1>6, <1>7, ReviewStatusOf DEF Verdicts

\* A review of the document alone is no verdict about a version.
LEMMA NoVerdict == \A verdict : [Verdicts EXCEPT ![0] = verdict] = Verdicts
<1>1. PICK verdicts : verdicts = Verdicts
    OBVIOUS
<1>2. verdicts = [v \in 1 .. MaxVersions |-> verdicts[v]] /\ 0 \notin 1 .. MaxVersions
    BY <1>1, BoundsAssumption DEF Verdicts
<1>3. \A verdict : [verdicts EXCEPT ![0] = verdict] = verdicts
    BY <1>2
<1> QED BY <1>1, <1>3

\* The decision about the review that is pending.
LEMMA DecisionKept ==
    ASSUME TypeOK, TypeOK', ReviewRows(versions, reviews), Public(doc, versions),
           UNCHANGED versions, Len(reviews') = Len(reviews),
           NEW k \in Pending,
           \A j \in DOMAIN reviews :
             /\ reviews'[j].version = reviews[j].version
             /\ j # k => reviews'[j].status = reviews[j].status,
           \/ reviews'[k].status \in {"rejected", "cancelled"}
           \/ reviews'[k].status = "approved" /\ Approvable(k),
           doc'.status \in {doc.status, Settled("draft"), Settled("approved")}
    PROVE  Promise!Next
<1> DEFINE v == reviews[k].version
<1>1. k \in DOMAIN reviews /\ reviews[k].status = "pending" /\ k = Len(reviews)
    BY DEF Pending, ReviewRows, PendingIsLast
<1>2. v \in 0 .. MaxVersions /\ (v # 0 => v \in 1 .. MaxVersions)
    <2>1. v \in 0 .. Len(versions)
        BY <1>1 DEF ReviewRows
    <2> QED BY <2>1, BoundsAssumption DEF TypeOK
<1>3. UNCHANGED Stages /\ UNCHANGED Texts
    BY SameVersions
<1>4. Verdicts' = [Verdicts EXCEPT ![v] = reviews'[k].status]
    BY <1>1, DecidedReview
<1>5. Promise!MayReturn
    BY MayReturnHolds
<1>6. v # 0 => Verdicts[v] = "pending"
    <2>1. LastOfVersion(reviews, k)
        BY <1>1 DEF LastOfVersion, TypeOK
    <2>2. ReviewStatus(v) = "pending"
        BY <1>1, <2>1, ReviewStatusOfLast
    <2> QED BY <1>2, <2>2 DEF Verdicts
<1>7. v # 0 /\ Approvable(k) => Stages[v] = "draft"
    BY <1>2, UnpublishedRows DEF Approvable, Stages, Stage
<1> HIDE DEF v
<1>8. CASE v = 0
    <2>1. UNCHANGED Verdicts
        BY <1>4, <1>8, NoVerdict
    <2>2. Promise!Return
        BY <1>3, <1>5, <2>1 DEF Promise!Return, Stages, Texts, Verdicts
    <2> QED BY <2>2 DEF Promise!Next
<1>9. CASE v # 0 /\ reviews'[k].status \in {"rejected", "cancelled"}
    <2>1. Promise!Refuse(v, reviews'[k].status)
        BY <1>3, <1>4, <1>5, <1>6, <1>9 DEF Promise!Refuse, Stages, Texts, Verdicts
    <2> QED BY <1>2, <1>9, <2>1 DEF Promise!Next
<1>10. CASE v # 0 /\ reviews'[k].status = "approved" /\ Approvable(k)
    <2>1. Promise!Approve(v)
        BY <1>3, <1>4, <1>5, <1>6, <1>7, <1>10 DEF Promise!Approve, Stages, Texts, Verdicts
    <2> QED BY <1>2, <1>10, <2>1 DEF Promise!Next
<1> QED BY <1>8, <1>9, <1>10

LEMMA SubmissionKept ==
    ASSUME TypeOK, Public(doc, versions), NEW s, Submits(s),
           doc' = s.doc, versions' = s.versions, reviews' = s.reviews
    PROVE  [Promise!Next]_(Promise!vars)
<1>1. PICK row \in Review :
        /\ reviews' = Append(reviews, row)
        /\ row.status = "pending"
        /\ row.version # 0 => row.version \in Unpublished
    BY DEF Submits
<1>2. UNCHANGED Stages /\ UNCHANGED Texts
    BY SameVersions DEF Submits
<1>3. Verdicts' = [Verdicts EXCEPT ![row.version] = "pending"]
    BY <1>1, AddedReview
<1>4. (doc.status = "active")' <=> doc.status = "active"
    BY PublicRows DEF Submits, Submittable, Public, Settled, StaysPublic
<1>5. CASE row.version = 0
    <2>1. UNCHANGED Verdicts
        BY <1>3, <1>5, NoVerdict
    <2> QED BY <1>2, <1>4, <2>1 DEF Promise!vars, Stages, Texts, Verdicts
<1>6. CASE row.version # 0
    <2>1. row.version \in 1 .. MaxVersions /\ Stages[row.version] = "draft"
        <3>1. row.version \in 1 .. MaxVersions
            BY <1>1, <1>6, UnpublishedRows, BoundsAssumption DEF TypeOK
        <3> QED BY <1>1, <1>6, <3>1, UnpublishedRows DEF Stages, Stage
    <2>2. \A u \in 1 .. MaxVersions : Verdicts[u] # "pending"
        <3>1. \A i \in DOMAIN reviews : reviews[i].status # "pending"
            BY DEF Submits, Submittable, Pending
        <3>2. reviews \in Seq(Review)
            BY DEF TypeOK
        <3>3. \A u : StatusOf(reviews, u) # "pending"
            BY <3>1, <3>2, StatusCases
        <3> QED BY <3>3, ReviewStatusOf DEF Verdicts
    <2>3. Promise!Submit(row.version)
        BY <1>2, <1>3, <1>4, <2>1, <2>2 DEF Promise!Submit, Stages, Texts, Verdicts
    <2> QED BY <2>1, <2>3 DEF Promise!Next
<1> QED BY <1>5, <1>6

LEMMA EditKept ==
    ASSUME TypeOK, ReviewedVersionStays', NEW s, Edits(s),
           doc' = s.doc, versions' = s.versions, reviews' = s.reviews
    PROVE  [Promise!Next]_(Promise!vars)
<1>1. PICK v \in Unpublished, row \in Version :
        /\ versions' = [versions EXCEPT ![v] = row]
        /\ ~row.published
        /\ row.content = versions[v].content \/ (row.live /\ Mutable(v))
    BY DEF Edits
<1>2. v \in DOMAIN versions /\ versions[v].live /\ ~versions[v].published
    BY UnpublishedRows
<1>3. /\ v \in 1 .. MaxVersions
      /\ Stages' = [Stages EXCEPT ![v] = IF ~row.live THEN "deleted" ELSE "draft"]
      /\ Texts' = [Texts EXCEPT ![v] = row.content]
    BY <1>1, <1>2, WrittenVersion
<1>4. UNCHANGED doc /\ UNCHANGED reviews /\ UNCHANGED Verdicts
    BY SameReviews DEF Edits
<1>5. Stages[v] = "draft" /\ Texts[v] = versions[v].content
    BY <1>2, <1>3 DEF Stages, Stage, Texts
<1>6. CASE ~row.live
    <2>1. \A i \in DOMAIN reviews : reviews[i].version # v
        BY <1>1, <1>2, <1>3, <1>4, <1>6 DEF ReviewedVersionStays, Live
    <2>2. Verdicts[v] = "none"
        <3>1. StatusOf(reviews, v) = "none"
            BY <2>1, StatusCases DEF TypeOK
        <3> QED BY <1>3, <3>1, ReviewStatusOf DEF Verdicts
    <2>3. UNCHANGED Texts
        BY <1>1, <1>3, <1>5, <1>6 DEF Texts
    <2>4. Promise!Delete(v)
        BY <1>3, <1>4, <1>5, <1>6, <2>2, <2>3 DEF Promise!Delete, Stages, Texts, Verdicts
    <2> QED BY <1>3, <2>4 DEF Promise!Next
<1>7. CASE row.live
    <2>1. UNCHANGED Stages
        BY <1>3, <1>5, <1>7 DEF Stages
    <2>2. CASE row.content = versions[v].content
        <3>1. UNCHANGED Texts
            BY <1>3, <1>5, <2>2 DEF Texts
        <3> QED BY <1>4, <2>1, <3>1 DEF Promise!vars, Stages, Texts, Verdicts
    <2>3. CASE Mutable(v)
        <3>1. Verdicts[v] \notin {"pending", "approved"}
            BY <1>3, <2>3 DEF Mutable, Verdicts
        <3>2. Promise!Edit(v, row.content)
            BY <1>3, <1>4, <1>5, <2>1, <3>1 DEF Promise!Edit, Stages, Texts, Verdicts
        <3> QED BY <1>3, <3>2 DEF Promise!Next, Version
    <2> QED BY <1>1, <2>2, <2>3
<1> QED BY <1>6, <1>7

LEMMA ReleaseKept ==
    ASSUME TypeOK, NEW s, NEW op \in Operations, Releases(op, s),
           doc' = s.doc, versions' = s.versions, reviews' = s.reviews
    PROVE  Promise!Next
<1>1. PICK v \in Unpublished, row \in Version :
        /\ versions' = [versions EXCEPT ![v] = row]
        /\ row.live /\ row.published /\ row.content = versions[v].content
        /\ op # "force_publish" => Publishable(v)
    BY DEF Releases
<1>2. v \in DOMAIN versions /\ versions[v].live /\ ~versions[v].published
    BY UnpublishedRows
<1>3. /\ v \in 1 .. MaxVersions
      /\ Stages' = [Stages EXCEPT ![v] = "public"]
      /\ Texts' = [Texts EXCEPT ![v] = row.content]
    BY <1>1, <1>2, WrittenVersion
<1>4. Stages[v] = "draft" /\ Texts[v] = row.content
    BY <1>1, <1>2, <1>3 DEF Stages, Stage, Texts
<1>5. UNCHANGED Texts
    BY <1>3, <1>4 DEF Texts
<1>6. UNCHANGED Verdicts /\ doc'.status = "active"
    BY SameReviews DEF Releases
<1>7. Verdicts[v] = "approved" \/ "force_publish" \in Operations
    BY <1>1, <1>3 DEF Publishable, Verdicts
<1>8. Promise!Publish(v)
    BY <1>3, <1>4, <1>5, <1>6, <1>7 DEF Promise!Publish, Stages, Texts, Verdicts
<1> QED BY <1>3, <1>8 DEF Promise!Next

LEMMA AdditionKept ==
    ASSUME TypeOK, TypeOK', Public(doc, versions), NEW s, Adds(s),
           doc' = s.doc, versions' = s.versions, reviews' = s.reviews
    PROVE  Promise!Next
<1>1. PICK row \in Version :
        /\ versions' = Append(versions, row)
        /\ row.live
        /\ \/ ~row.published /\ doc'.status \in {doc.status, CandidateStatus}
           \/ row.published /\ doc.status = "active" /\ doc'.status = "active"
    BY DEF Adds
<1>2. PICK v \in 1 .. MaxVersions :
        /\ Stages[v] = "none"
        /\ Stages' = [Stages EXCEPT ![v] = IF row.published THEN "public" ELSE "draft"]
        /\ Texts' = [Texts EXCEPT ![v] = row.content]
    BY <1>1, AddedVersion
<1>3. UNCHANGED Verdicts /\ row.content \in 0 .. MaxEdits
    BY <1>1, SameReviews DEF Adds, Version
<1>4. CASE ~row.published
    <2>1. Promise!MayReturn
        BY <1>1, <1>4, MayReturnHolds
    <2>2. Promise!Add(v, row.content)
        BY <1>2, <1>3, <1>4, <2>1 DEF Promise!Add, Stages, Texts, Verdicts
    <2> QED BY <1>3, <2>2 DEF Promise!Next
<1>5. CASE row.published
    <2>1. Promise!AddPublic(v, row.content)
        BY <1>1, <1>2, <1>3, <1>5 DEF Promise!AddPublic, Stages, Texts, Verdicts
    <2> QED BY <1>3, <2>1 DEF Promise!Next
<1> QED BY <1>4, <1>5

LEMMA ReaddressingKept ==
    ASSUME TypeOK, Public(doc, versions), NEW s, Readdresses(s),
           doc' = s.doc, versions' = s.versions, reviews' = s.reviews
    PROVE  Promise!Next
<1>1. UNCHANGED Stages /\ UNCHANGED Texts /\ UNCHANGED Verdicts
    BY SameVersions, SameReviews DEF Readdresses
<1>2. CASE doc'.status = "archived"
    BY <1>1, <1>2 DEF Promise!Next, Promise!Hide, Stages, Texts, Verdicts
<1>3. CASE doc'.status \in {doc.status, RestoredStatus}
    <2>1. Promise!MayReturn
        BY <1>3, MayReturnHolds
    <2> QED BY <1>1, <2>1 DEF Promise!Next, Promise!Return, Stages, Texts, Verdicts
<1> QED BY <1>2, <1>3 DEF Readdresses

\* One step of requests that do not overlap is a step of the promise, or none.
LEMMA PromiseStep ==
    ASSUME OneAtATime, SerialInv, TypeOK', ReviewedVersionStays', Public(doc, versions),
           [Next]_vars
    PROVE  [Promise!Next]_(Promise!vars)
<1> USE DEF SerialInv, WorkInv
<1>1. CASE UNCHANGED <<doc, versions, reviews>>
    BY <1>1, SameVersions, SameReviews DEF Promise!vars, Stages, Texts, Verdicts
<1>2. ASSUME NEW r \in Requests, NEW s, Takes(r, s) PROVE [Promise!Next]_(Promise!vars)
    <2>1. PICK op, i : op = requests[r].op /\ i = requests[r].review
        OBVIOUS
    <2>2. /\ Lawful(op, i, s) /\ op \in Operations
          /\ doc' = s.doc /\ versions' = s.versions /\ reviews' = s.reviews
        BY <1>2, <2>1 DEF Takes
    <2>3. \A j \in DOMAIN reviews : reviews'[j].version = reviews[j].version
        BY <2>2 DEF Lawful, Derived, SameReview
    <2>4. ASSUME Approvable(i), Approves(i, s) PROVE Promise!Next
        <3>1. i \in DOMAIN reviews /\ i \in Pending
            BY <2>4 DEF Approvable, Pending
        <3>2. /\ Len(reviews') = Len(reviews) /\ reviews'[i].status = "approved"
              /\ \A j \in DOMAIN reviews : j # i => reviews'[j] = reviews[j]
            BY <2>2, <2>4, <3>1, ReviewType DEF Approves, TypeOK, Review
        <3>3. UNCHANGED versions /\ doc'.status = Settled("approved")
            BY <2>2, <2>4 DEF Approves
        <3> QED BY <2>3, <2>4, <3>1, <3>2, <3>3, DecisionKept
    <2>5. ASSUME Reverts(s) PROVE Promise!Next
        <3>1. PICK k \in Pending, outcome \in {"rejected", "cancelled"} : reviews' = Closed(k, outcome)
            BY <2>2, <2>5 DEF Reverts
        <3>2. /\ Len(reviews') = Len(reviews)
              /\ \A j \in DOMAIN reviews :
                   reviews'[j].status = CASE j = k -> outcome
                                          [] j \in Pending \ {k} -> "cancelled"
                                          [] OTHER -> reviews[j].status
            BY <3>1, ClosedType DEF Pending
        <3>3. \A j \in Pending : j = k
            BY DEF ReviewRows, PendingIsLast, Pending
        <3>4. /\ k \in DOMAIN reviews /\ reviews'[k].status = outcome
              /\ \A j \in DOMAIN reviews : j # k => reviews'[j].status = reviews[j].status
            BY <3>2, <3>3 DEF Pending
        <3>5. UNCHANGED versions /\ doc'.status = Settled("draft")
            BY <2>2, <2>5 DEF Reverts
        <3> QED BY <2>3, <3>2, <3>4, <3>5, DecisionKept
    <2>6. ASSUME Dismisses(op, s) PROVE Promise!Next
        <3>1. PICK k \in Pending : reviews' = [reviews EXCEPT ![k] = [@ EXCEPT !.status = "rejected"]]
            BY <2>2, <2>6 DEF Dismisses
        <3>2. k \in DOMAIN reviews
            BY DEF Pending
        <3>3. /\ Len(reviews') = Len(reviews) /\ reviews'[k].status = "rejected"
              /\ \A j \in DOMAIN reviews : j # k => reviews'[j] = reviews[j]
            BY <3>1, <3>2, ReviewType DEF TypeOK, Review
        <3>4. UNCHANGED versions /\ doc'.status = doc.status
            BY <2>2, <2>6 DEF Dismisses
        <3> QED BY <2>3, <3>3, <3>4, DecisionKept
    <2> QED BY <2>2, <2>4, <2>5, <2>6, SubmissionKept, EditKept, ReleaseKept, AdditionKept,
               ReaddressingKept DEF Lawful, Kind
<1> QED BY <1>1, <1>2, AloneStep

LEMMA PromiseInit == ASSUME Init, "active" \notin CreatedAs PROVE Promise!Init
<1>1. \A v \in 1 .. MaxVersions : Stage(v) \in {"none", "draft"}
    BY DEF Init, CreatedByRequest, CreatedByAssistant, NewVersion, Stage
<1>2. \A v \in DOMAIN versions : versions[v].content = 0
    BY DEF Init, CreatedByRequest, CreatedByAssistant, NewVersion
<1>3. \A v : ReviewStatus(v) = "none"
    BY DEF Init, ReviewStatus
<1>4. doc.status # "active"
    BY DEF Init, CreatedByRequest, CreatedByAssistant
<1> QED BY <1>1, <1>2, <1>3, <1>4, BoundsAssumption DEF Promise!Init

\* The operations keep what Publication promises: one version at a time waits for a
\* decision and cannot be edited from then on, what becomes public was approved as it
\* is, unless it is forced or uploaded to a public document, and stays.
THEOREM OperationsKeepPromise ==
    ASSUME OneAtATime, "active" \notin CreatedAs
    PROVE  Spec => PublicationIsKept
<1>1. Init => Promise!Init
    BY PromiseInit
<1>2. SerialInv /\ TypeOK' /\ ReviewedVersionStays' /\ Public(doc, versions) /\ [Next]_vars
        => [Promise!Next]_(Promise!vars)
    BY PromiseStep
<1> QED
    BY <1>1, <1>2, SerialAlways, TypeCorrect, ReviewedVersionsStay, PublicAlways, PTL
    DEF Spec, PublicationIsKept, Promise!Spec

=============================================================================
