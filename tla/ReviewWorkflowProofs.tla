------------------------ MODULE ReviewWorkflowProofs ------------------------
(***************************************************************************)
(* Theorems about ReviewWorkflow for any number of requests that overlap   *)
(* at will, and for every set of companies, operations and bounds.         *)
(*                                                                         *)
(* What a request will write was computed from rows that may have changed  *)
(* since.  The proofs therefore say what its writes do to any row they may *)
(* meet, and never what they were computed from.                           *)
(***************************************************************************)
EXTENDS ReviewWorkflow, FiniteSetTheorems, WellFoundedInduction, TLAPS

-----------------------------------------------------------------------------
(* Sequences and sets.                                                     *)

\* A finite set has an element of the greatest value.
LEMMA MaximumExists ==
    ASSUME NEW n \in Nat, NEW T \in SUBSET (1 .. n), T # {},
           NEW f, \A x \in T : f[x] \in Nat
    PROVE  \E x \in T : \A y \in T : f[y] <= f[x]
<1> DEFINE Above(x) == {y \in T : f[x] < f[y]}
           U == {Above(x) : x \in T}
<1>1. IsFiniteSet(T)
    <2>1. IsFiniteSet(1 .. n)
        BY FS_Interval
    <2> QED BY <2>1, FS_Subset
<1>2. U \subseteq FiniteSubsetsOf(T) /\ U # {}
    <2>1. FiniteSubsetsOf(T) = SUBSET T
        BY <1>1, FS_FiniteSubsetsOfFinite
    <2>2. U \subseteq SUBSET T
        OBVIOUS
    <2>3. \E x \in T : Above(x) \in U
        OBVIOUS
    <2> QED BY <2>1, <2>2, <2>3
<1>3. IsWellFoundedOn(StrictSubsetOrdering(T), FiniteSubsetsOf(T))
    BY FS_StrictSubsetOrderingWellFounded
<1>4. \E A \in U : \A B \in U : <<B, A>> \notin StrictSubsetOrdering(T)
    <2> HIDE DEF U
    <2> QED BY <1>2, <1>3, WFMin
<1>5. PICK x \in T : \A z \in T : <<Above(z), Above(x)>> \notin StrictSubsetOrdering(T)
    BY <1>4
<1>6. ASSUME NEW y \in T, f[x] < f[y] PROVE FALSE
    <2>1. Above(y) \subseteq Above(x) /\ Above(y) # Above(x)
        <3>1. y \in Above(x) /\ y \notin Above(y)
            BY <1>6
        <3>2. Above(y) \subseteq Above(x)
            <4> SUFFICES ASSUME NEW z \in T, f[y] < f[z] PROVE f[x] < f[z]
                OBVIOUS
            <4>1. f[x] \in Nat /\ f[y] \in Nat /\ f[z] \in Nat
                OBVIOUS
            <4> QED BY <1>6, <4>1
        <3> QED BY <3>1, <3>2
    <2> QED BY <1>5, <2>1 DEF StrictSubsetOrdering
<1> QED BY <1>6

\* A sequence whose elements were replaced one by one, and extended.
LEMMA ReplacedSeq ==
    ASSUME NEW S, NEW rows \in Seq(S), NEW f \in [DOMAIN rows -> S], NEW more \in Seq(S)
    PROVE  /\ f \o more \in Seq(S)
           /\ Len(f \o more) = Len(rows) + Len(more)
           /\ \A i \in DOMAIN rows : (f \o more)[i] = f[i]
           /\ \A i \in DOMAIN (f \o more) :
                i \in DOMAIN rows \/ /\ i - Len(rows) \in DOMAIN more
                                     /\ (f \o more)[i] = more[i - Len(rows)]
<1>1. DOMAIN rows = 1 .. Len(rows) /\ Len(rows) \in Nat
    OBVIOUS
<1>2. f \in Seq(S) /\ Len(f) = Len(rows) /\ DOMAIN f = DOMAIN rows
    BY <1>1
<1> QED BY <1>1, <1>2

-----------------------------------------------------------------------------
(* A unit of work.                                                         *)

\* The attributes that a request changed take its values, the others those of
\* the row that is there at the commit.
LEMMA OverChanged ==
    ASSUME NEW old, NEW new, NEW row,
           DOMAIN new = DOMAIN old, DOMAIN row = DOMAIN old
    PROVE  /\ DOMAIN Over(row, Changed(old, new)) = DOMAIN old
           /\ \A a \in DOMAIN old :
                Over(row, Changed(old, new))[a] = IF new[a] # old[a] THEN new[a] ELSE row[a]
    BY DEF Over, Changed

\* A version's number never exceeds its place in the order of ids.
VersionAt(v) == {row \in Version : row.number <= v}
Numbered(vs) == \A v \in DOMAIN vs : vs[v] \in VersionAt(v)

\* Rows of reviews that differ in their status alone.
SameReview(old, new) ==
    /\ new.version = old.version
    /\ new.audience = old.audience
    /\ new.audienceVersion = old.audienceVersion
    /\ new.content = old.content

\* Changes that turn every row of the set into a row of the set.
Fits(dirty, Rows) == \A row \in Rows : Over(row, dirty) \in Rows

LEMMA DocumentFits ==
    ASSUME NEW old \in Document, NEW new \in Document
    PROVE  Fits(Changed(old, new), Document)
<1> SUFFICES ASSUME NEW row \in Document PROVE Over(row, Changed(old, new)) \in Document
    BY DEF Fits
<1> QED BY OverChanged DEF Document, Over

LEMMA VersionFits ==
    ASSUME NEW v \in Nat, NEW old \in VersionAt(v), NEW new \in VersionAt(v)
    PROVE  Fits(Changed(old, new), VersionAt(v))
<1> SUFFICES ASSUME NEW row \in VersionAt(v)
             PROVE  Over(row, Changed(old, new)) \in VersionAt(v)
    BY DEF Fits
<1>1. Over(row, Changed(old, new)) \in Version
    BY OverChanged DEF VersionAt, Version, Over
<1>2. Over(row, Changed(old, new)).number \in {new.number, row.number}
    BY OverChanged DEF VersionAt, Version
<1> QED BY <1>1, <1>2 DEF VersionAt

\* What a change of a review does to any review: the status at most.
LEMMA ReviewFits ==
    ASSUME NEW old \in Review, NEW new \in Review, SameReview(old, new), NEW row \in Review
    PROVE  /\ Over(row, Changed(old, new)) \in Review
           /\ SameReview(row, Over(row, Changed(old, new)))
           /\ Over(row, Changed(old, new)).status =
                IF new.status # old.status THEN new.status ELSE row.status
<1>1. Over(row, Changed(old, new)) \in Review
    BY OverChanged DEF Review, Over
<1> QED BY <1>1, OverChanged DEF Review, SameReview

-----------------------------------------------------------------------------
(* What an operation computes from the rows it has read.                   *)

Sessions == [doc       : Document,
             companies : SUBSET Companies,
             versions  : Seq(Version),
             reviews   : Seq(Review)]

\* Rows are added and never taken away, a review changes in its status alone, a
\* new one is of a version that was there, and no review but i is approved.
Derived(s, i) ==
    /\ s \in Sessions
    /\ Len(versions) <= Len(s.versions) /\ Len(reviews) <= Len(s.reviews)
    /\ Numbered(s.versions)
    /\ \A j \in DOMAIN reviews :
         /\ SameReview(reviews[j], s.reviews[j])
         /\ s.reviews[j].status = "approved" => reviews[j].status = "approved" \/ j = i
    /\ \A j \in DOMAIN s.reviews \ DOMAIN reviews : s.reviews[j].version \in 0 .. Len(versions)

\* What a request is about to write, whatever the rows hold by then.
WritesFit(w, i) ==
    /\ Fits(w.doc, Document)
    /\ w.assign \subseteq Companies
    /\ \A v \in DOMAIN w.versions :
         v \in DOMAIN versions /\ Fits(w.versions[v], VersionAt(v))
    /\ w.newVersions \in Seq(Version)
    /\ \A k \in DOMAIN w.newVersions : w.newVersions[k].number <= Len(versions) + k
    /\ \A j \in DOMAIN w.reviews :
         /\ j \in DOMAIN reviews
         /\ \A row \in Review :
              /\ Over(row, w.reviews[j]) \in Review
              /\ SameReview(row, Over(row, w.reviews[j]))
              /\ Over(row, w.reviews[j]).status = "approved" =>
                   row.status = "approved" \/ j = i
    /\ w.newReviews \in Seq(Review)
    /\ \A k \in DOMAIN w.newReviews : w.newReviews[k].version \in 0 .. Len(versions)

\* A request in flight; only an approval is about a review.
RequestsFit ==
    /\ requests = [r \in Requests |-> [op     |-> requests[r].op,
                                       review |-> requests[r].review,
                                       writes |-> requests[r].writes]]
    /\ \A r \in Requests :
         /\ requests[r].op = "approve" <=> requests[r].review \in DOMAIN reviews
         /\ Ready(r) => WritesFit(requests[r].writes, requests[r].review)

\* The inductive invariant of overlapping requests.
WorkInv == TypeOK /\ Numbered(versions) /\ RequestsFit

LEMMA DerivedFits ==
    ASSUME TypeOK, Numbered(versions), NEW s, NEW i \in Nat, Derived(s, i)
    PROVE  WritesFit(Writes(s), i)
<1> DEFINE w == Writes(s)
<1>1. Fits(w.doc, Document) /\ w.assign \subseteq Companies
    BY DocumentFits DEF Writes, TypeOK, Derived, Sessions
<1>2. ASSUME NEW v \in DOMAIN w.versions
      PROVE  v \in DOMAIN versions /\ Fits(w.versions[v], VersionAt(v))
    <2>1. v \in DOMAIN versions /\ v \in Nat /\ w.versions[v] = Changed(versions[v], s.versions[v])
        BY <1>2 DEF Writes, ChangedRows, TypeOK
    <2>2. versions[v] \in VersionAt(v) /\ s.versions[v] \in VersionAt(v)
        BY <2>1 DEF Derived, Numbered, Sessions, TypeOK
    <2> QED BY <2>1, <2>2, VersionFits
<1>3. /\ w.newVersions \in Seq(Version)
      /\ \A k \in DOMAIN w.newVersions : w.newVersions[k].number <= Len(versions) + k
    <2>1. w.newVersions = SubSeq(s.versions, Len(versions) + 1, Len(s.versions))
        BY DEF Writes, Inserted
    <2>2. \A v \in DOMAIN s.versions : s.versions[v] \in Version /\ s.versions[v].number <= v
        BY DEF Derived, Numbered, VersionAt
    <2>3. s.versions \in Seq(Version) /\ Len(versions) \in Nat /\ Len(versions) <= Len(s.versions)
        BY DEF Derived, Sessions, TypeOK
    <2> QED BY <2>1, <2>2, <2>3
<1>4. ASSUME NEW j \in DOMAIN w.reviews, NEW row \in Review
      PROVE  /\ j \in DOMAIN reviews
             /\ Over(row, w.reviews[j]) \in Review
             /\ SameReview(row, Over(row, w.reviews[j]))
             /\ Over(row, w.reviews[j]).status = "approved" =>
                  row.status = "approved" \/ j = i
    <2>1. j \in DOMAIN reviews /\ w.reviews[j] = Changed(reviews[j], s.reviews[j])
        BY <1>4 DEF Writes, ChangedRows
    <2>2. reviews[j] \in Review /\ s.reviews[j] \in Review /\ SameReview(reviews[j], s.reviews[j])
        BY <2>1 DEF Derived, Sessions, TypeOK
    <2>3. s.reviews[j].status = "approved" => reviews[j].status = "approved" \/ j = i
        BY <2>1 DEF Derived
    <2> QED BY <2>1, <2>2, <2>3, ReviewFits
<1>5. /\ w.newReviews \in Seq(Review)
      /\ \A k \in DOMAIN w.newReviews : w.newReviews[k].version \in 0 .. Len(versions)
    <2>1. w.newReviews = SubSeq(s.reviews, Len(reviews) + 1, Len(s.reviews))
        BY DEF Writes, Inserted
    <2>2. s.reviews \in Seq(Review) /\ reviews \in Seq(Review) /\ Len(reviews) <= Len(s.reviews)
        BY DEF Derived, Sessions, TypeOK
    <2>3. \A j \in DOMAIN s.reviews \ DOMAIN reviews :
            s.reviews[j].version \in 0 .. Len(versions)
        BY DEF Derived
    <2> QED BY <2>1, <2>2, <2>3
<1>6. \A j \in DOMAIN w.reviews : j \in DOMAIN reviews
    BY DEF Writes, ChangedRows
<1> QED BY <1>1, <1>2, <1>3, <1>4, <1>5, <1>6 DEF WritesFit

-----------------------------------------------------------------------------
(* The operations.                                                         *)

LEMMA NextNumberFits ==
    ASSUME TypeOK, Numbered(versions)
    PROVE  NextNumber \in 1 .. Len(versions) + 1
<1>1. CASE Live = {}
    BY <1>1 DEF NextNumber, TypeOK
<1>2. CASE Live # {}
    <2> DEFINE number == [v \in DOMAIN versions |-> versions[v].number]
    <2>1. \A v \in DOMAIN versions : versions[v].number \in Nat /\ versions[v].number <= Len(versions)
        BY DEF TypeOK, Numbered, VersionAt, Version
    <2>2. \E v \in Live : \A u \in Live : number[u] <= number[v]
        <3>1. Len(versions) \in Nat /\ Live \in SUBSET (1 .. Len(versions))
            BY DEF TypeOK, Live
        <3>2. \A v \in Live : number[v] \in Nat
            BY <2>1 DEF Live
        <3> HIDE DEF number
        <3> QED BY <1>2, <3>1, <3>2, MaximumExists
    <2>3. Latest(Live) # {} /\ Latest(Live) \subseteq DOMAIN versions
        BY <2>2 DEF Latest, Live
    <2>4. (CHOOSE v \in Latest(Live) : TRUE) \in DOMAIN versions
        BY <2>3
    <2> QED BY <1>2, <2>1, <2>4 DEF NextNumber, TypeOK
<1> QED BY <1>1, <1>2

\* A session that leaves the reviews as they were read.
ReviewsKept(s) ==
    s \in [doc : Document, companies : SUBSET Companies,
           versions : {s.versions}, reviews : {reviews}]

\* One version changed, but not its number.
ChangesVersion(s, v) ==
    \E row \in Version :
      row.number = versions[v].number /\ s.versions = [versions EXCEPT ![v] = row]

AddsVersion(s) ==
    \E row \in Version : row.number = NextNumber /\ s.versions = Append(versions, row)

LEMMA VersionsDerive ==
    ASSUME TypeOK, Numbered(versions), NEW s, ReviewsKept(s),
           \/ s.versions = versions
           \/ \E v \in DOMAIN versions : ChangesVersion(s, v)
           \/ AddsVersion(s)
    PROVE  Derived(s, 0)
<1> USE DEF TypeOK
<1> DEFINE Goal == /\ s.versions \in Seq(Version)
                   /\ Len(versions) <= Len(s.versions)
                   /\ Numbered(s.versions)
<1>1. ASSUME s.versions = versions PROVE Goal
    BY <1>1
<1>2. ASSUME NEW v \in DOMAIN versions, ChangesVersion(s, v) PROVE Goal
    BY <1>2 DEF ChangesVersion, Numbered, VersionAt
<1>3. ASSUME AddsVersion(s) PROVE Goal
    BY <1>3, NextNumberFits DEF AddsVersion, Numbered, VersionAt
<1>4. \A j \in DOMAIN reviews : SameReview(reviews[j], reviews[j])
    BY DEF SameReview
<1>5. Goal
    BY <1>1, <1>2, <1>3
<1>6. s \in Sessions /\ s.reviews = reviews
    BY <1>5 DEF Sessions, ReviewsKept
<1> QED BY <1>4, <1>5, <1>6 DEF Derived

\* A new version of a document, as it is created or published at once.
LEMMA NewVersionType ==
    ASSUME TypeOK, Numbered(versions), Len(versions) < MaxVersions
    PROVE  /\ NewVersion(NextNumber) \in Version
           /\ NewVersion(NextNumber).number = NextNumber
           /\ NextNumber \in Nat
<1>1. NextNumber \in 1 .. MaxVersions
    BY NextNumberFits, BoundsAssumption DEF TypeOK
<1> QED BY <1>1, BoundsAssumption DEF NewVersion, Version

LEMMA CurrentAudienceType == ASSUME TypeOK PROVE CurrentAudience \in Audience
    BY DEF TypeOK, CurrentAudience, Audience, Document

\* The operations compute seven kinds of sessions: a review is submitted, closed,
\* or dismissed by the assistant; a draft is edited; a version is released or added;
\* or only the document and its audience change.
Submits(s) ==
    /\ Submittable
    /\ s.versions = versions
    /\ s.doc.status = Settled("pending_review")
    /\ \E row \in Review :
         /\ s.reviews = Append(reviews, row)
         /\ row.status = "pending"
         /\ row.version # 0 =>
              row.version \in Unpublished /\ row.content = versions[row.version].content

Reverts(s) ==
    /\ s.versions = versions
    /\ s.doc.status = Settled("draft")
    /\ CanSettle("draft")
    /\ \E i \in Pending, outcome \in {"rejected", "cancelled"} : s.reviews = Closed(i, outcome)

Dismisses(op, s) ==
    /\ op = "assistant_reject"
    /\ s.doc = doc /\ s.versions = versions
    /\ \E i \in Pending : s.reviews = [reviews EXCEPT ![i] = [@ EXCEPT !.status = "rejected"]]

Edits(s) ==
    /\ s.doc = doc /\ s.reviews = reviews
    /\ \E v \in Unpublished, row \in Version :
         /\ s.versions = [versions EXCEPT ![v] = row]
         /\ ~row.published
         /\ row.content = versions[v].content \/ (row.live /\ Mutable(v))

Releases(op, s) ==
    /\ s.doc.status = "active" /\ s.reviews = reviews
    /\ \E v \in Unpublished, row \in Version :
         /\ s.versions = [versions EXCEPT ![v] = row]
         /\ row.live /\ row.published
         /\ row.content = versions[v].content
         /\ row.audience = CurrentAudience
         /\ op # "force_publish" =>
              Publishable(v) /\ (EnforceAudience => companies \subseteq active /\ AudienceReady)

Adds(s) ==
    /\ s.reviews = reviews
    /\ \E row \in Version :
         /\ s.versions = Append(versions, row)
         /\ row.live
         /\ \/ ~row.published /\ s.doc.status \in {doc.status, CandidateStatus}
            \/ row.published /\ doc.status = "active" /\ s.doc.status = "active"

Readdresses(s) ==
    /\ s.reviews = reviews /\ s.versions = versions
    /\ s.doc.status \in {doc.status, "archived", RestoredStatus}

Kind(op, s) ==
    \/ Submits(s) \/ Reverts(s) \/ Dismisses(op, s)
    \/ Edits(s) \/ Releases(op, s) \/ Adds(s) \/ Readdresses(s)

\* A request that is not an approval begins with a session of one of these kinds.
Begins(r) ==
    \E s, op : op # "approve" /\ Derived(s, 0) /\ Kind(op, s) /\ Begin(r, op, s)

LEMMA UnpublishedRows ==
    \A v \in Unpublished : v \in DOMAIN versions /\ versions[v].live /\ ~versions[v].published
    BY DEF Unpublished, Live

LEMMA VersionType == ASSUME TypeOK, NEW v \in DOMAIN versions PROVE versions[v] \in Version
    BY DEF TypeOK

LEMMA ReleaseDerives ==
    ASSUME TypeOK, Numbered(versions), NEW r \in Requests, NEW v \in DOMAIN versions,
           NEW op, op # "approve", NEW scheduled \in BOOLEAN, Release(r, op, v, scheduled),
           v \in Unpublished,
           op # "force_publish" =>
             Publishable(v) /\ (EnforceAudience => companies \subseteq active /\ AudienceReady)
    PROVE  Begins(r)
<1> USE DEF TypeOK
<1> DEFINE row == [versions[v] EXCEPT !.published = TRUE, !.scheduled = scheduled,
                                      !.audience = CurrentAudience]
           s == [Session EXCEPT !.doc.status = "active",
                                !.versions[v].published = TRUE,
                                !.versions[v].scheduled = scheduled,
                                !.versions[v].audience = CurrentAudience]
<1>1. row \in Version /\ row.number = versions[v].number
    BY VersionType, CurrentAudienceType DEF Version
<1>2. ReviewsKept(s) /\ s.versions = [versions EXCEPT ![v] = row]
    BY DEF Session, ReviewsKept, Document, Statuses
<1>3. Derived(s, 0)
    BY <1>1, <1>2, VersionsDerive DEF ChangesVersion
<1>4. /\ row.live /\ row.published /\ row.content = versions[v].content
      /\ row.audience = CurrentAudience
    BY VersionType, UnpublishedRows DEF Version
<1>5. s.doc.status = "active" /\ s.reviews = reviews
    BY DEF Session, Document
<1>6. Releases(op, s)
    <2> HIDE DEF s, row
    <2> QED BY <1>1, <1>2, <1>4, <1>5 DEF Releases
<1> QED BY <1>3, <1>6 DEF Release, Begins, Kind

LEMMA VersionStepDerives ==
    ASSUME TypeOK, Numbered(versions), NEW r \in Requests, VersionStep(r)
    PROVE  Begins(r)
<1> USE DEF TypeOK
<1>1. CASE CreateVersion(r)
    <2> DEFINE s == [Session EXCEPT !.doc.status = CandidateStatus,
                                    !.versions = Append(@, NewVersion(NextNumber))]
    <2>1. ReviewsKept(s) /\ s.versions = Append(versions, NewVersion(NextNumber))
        BY DEF Session, ReviewsKept, CandidateStatus, Document, Statuses
    <2>2. Derived(s, 0)
        BY <1>1, <2>1, NewVersionType, VersionsDerive DEF CreateVersion, AddsVersion
    <2>3. /\ NewVersion(NextNumber).live /\ ~NewVersion(NextNumber).published
          /\ s.doc.status = CandidateStatus /\ s.reviews = reviews
        BY DEF NewVersion, Session, Document
    <2>4. Adds(s)
        BY <1>1, <2>1, <2>3, NewVersionType DEF CreateVersion, Adds
    <2> QED BY <1>1, <2>2, <2>4 DEF CreateVersion, Begins, Kind
<1>2. CASE UploadAttachment(r)
    <2> DEFINE out == doc.status = "active"
               row == [NewVersion(NextNumber) EXCEPT
                         !.published = out,
                         !.audience = IF out THEN CurrentAudience ELSE None]
               s == [Session EXCEPT !.versions = Append(@, row)]
    <2>1. row \in Version /\ row.number = NextNumber
        BY <1>2, NewVersionType, CurrentAudienceType DEF UploadAttachment, Version
    <2>2. ReviewsKept(s) /\ s.versions = Append(versions, row)
        BY DEF Session, ReviewsKept
    <2>3. Derived(s, 0)
        BY <2>1, <2>2, VersionsDerive DEF AddsVersion
    <2>4. row.live /\ row.published = out /\ s.doc = doc /\ s.reviews = reviews
        BY DEF NewVersion, Session
    <2>5. Adds(s)
        <3> HIDE DEF s, row
        <3> QED BY <2>1, <2>2, <2>4 DEF Adds
    <2> QED BY <1>2, <2>3, <2>5 DEF UploadAttachment, Begins, Kind
<1>3. ASSUME NEW v \in DOMAIN versions, UpdateVersion(r, v) PROVE Begins(r)
    <2> DEFINE row == [versions[v] EXCEPT !.content = @ + 1]
               s == [Session EXCEPT !.versions[v].content = @ + 1]
    <2>0. versions[v] \in Version /\ versions[v].content + 1 \in 0 .. MaxEdits
        BY <1>3, VersionType, BoundsAssumption DEF UpdateVersion, Version
    <2>1. row \in Version /\ row.number = versions[v].number
        BY <2>0 DEF Version
    <2>2. ReviewsKept(s) /\ s.versions = [versions EXCEPT ![v] = row]
        BY DEF Session, ReviewsKept
    <2>3. Derived(s, 0)
        BY <2>1, <2>2, VersionsDerive DEF ChangesVersion
    <2>4. v \in Unpublished /\ ~row.published
        BY <1>3, VersionType, UnpublishedRows DEF UpdateVersion, Version
    <2>5. row.live /\ Mutable(v)
        BY <1>3, VersionType, UnpublishedRows DEF UpdateVersion, Version
    <2>6. s.doc = doc /\ s.reviews = reviews
        BY DEF Session
    <2>7. Edits(s)
        <3> HIDE DEF s, row
        <3> QED BY <2>1, <2>2, <2>4, <2>5, <2>6 DEF Edits
    <2> QED BY <1>3, <2>3, <2>7 DEF UpdateVersion, Begins, Kind
<1>4. ASSUME NEW v \in DOMAIN versions, DeleteVersion(r, v) PROVE Begins(r)
    <2> DEFINE row == [versions[v] EXCEPT !.live = FALSE]
               s == [Session EXCEPT !.versions[v].live = FALSE]
    <2>1. row \in Version /\ row.number = versions[v].number
        BY <1>4, VersionType, CurrentAudienceType DEF DeleteVersion, Version
    <2>2. ReviewsKept(s) /\ s.versions = [versions EXCEPT ![v] = row]
        BY DEF Session, ReviewsKept
    <2>3. Derived(s, 0)
        BY <2>1, <2>2, VersionsDerive DEF ChangesVersion
    <2>4. v \in Unpublished /\ ~row.published
        BY <1>4, VersionType, UnpublishedRows DEF DeleteVersion, Version
    <2>5. row.content = versions[v].content
        BY VersionType DEF Version
    <2>6. s.doc = doc /\ s.reviews = reviews
        BY DEF Session
    <2>7. Edits(s)
        <3> HIDE DEF s, row
        <3> QED BY <2>1, <2>2, <2>4, <2>5, <2>6 DEF Edits
    <2> QED BY <1>4, <2>3, <2>7 DEF DeleteVersion, Begins, Kind
<1>5. ASSUME NEW v \in DOMAIN versions, SchedulePublish(r, v) PROVE Begins(r)
    <2> DEFINE row == [versions[v] EXCEPT !.scheduled = TRUE, !.audience = CurrentAudience]
               s == [Session EXCEPT !.versions[v].scheduled = TRUE,
                                    !.versions[v].audience = CurrentAudience]
    <2>1. row \in Version /\ row.number = versions[v].number
        BY <1>5, VersionType, CurrentAudienceType DEF SchedulePublish, Version
    <2>2. ReviewsKept(s) /\ s.versions = [versions EXCEPT ![v] = row]
        BY DEF Session, ReviewsKept
    <2>3. Derived(s, 0)
        BY <2>1, <2>2, VersionsDerive DEF ChangesVersion
    <2>4. v \in Unpublished /\ ~row.published
        BY <1>5, VersionType, UnpublishedRows DEF SchedulePublish, Version
    <2>5. row.content = versions[v].content
        BY VersionType DEF Version
    <2>6. s.doc = doc /\ s.reviews = reviews
        BY DEF Session
    <2>7. Edits(s)
        <3> HIDE DEF s, row
        <3> QED BY <2>1, <2>2, <2>4, <2>5, <2>6 DEF Edits
    <2> QED BY <1>5, <2>3, <2>7 DEF SchedulePublish, Begins, Kind
<1>6. ASSUME NEW v \in DOMAIN versions, CancelScheduledPublish(r, v) PROVE Begins(r)
    <2> DEFINE row == [versions[v] EXCEPT !.scheduled = FALSE, !.audience = None]
               s == [Session EXCEPT !.versions[v].scheduled = FALSE,
                                    !.versions[v].audience = None]
    <2>1. row \in Version /\ row.number = versions[v].number
        BY <1>6, VersionType, CurrentAudienceType DEF CancelScheduledPublish, Version
    <2>2. ReviewsKept(s) /\ s.versions = [versions EXCEPT ![v] = row]
        BY DEF Session, ReviewsKept
    <2>3. Derived(s, 0)
        BY <2>1, <2>2, VersionsDerive DEF ChangesVersion
    <2>4. v \in Unpublished /\ ~row.published
        BY <1>6, VersionType, UnpublishedRows DEF CancelScheduledPublish, Version
    <2>5. row.content = versions[v].content
        BY VersionType DEF Version
    <2>6. s.doc = doc /\ s.reviews = reviews
        BY DEF Session
    <2>7. Edits(s)
        <3> HIDE DEF s, row
        <3> QED BY <2>1, <2>2, <2>4, <2>5, <2>6 DEF Edits
    <2> QED BY <1>6, <2>3, <2>7 DEF CancelScheduledPublish, Begins, Kind
<1>7. ASSUME NEW v \in DOMAIN versions, AssistantUnschedule(r, v) PROVE Begins(r)
    <2> DEFINE row == [versions[v] EXCEPT !.scheduled = FALSE]
               s == [Session EXCEPT !.versions[v].scheduled = FALSE]
    <2>1. row \in Version /\ row.number = versions[v].number
        BY <1>7, VersionType, CurrentAudienceType DEF AssistantUnschedule, Version
    <2>2. ReviewsKept(s) /\ s.versions = [versions EXCEPT ![v] = row]
        BY DEF Session, ReviewsKept
    <2>3. Derived(s, 0)
        BY <2>1, <2>2, VersionsDerive DEF ChangesVersion
    <2>4. v \in Unpublished /\ ~row.published
        BY <1>7, VersionType, UnpublishedRows DEF AssistantUnschedule, Version
    <2>5. row.content = versions[v].content
        BY VersionType DEF Version
    <2>6. s.doc = doc /\ s.reviews = reviews
        BY DEF Session
    <2>7. Edits(s)
        <3> HIDE DEF s, row
        <3> QED BY <2>1, <2>2, <2>4, <2>5, <2>6 DEF Edits
    <2> QED BY <1>7, <2>3, <2>7 DEF AssistantUnschedule, Begins, Kind
<1>8. ASSUME NEW v \in DOMAIN versions,
             Publish(r, v) \/ ForcePublish(r, v) \/ PublishScheduled(r, v)
      PROVE  Begins(r)
    <2>1. versions[v].scheduled \in BOOLEAN
        BY VersionType DEF Version
    <2> QED BY <1>8, <2>1, ReleaseDerives DEF Publish, ForcePublish, PublishScheduled
<1>9. ASSUME NEW v \in DOMAIN versions, RestoreAudience(r, v) PROVE Begins(r)
    <2> DEFINE s == [Session EXCEPT !.doc.visibility = versions[v].audience.visibility,
                                    !.companies = versions[v].audience.companies]
    <2>1. versions[v].audience \in Audience
        BY <1>9, VersionType DEF RestoreAudience, Version
    <2>2. ReviewsKept(s) /\ s.versions = versions
        BY <2>1 DEF Session, ReviewsKept, Document, Audience
    <2>3. Derived(s, 0)
        BY <2>2, VersionsDerive
    <2>4. s.doc.status = doc.status /\ s.reviews = reviews
        BY DEF Session, Document
    <2>5. Readdresses(s)
        BY <2>2, <2>4 DEF Readdresses
    <2> QED BY <1>9, <2>3, <2>5 DEF RestoreAudience, Begins, Kind
<1> QED
    BY <1>1, <1>2, <1>3, <1>4, <1>5, <1>6, <1>7, <1>8, <1>9 DEF VersionStep

LEMMA DocumentStepDerives ==
    ASSUME TypeOK, Numbered(versions), NEW r \in Requests, DocumentStep(r)
    PROVE  Begins(r)
<1> USE DEF TypeOK
<1>1. ASSUME NEW retitled \in BOOLEAN, NEW visibility \in Visibilities,
             NEW ids \in (SUBSET Companies) \cup {None},
             UpdateDocument(r, retitled, visibility, ids)
      PROVE  Begins(r)
    <2> DEFINE cs == UpdatedCompanies(visibility, ids)
               revisioned == retitled \/ visibility # doc.visibility
               readdressed == visibility # doc.visibility \/ cs # companies
               s == [Session EXCEPT
                       !.doc.visibility = visibility,
                       !.doc.audienceVersion = IF readdressed THEN @ + 1 ELSE @,
                       !.companies = cs,
                       !.versions = IF revisioned THEN Append(@, NewVersion(NextNumber)) ELSE @]
    <2>1. cs \subseteq Companies
        <3>1. CASE visibility = "company"
            BY <3>1 DEF UpdatedCompanies
        <3>2. CASE visibility # "company" /\ (ids # None \/ doc.visibility = "company")
            BY <3>2 DEF UpdatedCompanies
        <3>3. CASE visibility # "company" /\ ~(ids # None \/ doc.visibility = "company")
            BY <3>3 DEF UpdatedCompanies
        <3> QED BY <3>1, <3>2, <3>3
    <2>2. (IF readdressed THEN doc.audienceVersion + 1 ELSE doc.audienceVersion) \in 1 .. MaxAudience
        <3>1. readdressed => doc.audienceVersion < MaxAudience
            BY <1>1 DEF UpdateDocument
        <3>2. doc.audienceVersion \in 1 .. MaxAudience
            BY DEF Document
        <3> HIDE DEF readdressed
        <3> QED BY <3>1, <3>2, BoundsAssumption
    <2>3. /\ s.versions = IF revisioned THEN Append(versions, NewVersion(NextNumber)) ELSE versions
          /\ s.doc.status = doc.status
          /\ s.doc.visibility = visibility
          /\ s.doc.audienceVersion =
               IF readdressed THEN doc.audienceVersion + 1 ELSE doc.audienceVersion
          /\ s.doc = [status |-> s.doc.status, visibility |-> s.doc.visibility,
                      audienceVersion |-> s.doc.audienceVersion]
          /\ s = [doc |-> s.doc, companies |-> cs, versions |-> s.versions, reviews |-> reviews]
        <3> HIDE DEF cs, revisioned, readdressed
        <3>1. s.versions = IF revisioned THEN Append(versions, NewVersion(NextNumber)) ELSE versions
            BY DEF Session
        <3>2. /\ s.doc.status = doc.status
              /\ s.doc.visibility = visibility
              /\ s.doc.audienceVersion =
                   IF readdressed THEN doc.audienceVersion + 1 ELSE doc.audienceVersion
            BY DEF Session, Document
        <3>3. s.doc = [status |-> s.doc.status, visibility |-> s.doc.visibility,
                       audienceVersion |-> s.doc.audienceVersion]
            BY DEF Session, Document
        <3>4. s.companies = cs /\ s.reviews = reviews
            BY DEF Session
        <3>5. s = [doc |-> s.doc, companies |-> s.companies,
                   versions |-> s.versions, reviews |-> s.reviews]
            <4>1. DOMAIN s = {"doc", "companies", "versions", "reviews"}
                BY DEF Session
            <4>2. s = [x \in DOMAIN s |-> s[x]]
                BY DEF Session
            <4> HIDE DEF s
            <4> QED BY <4>1, <4>2
        <3> QED BY <3>1, <3>2, <3>3, <3>4, <3>5
    <2>4. s.doc \in Document
        <3> HIDE DEF s, readdressed
        <3> QED BY <2>2, <2>3 DEF Document
    <2>5. ReviewsKept(s)
        <3> HIDE DEF s, cs
        <3> QED BY <2>1, <2>3, <2>4 DEF ReviewsKept
    <2>6. s.versions = versions \/ AddsVersion(s)
        <3>1. revisioned => Len(versions) < MaxVersions
            BY <1>1 DEF UpdateDocument
        <3> QED BY <2>3, <3>1, NewVersionType DEF AddsVersion
    <2>7. Derived(s, 0)
        BY <2>5, <2>6, VersionsDerive
    <2>8. CASE revisioned
        <3>1. Len(versions) < MaxVersions
            BY <1>1, <2>8 DEF UpdateDocument
        <3>2. NewVersion(NextNumber).live /\ ~NewVersion(NextNumber).published
            BY DEF NewVersion
        <3> HIDE DEF s, revisioned
        <3>3. Adds(s)
            BY <2>3, <2>8, <3>1, <3>2, NewVersionType DEF Adds
        <3> QED BY <1>1, <2>7, <3>3 DEF UpdateDocument, Begins, Kind, s, revisioned
    <2>9. CASE ~revisioned
        <3>1. Readdresses(s)
            <4> HIDE DEF s, revisioned
            <4> QED BY <2>3, <2>9 DEF Readdresses
        <3> QED BY <1>1, <2>7, <3>1 DEF UpdateDocument, Begins, Kind
    <2> QED BY <2>8, <2>9
<1>2. ASSUME NEW cs \in SUBSET Companies, AssignCompanies(r, cs) PROVE Begins(r)
    <2> DEFINE s == [Session EXCEPT !.companies = cs, !.doc.audienceVersion = @ + 1]
    <2>1. doc.audienceVersion + 1 \in 1 .. MaxAudience
        BY <1>2, BoundsAssumption DEF AssignCompanies, Document
    <2>2. ReviewsKept(s) /\ s.versions = versions
        BY <2>1 DEF Session, ReviewsKept, Document
    <2>3. Derived(s, 0)
        BY <2>2, VersionsDerive
    <2>4. s.doc.status = doc.status /\ s.reviews = reviews
        BY DEF Session, Document
    <2>5. Readdresses(s)
        BY <2>2, <2>4 DEF Readdresses
    <2> QED BY <1>2, <2>3, <2>5 DEF AssignCompanies, Begins, Kind
<1>3. CASE Archive(r)
    <2> DEFINE s == [Session EXCEPT !.doc.status = "archived"]
    <2>1. ReviewsKept(s) /\ s.versions = versions
        BY DEF Session, ReviewsKept, Document, Statuses
    <2>2. Derived(s, 0)
        BY <2>1, VersionsDerive
    <2>3. s.doc.status = "archived" /\ s.reviews = reviews
        BY DEF Session, Document
    <2>4. Readdresses(s)
        BY <2>1, <2>3 DEF Readdresses
    <2> QED BY <1>3, <2>2, <2>4 DEF Archive, Begins, Kind
<1>4. CASE Restore(r)
    <2> DEFINE s == [Session EXCEPT
                       !.doc.status = RestoredStatus,
                       !.doc.visibility = IF companies \cap active = {} THEN "internal" ELSE @,
                       !.companies = @ \cap active]
    <2>1. ReviewsKept(s) /\ s.versions = versions
        BY DEF Session, ReviewsKept, Document, Statuses, Visibilities, RestoredStatus
    <2>2. Derived(s, 0)
        BY <2>1, VersionsDerive
    <2>3. s.doc.status = RestoredStatus /\ s.reviews = reviews
        BY DEF Session, Document
    <2>4. Readdresses(s)
        BY <2>1, <2>3 DEF Readdresses
    <2> QED BY <1>4, <2>2, <2>4 DEF Restore, Begins, Kind
<1>5. ASSUME NEW stale \in SUBSET Companies, ReconcileAssignments(r, stale) PROVE Begins(r)
    <2> DEFINE s == [Session EXCEPT
                       !.companies = @ \ stale,
                       !.doc.audienceVersion = @ + 1,
                       !.doc.visibility = IF companies \subseteq stale THEN "internal" ELSE @]
    <2>1. doc.audienceVersion + 1 \in 1 .. MaxAudience
        BY <1>5, BoundsAssumption DEF ReconcileAssignments, Document
    <2>2. ReviewsKept(s) /\ s.versions = versions
        BY <2>1 DEF Session, ReviewsKept, Document, Visibilities
    <2>3. Derived(s, 0)
        BY <2>2, VersionsDerive
    <2>4. s.doc.status = doc.status /\ s.reviews = reviews
        BY DEF Session, Document
    <2>5. Readdresses(s)
        BY <2>2, <2>4 DEF Readdresses
    <2> QED BY <1>5, <2>3, <2>5 DEF ReconcileAssignments, Begins, Kind
<1> QED BY <1>1, <1>2, <1>3, <1>4, <1>5 DEF DocumentStep

-----------------------------------------------------------------------------
(* The review operations.                                                  *)

\* A session of a review operation: the versions and the companies are those that
\* were read.
VersionsKept(s) ==
    s \in [doc : Document, companies : {companies}, versions : {versions},
           reviews : {s.reviews}]

\* One review is decided; others are left or cancelled.
LEMMA DecisionDerives ==
    ASSUME TypeOK, Numbered(versions), NEW s, VersionsKept(s), NEW i \in Nat,
           Len(s.reviews) = Len(reviews),
           s.reviews \in Seq(Review),
           \A j \in DOMAIN reviews :
             /\ SameReview(reviews[j], s.reviews[j])
             /\ s.reviews[j].status = "approved" => reviews[j].status = "approved" \/ j = i
    PROVE  Derived(s, i)
<1>1. s \in Sessions
    BY DEF Sessions, VersionsKept, TypeOK
<1>2. s.versions = versions /\ Len(versions) \in Nat /\ Len(reviews) \in Nat
    BY DEF VersionsKept, TypeOK
<1>3. DOMAIN s.reviews = DOMAIN reviews
    BY DEF TypeOK
<1> QED BY <1>1, <1>2, <1>3 DEF Derived

LEMMA ReviewType == ASSUME TypeOK, NEW i \in DOMAIN reviews PROVE reviews[i] \in Review
    BY DEF TypeOK

LEMMA SettledType ==
    ASSUME NEW target \in Statuses PROVE Settled(target) \in Statuses
    BY DEF Settled, Statuses

\* A review closed with an outcome, and what becomes of the others.
LEMMA ClosedType ==
    ASSUME TypeOK, NEW i \in DOMAIN reviews, NEW outcome \in {"rejected", "cancelled"}
    PROVE  /\ Closed(i, outcome) \in Seq(Review)
           /\ Len(Closed(i, outcome)) = Len(reviews)
           /\ \A j \in DOMAIN reviews :
                /\ SameReview(reviews[j], Closed(i, outcome)[j])
                /\ Closed(i, outcome)[j].status =
                     CASE j = i -> outcome
                       [] j \in Pending \ {i} -> "cancelled"
                       [] OTHER -> reviews[j].status
<1> DEFINE new(j) == CASE j = i       -> [reviews[j] EXCEPT !.status = outcome]
                       [] j \in Pending \ {i} -> [reviews[j] EXCEPT !.status = "cancelled"]
                       [] OTHER       -> reviews[j]
<1>1. Closed(i, outcome) = [j \in DOMAIN reviews |-> new(j)]
    BY DEF Closed
<1>2. ASSUME NEW j \in DOMAIN reviews
      PROVE  /\ new(j) \in Review
             /\ SameReview(reviews[j], new(j))
             /\ new(j).status = CASE j = i -> outcome
                                  [] j \in Pending \ {i} -> "cancelled"
                                  [] OTHER -> reviews[j].status
    <2>1. reviews[j] \in Review
        BY ReviewType
    <2>2. CASE j = i
        BY <2>1, <2>2 DEF Review, Outcomes, SameReview
    <2>3. CASE j # i /\ j \in Pending
        BY <2>1, <2>3 DEF Review, Outcomes, SameReview
    <2>4. CASE j # i /\ j \notin Pending
        BY <2>1, <2>4 DEF SameReview
    <2> QED BY <2>2, <2>3, <2>4
<1> HIDE DEF new
<1> QED BY <1>1, <1>2 DEF TypeOK

LEMMA RevertDerives ==
    ASSUME TypeOK, Numbered(versions), NEW r \in Requests, NEW i \in DOMAIN reviews,
           NEW op, op # "approve", NEW outcome \in {"rejected", "cancelled"},
           Revert(r, op, i, outcome)
    PROVE  Begins(r)
<1> DEFINE s == [Session EXCEPT !.doc.status = Settled("draft"),
                                !.reviews = Closed(i, outcome)]
<1>1. Settled("draft") \in Statuses
    BY SettledType DEF Statuses
<1>2. VersionsKept(s) /\ s.reviews = Closed(i, outcome)
    BY <1>1 DEF Session, VersionsKept, TypeOK, Document
<1>3. Derived(s, 0)
    <2> HIDE DEF s
    <2>1. \A j \in DOMAIN reviews : Closed(i, outcome)[j].status \in {outcome, "cancelled", reviews[j].status}
        BY ClosedType
    <2>2. \A j \in DOMAIN reviews :
            /\ SameReview(reviews[j], s.reviews[j])
            /\ s.reviews[j].status = "approved" => reviews[j].status = "approved" \/ j = 0
        BY <1>2, <2>1, ClosedType
    <2>3. s.reviews \in Seq(Review) /\ Len(s.reviews) = Len(reviews)
        BY <1>2, ClosedType
    <2> QED BY <1>2, <2>2, <2>3, DecisionDerives
<1>4. s.doc.status = Settled("draft") /\ s.versions = versions
    BY DEF Session, TypeOK, Document
<1>5. i \in Pending /\ CanSettle("draft")
    BY DEF Revert, Pending
<1>6. Reverts(s)
    <2> HIDE DEF s
    <2> QED BY <1>2, <1>4, <1>5 DEF Reverts
<1> QED BY <1>3, <1>6 DEF Revert, Begins, Kind

LEMMA AssistantRejectDerives ==
    ASSUME TypeOK, Numbered(versions), NEW r \in Requests, NEW i \in DOMAIN reviews,
           AssistantReject(r, i)
    PROVE  Begins(r)
<1> DEFINE s == [Session EXCEPT !.reviews[i].status = "rejected"]
<1>1. /\ VersionsKept(s)
      /\ s.reviews = [reviews EXCEPT ![i] = [@ EXCEPT !.status = "rejected"]]
    BY DEF Session, VersionsKept, TypeOK
<1>2. [reviews[i] EXCEPT !.status = "rejected"] \in Review
    BY ReviewType DEF Review, Outcomes
<1>3. s.reviews \in Seq(Review) /\ Len(s.reviews) = Len(reviews)
    <2> DEFINE row == [reviews[i] EXCEPT !.status = "rejected"]
    <2>1. row \in Review /\ s.reviews = [reviews EXCEPT ![i] = row]
        BY <1>1, <1>2
    <2> HIDE DEF row, s
    <2> QED BY <2>1 DEF TypeOK
<1>4. \A j \in DOMAIN reviews :
        /\ SameReview(reviews[j], s.reviews[j])
        /\ s.reviews[j].status = "approved" => reviews[j].status = "approved" \/ j = 0
    BY <1>1, ReviewType DEF SameReview, Review
<1>5. Derived(s, 0)
    BY <1>1, <1>3, <1>4, DecisionDerives
<1>6. s.doc = doc /\ s.versions = versions /\ i \in Pending
    BY DEF Session, AssistantReject, Pending
<1>7. Dismisses("assistant_reject", s)
    BY <1>1, <1>6 DEF Dismisses
<1> QED BY <1>5, <1>7 DEF AssistantReject, Begins, Kind

LEMMA SubmitDerives ==
    ASSUME TypeOK, Numbered(versions), NEW r \in Requests, Submit(r)
    PROVE  Begins(r)
<1>1. PICK v \in IF Unpublished = {} THEN {0} ELSE Unpublished :
        Begin(r, "submit",
              [Session EXCEPT
                 !.doc.status = Settled("pending_review"),
                 !.reviews = Append(@,
                    [status |-> "pending", version |-> v,
                     audience |-> CurrentAudience,
                     audienceVersion |-> doc.audienceVersion,
                     content |-> IF v = 0 THEN 0 ELSE versions[v].content])])
    BY DEF Submit
<1> DEFINE row == [status |-> "pending", version |-> v,
                   audience |-> CurrentAudience,
                   audienceVersion |-> doc.audienceVersion,
                   content |-> IF v = 0 THEN 0 ELSE versions[v].content]
           s == [Session EXCEPT !.doc.status = Settled("pending_review"),
                                !.reviews = Append(@, row)]
<1>2. v \in 0 .. Len(versions)
    BY DEF Unpublished, Live, TypeOK
<1>3. row \in Review
    <2>1. v \in 0 .. MaxVersions
        BY <1>2, BoundsAssumption DEF TypeOK
    <2>2. (IF v = 0 THEN 0 ELSE versions[v].content) \in 0 .. MaxEdits
        <3>1. v # 0 => versions[v] \in Version
            BY <1>2 DEF TypeOK
        <3> QED BY <3>1, BoundsAssumption DEF Version
    <2>3. CurrentAudience \in Audience /\ doc.audienceVersion \in 1 .. MaxAudience
        BY CurrentAudienceType DEF TypeOK, Document
    <2> QED BY <2>1, <2>2, <2>3 DEF Review
<1>4. Settled("pending_review") \in Statuses
    BY SettledType DEF Statuses
<1>5. /\ s \in [doc : Document, companies : {companies}, versions : {versions},
                reviews : {Append(reviews, row)}]
      /\ s.reviews = Append(reviews, row)
    BY <1>4 DEF Session, TypeOK, Document
<1>6. row.version \in 0 .. Len(versions)
    BY <1>2
<1> HIDE DEF row, s
<1>7. s \in Sessions
    <2>1. Append(reviews, row) \in Seq(Review)
        BY <1>3 DEF TypeOK
    <2> QED BY <1>5, <2>1 DEF Sessions, TypeOK
<1>8. /\ Len(reviews) <= Len(s.reviews)
      /\ \A j \in DOMAIN reviews : s.reviews[j] = reviews[j]
      /\ \A j \in DOMAIN s.reviews \ DOMAIN reviews : s.reviews[j] = row
    BY <1>3, <1>5 DEF TypeOK
<1>9. s.versions = versions /\ Len(versions) \in Nat
    BY <1>5 DEF TypeOK
<1>10. Derived(s, 0)
    BY <1>6, <1>7, <1>8, <1>9 DEF Derived, SameReview
<1>11. s.doc.status = Settled("pending_review")
    BY DEF s, Session, TypeOK, Document
<1>12. row.status = "pending" /\ row.version = v /\ (v # 0 => row.content = versions[v].content)
    BY DEF row
<1>13. v # 0 => v \in Unpublished
    OBVIOUS
<1>14. Submits(s)
    BY <1>3, <1>5, <1>9, <1>11, <1>12, <1>13 DEF Submits, Submit
<1> QED BY <1>1, <1>10, <1>14 DEF row, s, Begins, Kind

\* The approval, of the review that was validated.
LEMMA ApproveDerives ==
    ASSUME TypeOK, Numbered(versions), NEW i \in DOMAIN reviews
    PROVE  Derived([Session EXCEPT !.doc.status = Settled("approved"),
                                   !.reviews[i].status = "approved"], i)
<1> DEFINE s == [Session EXCEPT !.doc.status = Settled("approved"),
                                !.reviews[i].status = "approved"]
<1>1. Settled("approved") \in Statuses
    BY SettledType DEF Statuses
<1>2. /\ VersionsKept(s)
      /\ s.reviews = [reviews EXCEPT ![i] = [@ EXCEPT !.status = "approved"]]
    BY <1>1 DEF Session, VersionsKept, TypeOK, Document
<1>3. [reviews[i] EXCEPT !.status = "approved"] \in Review
    BY ReviewType DEF Review, Outcomes
<1>4. s.reviews \in Seq(Review) /\ Len(s.reviews) = Len(reviews)
    <2> DEFINE row == [reviews[i] EXCEPT !.status = "approved"]
    <2>1. row \in Review /\ s.reviews = [reviews EXCEPT ![i] = row]
        BY <1>2, <1>3
    <2> HIDE DEF row, s
    <2> QED BY <2>1 DEF TypeOK
<1>5. \A j \in DOMAIN reviews :
        /\ SameReview(reviews[j], s.reviews[j])
        /\ s.reviews[j].status = "approved" => reviews[j].status = "approved" \/ j = i
    BY <1>2, ReviewType DEF SameReview, Review
<1>6. i \in Nat
    BY DEF TypeOK
<1> QED BY <1>2, <1>4, <1>5, <1>6, DecisionDerives

-----------------------------------------------------------------------------
(* Steps.                                                                  *)

\* Rows are never taken away.
Grows == /\ TypeOK' /\ Numbered(versions)'
         /\ Len(versions) <= Len(versions') /\ Len(reviews) <= Len(reviews')

\* What a request will write fits the tables also after others have written.
LEMMA WritesStillFit ==
    ASSUME TypeOK, Grows, NEW w, NEW i, WritesFit(w, i)
    PROVE  WritesFit(w, i)'
<1>1. /\ DOMAIN versions \subseteq DOMAIN versions'
      /\ DOMAIN reviews \subseteq DOMAIN reviews'
    BY DEF Grows, TypeOK
<1>2. Len(versions) \in Nat /\ Len(versions') \in Nat /\ Len(versions) <= Len(versions')
    BY DEF Grows, TypeOK
<1>3. \A k \in DOMAIN w.newVersions : w.newVersions[k].number <= Len(versions') + k
    <2> SUFFICES ASSUME NEW k \in DOMAIN w.newVersions
                 PROVE  w.newVersions[k].number <= Len(versions') + k
        OBVIOUS
    <2>1. k \in Nat /\ w.newVersions[k] \in Version
        BY DEF WritesFit
    <2>2. w.newVersions[k].number \in Nat /\ w.newVersions[k].number <= Len(versions) + k
        BY <2>1 DEF WritesFit, Version
    <2> QED BY <1>2, <2>1, <2>2
<1>4. \A k \in DOMAIN w.newReviews : w.newReviews[k].version \in 0 .. Len(versions')
    BY <1>2 DEF WritesFit
<1> QED BY <1>1, <1>3, <1>4 DEF WritesFit

\* A request other than r keeps what it has; r ends, or has something that fits.
LEMMA RequestsStillFit ==
    ASSUME TypeOK, RequestsFit, Grows, NEW r \in Requests, NEW q,
           requests' = [requests EXCEPT ![r] = q],
           q = [op |-> q.op, review |-> q.review, writes |-> q.writes],
           q.op = "approve" <=> q.review \in DOMAIN reviews',
           q.writes # None => WritesFit(q.writes, q.review)'
    PROVE  RequestsFit'
<1>1. DOMAIN requests = Requests
    BY DEF RequestsFit
<1>2. requests'[r] = q /\ \A t \in Requests \ {r} : requests'[t] = requests[t]
    BY <1>1
<1>3. requests' = [t \in Requests |-> [op     |-> requests'[t].op,
                                       review |-> requests'[t].review,
                                       writes |-> requests'[t].writes]]
    <2>1. \A t \in Requests : requests'[t] = [op     |-> requests'[t].op,
                                              review |-> requests'[t].review,
                                              writes |-> requests'[t].writes]
        BY <1>2 DEF RequestsFit
    <2>2. requests' = [t \in Requests |-> requests'[t]]
        BY <1>1
    <2> QED BY <2>1, <2>2
<1>4. ASSUME NEW t \in Requests
      PROVE  /\ requests'[t].op = "approve" <=> requests'[t].review \in DOMAIN reviews'
             /\ (Ready(t) => WritesFit(requests[t].writes, requests[t].review))'
    <2>1. CASE t = r
        BY <1>2, <2>1 DEF Ready
    <2>2. CASE t # r
        <3>1. requests'[t] = requests[t]
            BY <1>2, <2>2
        <3>2. requests[t].review \in 0 .. Len(reviews)
            BY DEF TypeOK
        <3>3. requests[t].review \in DOMAIN reviews' <=> requests[t].review \in DOMAIN reviews
            BY <3>2 DEF Grows, TypeOK
        <3>4. requests[t].op = "approve" <=> requests[t].review \in DOMAIN reviews
            BY DEF RequestsFit
        <3>5. Ready(t) => WritesFit(requests[t].writes, requests[t].review)
            BY DEF RequestsFit
        <3>6. ASSUME NEW w, NEW i, w = requests[t].writes, i = requests[t].review, Ready(t)
              PROVE  WritesFit(w, i)'
            BY <3>5, <3>6, WritesStillFit
        <3> QED BY <3>1, <3>3, <3>4, <3>6 DEF Ready
    <2> QED BY <2>1, <2>2
<1> QED BY <1>3, <1>4 DEF RequestsFit

LEMMA BeginsKeeps ==
    ASSUME WorkInv, NEW r \in Requests, Begins(r)
    PROVE  WorkInv'
<1>1. PICK s : Derived(s, 0) /\ \E op : op # "approve" /\ Begin(r, op, s)
    BY DEF Begins
<1>2. PICK op : op # "approve" /\ Begin(r, op, s)
    BY <1>1
<1>3. UNCHANGED stored /\ op \in Operations
    BY <1>2 DEF Begin, Free
<1>4. PICK q : q = [op |-> op, review |-> 0, writes |-> Writes(s)]
    OBVIOUS
<1>5. requests' = [requests EXCEPT ![r] = q]
    BY <1>2, <1>4 DEF Begin
<1>6. TypeOK'
    <2>1. DOMAIN requests = Requests
        BY DEF WorkInv, RequestsFit
    <2>2. \A t \in Requests : requests'[t] = q \/ requests'[t] = requests[t]
        BY <1>5, <2>1
    <2> QED BY <1>3, <1>4, <2>2 DEF WorkInv, TypeOK, stored
<1>7. Grows
    BY <1>3, <1>6 DEF Grows, WorkInv, TypeOK, stored, Numbered
<1>8. WritesFit(q.writes, q.review)'
    <2>1. WritesFit(Writes(s), 0)
        BY <1>1, DerivedFits DEF WorkInv
    <2>2. q.writes = Writes(s) /\ q.review = 0
        BY <1>4
    <2>3. WritesFit(q.writes, q.review)
        BY <2>1, <2>2
    <2> HIDE <1>4
    <2> QED BY <2>3, <1>7, WritesStillFit DEF WorkInv
<1>9. q.op = "approve" <=> q.review \in DOMAIN reviews'
    BY <1>2, <1>4, <1>6 DEF TypeOK
<1>10. q = [op |-> q.op, review |-> q.review, writes |-> q.writes]
    BY <1>4
<1>11. RequestsFit'
    BY <1>5, <1>7, <1>8, <1>9, <1>10, RequestsStillFit DEF WorkInv
<1> QED BY <1>6, <1>7, <1>11 DEF WorkInv, Grows

\* The rows after a commit, however many requests committed since they were read.
LEMMA CommitRows ==
    ASSUME WorkInv, NEW r \in Requests, Commit(r)
    PROVE  /\ doc' \in Document /\ companies' \subseteq Companies
           /\ versions' \in Seq(Version) /\ Len(versions') <= MaxVersions
           /\ reviews' \in Seq(Review) /\ Len(reviews') <= MaxReviews
           /\ Len(versions) <= Len(versions') /\ Len(reviews) <= Len(reviews')
           /\ Numbered(versions)'
           /\ \A j \in DOMAIN reviews :
                /\ SameReview(reviews[j], reviews'[j])
                /\ reviews'[j].status = "approved" =>
                     reviews[j].status \in {"pending", "approved"}
           /\ \A j \in DOMAIN reviews' \ DOMAIN reviews :
                reviews'[j].version \in 0 .. Len(versions)
<1> DEFINE w == requests[r].writes
           i == requests[r].review
           vs == OverRows(versions, w.versions)
           rs == OverRows(reviews, w.reviews)
<1>1. WritesFit(w, i) /\ TypeOK /\ Numbered(versions)
    BY DEF WorkInv, RequestsFit, Commit
<1>2. /\ doc' = Over(doc, w.doc)
      /\ companies' = (companies \ w.unassign) \cup w.assign
      /\ versions' = vs \o w.newVersions /\ Len(versions') <= MaxVersions
      /\ reviews' = rs \o w.newReviews /\ Len(reviews') <= MaxReviews
    BY DEF Commit
<1>3. doc' \in Document /\ companies' \subseteq Companies
    BY <1>1, <1>2 DEF WritesFit, Fits, TypeOK
<1>4. /\ vs = [v \in DOMAIN versions |-> vs[v]]
      /\ \A v \in DOMAIN versions : vs[v] \in VersionAt(v)
    <2>1. ASSUME NEW v \in DOMAIN versions PROVE vs[v] \in VersionAt(v)
        <3>1. versions[v] \in VersionAt(v)
            BY <1>1 DEF Numbered
        <3>2. vs[v] = IF v \in DOMAIN w.versions THEN Over(versions[v], w.versions[v])
                                                  ELSE versions[v]
            BY DEF OverRows
        <3> HIDE DEF w, vs
        <3> QED BY <1>1, <3>1, <3>2 DEF WritesFit, Fits
    <2> QED BY <2>1 DEF OverRows
<1>5. /\ rs = [j \in DOMAIN reviews |-> rs[j]]
      /\ \A j \in DOMAIN reviews :
           /\ rs[j] \in Review
           /\ SameReview(reviews[j], rs[j])
           /\ rs[j].status = "approved" => reviews[j].status = "approved" \/ j = i
    <2>1. ASSUME NEW j \in DOMAIN reviews
          PROVE  /\ rs[j] \in Review
                 /\ SameReview(reviews[j], rs[j])
                 /\ rs[j].status = "approved" => reviews[j].status = "approved" \/ j = i
        <3>1. reviews[j] \in Review
            BY <1>1, ReviewType
        <3>2. rs[j] = IF j \in DOMAIN w.reviews THEN Over(reviews[j], w.reviews[j])
                                                 ELSE reviews[j]
            BY DEF OverRows
        <3> HIDE DEF w, rs, i
        <3> QED BY <1>1, <3>1, <3>2 DEF WritesFit, SameReview
    <2> QED BY <2>1 DEF OverRows
<1>6. reviews[i].status = "pending" \/ i \notin DOMAIN reviews
    BY DEF Commit, ApprovalHolds, WorkInv, RequestsFit
<1> HIDE DEF w, i, vs, rs
<1>7. \A v \in DOMAIN versions : vs[v] \in Version /\ vs[v].number <= v
    BY <1>4 DEF VersionAt
<1>8. /\ versions' \in Seq(Version)
      /\ Len(versions') = Len(versions) + Len(w.newVersions)
      /\ \A v \in DOMAIN versions : versions'[v] = vs[v]
      /\ \A v \in DOMAIN versions' \ DOMAIN versions :
           /\ v - Len(versions) \in DOMAIN w.newVersions
           /\ versions'[v] = w.newVersions[v - Len(versions)]
    <2> DEFINE all == vs \o w.newVersions
    <2>1. w.newVersions \in Seq(Version) /\ versions \in Seq(Version)
          /\ vs \in [DOMAIN versions -> Version]
        BY <1>1, <1>4, <1>7 DEF WritesFit, TypeOK
    <2>2. all \in Seq(Version) /\ Len(all) = Len(versions) + Len(w.newVersions)
        BY <2>1, ReplacedSeq
    <2>3. \A v \in DOMAIN versions : all[v] = vs[v]
        BY <2>1, ReplacedSeq
    <2>4. \A v \in DOMAIN all \ DOMAIN versions :
            v - Len(versions) \in DOMAIN w.newVersions /\ all[v] = w.newVersions[v - Len(versions)]
        BY <2>1, ReplacedSeq
    <2>5. versions' = all
        BY <1>2
    <2> HIDE DEF all
    <2> QED BY <2>2, <2>3, <2>4, <2>5
<1>9. Numbered(versions)'
    <2> SUFFICES ASSUME NEW v \in DOMAIN versions'
                 PROVE  versions'[v] \in VersionAt(v)
        BY DEF Numbered
    <2>1. CASE v \in DOMAIN versions
        BY <1>4, <1>8, <2>1
    <2>2. CASE v \notin DOMAIN versions
        <3>1. /\ versions'[v] \in Version /\ v \in Nat /\ Len(versions) \in Nat
              /\ versions'[v].number <= Len(versions) + (v - Len(versions))
            BY <1>1, <1>8, <2>2 DEF WritesFit, TypeOK
        <3> QED BY <3>1 DEF VersionAt, Version
    <2> QED BY <2>1, <2>2
<1>10. /\ reviews' \in Seq(Review)
       /\ Len(reviews') = Len(reviews) + Len(w.newReviews)
       /\ \A j \in DOMAIN reviews : reviews'[j] = rs[j]
       /\ \A j \in DOMAIN reviews' \ DOMAIN reviews :
            /\ j - Len(reviews) \in DOMAIN w.newReviews
            /\ reviews'[j] = w.newReviews[j - Len(reviews)]
    <2> DEFINE all == rs \o w.newReviews
    <2>1. w.newReviews \in Seq(Review) /\ reviews \in Seq(Review)
          /\ rs \in [DOMAIN reviews -> Review]
        BY <1>1, <1>5 DEF WritesFit, TypeOK
    <2>2. all \in Seq(Review) /\ Len(all) = Len(reviews) + Len(w.newReviews)
        BY <2>1, ReplacedSeq
    <2>3. \A j \in DOMAIN reviews : all[j] = rs[j]
        BY <2>1, ReplacedSeq
    <2>4. \A j \in DOMAIN all \ DOMAIN reviews :
            j - Len(reviews) \in DOMAIN w.newReviews /\ all[j] = w.newReviews[j - Len(reviews)]
        BY <2>1, ReplacedSeq
    <2>5. reviews' = all
        BY <1>2
    <2> HIDE DEF all
    <2> QED BY <2>2, <2>3, <2>4, <2>5
<1>11. \A j \in DOMAIN reviews :
         /\ SameReview(reviews[j], reviews'[j])
         /\ reviews'[j].status = "approved" => reviews[j].status \in {"pending", "approved"}
    BY <1>5, <1>6, <1>10
<1>12. \A j \in DOMAIN reviews' \ DOMAIN reviews : reviews'[j].version \in 0 .. Len(versions)
    BY <1>1, <1>10 DEF WritesFit
<1>13. Len(versions) <= Len(versions') /\ Len(reviews) <= Len(reviews')
    BY <1>1, <1>8, <1>10 DEF WritesFit, TypeOK
<1> QED BY <1>2, <1>3, <1>8, <1>9, <1>10, <1>11, <1>12, <1>13

\* The request is over.
LEMMA EndKeeps ==
    ASSUME WorkInv, NEW r \in Requests, Grows, requests' = [requests EXCEPT ![r] = Idle]
    PROVE  RequestsFit'
<1>1. PICK q : q = Idle
    OBVIOUS
<1>2. /\ q = [op |-> q.op, review |-> q.review, writes |-> q.writes]
      /\ q.op # "approve" /\ q.review = 0 /\ q.writes = None
    BY <1>1 DEF Idle
<1>3. q.op = "approve" <=> q.review \in DOMAIN reviews'
    BY <1>2 DEF Grows, TypeOK
<1> QED BY <1>1, <1>2, <1>3, RequestsStillFit DEF WorkInv

LEMMA CommitKeeps == ASSUME WorkInv, NEW r \in Requests, Commit(r) PROVE WorkInv'
<1>1. requests' = [requests EXCEPT ![r] = Idle] /\ UNCHANGED active
    BY DEF Commit
<1>2. TypeOK'
    <2>1. \A t \in Requests : requests'[t] = Idle \/ requests'[t] = requests[t]
        BY <1>1 DEF WorkInv, RequestsFit
    <2>2. \A t \in Requests : /\ requests'[t].op \in Operations \cup {"none"}
                              /\ requests'[t].review \in 0 .. Len(reviews')
        <3>1. Len(reviews) \in Nat /\ Len(reviews') \in Nat /\ Len(reviews) <= Len(reviews')
            BY CommitRows DEF WorkInv, TypeOK
        <3> QED BY <2>1, <3>1 DEF Idle, WorkInv, TypeOK
    <2> QED BY <1>1, <2>2, CommitRows DEF TypeOK, WorkInv
<1>3. Grows
    BY <1>2, CommitRows DEF Grows
<1> QED BY <1>1, <1>2, <1>3, EndKeeps DEF WorkInv, Grows

\* The approval between its validation and its execution.
LEMMA ApprovalKeeps ==
    ASSUME WorkInv, NEW r \in Requests,
           Approve(r) \/ \E i \in DOMAIN reviews : ValidateApproval(r, i)
    PROVE  WorkInv'
<1>1. DOMAIN requests = Requests /\ UNCHANGED stored
    BY DEF WorkInv, RequestsFit, Approve, ValidateApproval
<1>2. PICK q, i :
        /\ i \in DOMAIN reviews /\ "approve" \in Operations
        /\ q = [op |-> "approve", review |-> i, writes |-> q.writes]
        /\ requests' = [requests EXCEPT ![r] = q]
        /\ q.writes # None => WritesFit(q.writes, i)
    <2>1. ASSUME NEW i \in DOMAIN reviews, ValidateApproval(r, i)
          PROVE  \E q : /\ "approve" \in Operations
                        /\ q = [op |-> "approve", review |-> i, writes |-> q.writes]
                        /\ requests' = [requests EXCEPT ![r] = q]
                        /\ q.writes = None
        <3> DEFINE q == [Idle EXCEPT !.op = "approve", !.review = i]
        <3>1. q = [op |-> "approve", review |-> i, writes |-> None]
            <4>1. /\ DOMAIN q = {"op", "review", "writes"} /\ q = [a \in DOMAIN q |-> q[a]]
                  /\ q.op = "approve" /\ q.review = i /\ q.writes = None
                BY DEF Idle
            <4> HIDE DEF q
            <4> QED BY <4>1
        <3>2. "approve" \in Operations /\ requests' = [requests EXCEPT ![r] = q]
            BY <2>1 DEF ValidateApproval, Free
        <3> HIDE DEF q
        <3>3. q = [op |-> "approve", review |-> i, writes |-> q.writes] /\ q.writes = None
            BY <3>1
        <3> QED BY <3>2, <3>3
    <2>2. CASE Approve(r)
        <3> DEFINE i == requests[r].review
                   s == [Session EXCEPT !.doc.status = Settled("approved"),
                                        !.reviews[i].status = "approved"]
                   q == [requests[r] EXCEPT !.writes = Writes(s)]
        <3>1. requests[r].op = "approve" /\ requests' = [requests EXCEPT ![r] = q]
            BY <2>2 DEF Approve
        <3>2. i \in DOMAIN reviews /\ i \in Nat
            <4>1. i \in DOMAIN reviews
                BY <3>1 DEF WorkInv, RequestsFit
            <4>2. i \in 0 .. Len(reviews)
                BY DEF WorkInv, TypeOK
            <4>3. Len(reviews) \in Nat
                BY DEF WorkInv, TypeOK
            <4> QED BY <4>1, <4>2, <4>3
        <3>3. "approve" \in Operations
            BY <3>1 DEF WorkInv, TypeOK
        <3>4. q = [op |-> "approve", review |-> i, writes |-> q.writes] /\ q.writes = Writes(s)
            BY <3>1 DEF WorkInv, RequestsFit
        <3>5. Derived(s, i)
            BY <3>2, ApproveDerives DEF WorkInv
        <3>6. WritesFit(Writes(s), i)
            <4> HIDE DEF s, i
            <4> QED BY <3>2, <3>5, DerivedFits DEF WorkInv
        <3> HIDE DEF q, s, i
        <3> QED BY <3>1, <3>2, <3>3, <3>4, <3>6
    <2> QED BY <2>1, <2>2
<1>3. TypeOK'
    <2>1. \A t \in Requests : requests'[t] = q \/ requests'[t] = requests[t]
        BY <1>1, <1>2
    <2>2. q.op \in Operations /\ q.review \in 0 .. Len(reviews)
        BY <1>2 DEF WorkInv, TypeOK
    <2> QED BY <1>1, <2>1, <2>2 DEF WorkInv, TypeOK, stored
<1>4. Grows
    BY <1>1, <1>3 DEF Grows, WorkInv, TypeOK, stored, Numbered
<1>5. q.writes # None => WritesFit(q.writes, q.review)'
    <2>1. q.writes # None => WritesFit(q.writes, q.review)
        BY <1>2
    <2> QED BY <2>1, <1>4, WritesStillFit DEF WorkInv
<1>6. q.op = "approve" /\ q.review \in DOMAIN reviews'
    BY <1>1, <1>2 DEF stored
<1>7. q = [op |-> q.op, review |-> q.review, writes |-> q.writes]
    BY <1>2
<1>8. RequestsFit'
    BY <1>2, <1>4, <1>5, <1>6, <1>7, RequestsStillFit DEF WorkInv
<1> QED BY <1>3, <1>4, <1>8 DEF WorkInv, Grows

\* Companies come and go beside the requests.
LEMMA CompanyKeeps ==
    ASSUME WorkInv, NEW r \in Requests, CompanyStep(r) PROVE WorkInv'
<1>1. UNCHANGED <<doc, versions, reviews, requests>>
    BY DEF CompanyStep, SuspendCompany, ReactivateCompany, DeactivateCompany
<1>2. TypeOK'
    BY <1>1
    DEF WorkInv, TypeOK, CompanyStep, SuspendCompany, ReactivateCompany, DeactivateCompany
<1>3. Grows
    BY <1>1, <1>2 DEF Grows, WorkInv, TypeOK, Numbered
<1>4. ASSUME NEW w, NEW i, WritesFit(w, i) PROVE WritesFit(w, i)'
    BY <1>3, <1>4, WritesStillFit DEF WorkInv
<1>5. RequestsFit'
    BY <1>1, <1>4 DEF WorkInv, RequestsFit, Ready
<1> QED BY <1>2, <1>3, <1>5 DEF WorkInv, Grows

LEMMA WorkStep == ASSUME WorkInv, [Next]_vars PROVE WorkInv'
<1>1. ASSUME NEW r \in Requests, ReviewStep(r) PROVE WorkInv'
    <2>1. CASE Submit(r)
        BY <2>1, SubmitDerives, BeginsKeeps DEF WorkInv
    <2>2. ASSUME NEW i \in DOMAIN reviews, Reject(r, i) \/ Cancel(r, i) PROVE WorkInv'
        <3>1. Begins(r)
            BY <2>2, RevertDerives DEF WorkInv, Reject, Cancel
        <3> QED BY <3>1, BeginsKeeps
    <2>3. ASSUME NEW i \in DOMAIN reviews, AssistantReject(r, i) PROVE WorkInv'
        BY <2>3, AssistantRejectDerives, BeginsKeeps DEF WorkInv
    <2> QED BY <1>1, <2>1, <2>2, <2>3, ApprovalKeeps DEF ReviewStep
<1>2. ASSUME NEW r \in Requests, VersionStep(r) \/ DocumentStep(r) PROVE WorkInv'
    BY <1>2, VersionStepDerives, DocumentStepDerives, BeginsKeeps DEF WorkInv
<1>3. ASSUME NEW r \in Requests, Rollback(r) PROVE WorkInv'
    <2>1. UNCHANGED stored /\ requests' = [requests EXCEPT ![r] = Idle]
        BY <1>3 DEF Rollback
    <2>2. TypeOK'
        <3>1. \A t \in Requests : requests'[t] = Idle \/ requests'[t] = requests[t]
            BY <2>1 DEF WorkInv, RequestsFit
        <3> QED BY <2>1, <3>1 DEF WorkInv, TypeOK, stored, Idle
    <2>3. Grows
        BY <2>1, <2>2 DEF Grows, WorkInv, TypeOK, stored, Numbered
    <2> QED BY <2>1, <2>2, <2>3, EndKeeps DEF WorkInv, Grows
<1>4. CASE UNCHANGED vars
    <2>1. TypeOK' /\ Grows
        BY <1>4 DEF WorkInv, TypeOK, Grows, Numbered, vars
    <2>2. ASSUME NEW w, NEW i, WritesFit(w, i) PROVE WritesFit(w, i)'
        BY <2>1, <2>2, WritesStillFit DEF WorkInv
    <2>3. RequestsFit'
        BY <1>4, <2>2 DEF WorkInv, RequestsFit, Ready, vars
    <2> QED BY <2>1, <2>3 DEF WorkInv, Grows
<1> QED BY <1>1, <1>2, <1>3, <1>4, CommitKeeps, CompanyKeeps DEF Next

LEMMA WorkInit == Init => WorkInv
<1> SUFFICES ASSUME Init PROVE WorkInv
    OBVIOUS
<1>1. NewVersion(1) \in VersionAt(1)
    BY BoundsAssumption DEF NewVersion, Version, VersionAt
<1>2. versions \in {<<>>, <<NewVersion(1)>>}
    BY DEF Init, CreatedByRequest, CreatedByAssistant
<1>3. doc \in Document /\ companies \subseteq Companies
    <2>1. CASE CreatedByRequest
        BY <2>1, CreationAssumption, BoundsAssumption DEF CreatedByRequest, Document
    <2>2. CASE CreatedByAssistant
        BY <2>2, BoundsAssumption DEF CreatedByAssistant, Document, Statuses
    <2> QED BY <2>1, <2>2 DEF Init
<1>4. /\ versions \in Seq(Version) /\ Len(versions) <= MaxVersions
      /\ Numbered(versions)
    <2>1. PICK row : row = NewVersion(1)
        OBVIOUS
    <2>2. row \in Version /\ row \in VersionAt(1) /\ versions \in {<<>>, <<row>>}
        BY <1>1, <1>2, <2>1 DEF VersionAt
    <2>3. CASE versions = <<>>
        BY <2>3, BoundsAssumption DEF Numbered
    <2>4. CASE versions = <<row>>
        BY <2>2, <2>4, BoundsAssumption DEF Numbered
    <2> QED BY <2>2, <2>3, <2>4
<1>5. reviews \in Seq(Review) /\ Len(reviews) <= MaxReviews /\ reviews = <<>>
    BY BoundsAssumption DEF Init
<1>6. \A r \in Requests : requests[r] = Idle
    BY DEF Init
<1>7. RequestsFit
    BY <1>5, <1>6 DEF Init, RequestsFit, Ready, Idle
<1> QED BY <1>3, <1>4, <1>5, <1>6, <1>7 DEF Init, WorkInv, TypeOK, Idle

LEMMA WorkAlways == Spec => []WorkInv
    BY WorkInit, WorkStep, PTL DEF Spec

\* The rows and the requests in flight keep their types, whatever overlaps.
THEOREM TypeCorrect == Spec => []TypeOK
<1>1. WorkInv => TypeOK
    BY DEF WorkInv
<1> QED BY <1>1, WorkAlways, PTL

-----------------------------------------------------------------------------
(* What holds of overlapping requests.                                     *)

\* Only a commit changes a review or a version.
LEMMA OnlyCommitsWrite ==
    ASSUME WorkInv, [Next]_vars
    PROVE  UNCHANGED <<versions, reviews>> \/ \E r \in Requests : Commit(r)
<1>1. ASSUME NEW r \in Requests, ReviewStep(r) PROVE UNCHANGED stored
    BY <1>1 DEF ReviewStep, Submit, ValidateApproval, Approve, Reject, Cancel, Revert,
                AssistantReject, Begin
<1>2. ASSUME NEW r \in Requests, VersionStep(r) PROVE UNCHANGED stored
    BY <1>2, VersionStepDerives DEF WorkInv, Begins, Begin
<1>3. ASSUME NEW r \in Requests, DocumentStep(r) PROVE UNCHANGED stored
    BY <1>3, DocumentStepDerives DEF WorkInv, Begins, Begin
<1>4. ASSUME NEW r \in Requests, CompanyStep(r) PROVE UNCHANGED <<versions, reviews>>
    BY <1>4 DEF CompanyStep, SuspendCompany, ReactivateCompany, DeactivateCompany
<1>5. ASSUME NEW r \in Requests, Rollback(r) PROVE UNCHANGED stored
    BY <1>5 DEF Rollback
<1> QED BY <1>1, <1>2, <1>3, <1>4, <1>5 DEF Next, vars, stored

\* However many submissions and deletions overlap, no review loses its version:
\* the reviews that are there keep theirs, a new one names a version that has been
\* there, and the foreign key lets neither commit after the other.
THEOREM ReviewedVersionsStay == Spec => []ReviewedVersionStays
<1>1. Init => ReviewedVersionStays
    BY DEF Init, ReviewedVersionStays
<1>2. ASSUME WorkInv, ReviewedVersionStays, [Next]_vars PROVE ReviewedVersionStays'
    <2>1. CASE UNCHANGED <<versions, reviews>>
        BY <1>2, <2>1 DEF ReviewedVersionStays, Live
    <2>2. ASSUME NEW r \in Requests, Commit(r) PROVE ReviewedVersionStays'
        <3>1. ReferencesHold(versions', reviews')
            BY <2>2 DEF Commit
        <3>2. \A j \in DOMAIN reviews : reviews'[j].version = reviews[j].version
            BY <1>2, <2>2, CommitRows DEF SameReview
        <3>3. \A j \in DOMAIN reviews : reviews[j].version \in 0 .. Len(versions)
            BY <1>2 DEF ReviewedVersionStays, Live, WorkInv, TypeOK
        <3>4. \A j \in DOMAIN reviews' : reviews'[j].version \in 0 .. Len(versions)
            BY <1>2, <2>2, <3>2, <3>3, CommitRows
        <3>5. 1 .. Len(versions) \subseteq DOMAIN versions'
            BY <1>2, <2>2, CommitRows DEF WorkInv, TypeOK
        <3> QED BY <3>1, <3>4, <3>5 DEF ReferencesHold, ReviewedVersionStays, Live
    <2> QED BY <1>2, <2>1, <2>2, OnlyCommitsWrite
<1> QED BY <1>1, <1>2, WorkAlways, PTL DEF Spec

\* However many decisions overlap, the approval that takes effect finds its review
\* pending: no other request writes "approved", and the approval's own write is
\* conditional.
THEOREM ApprovalsTakePending == Spec => ApprovalTakesPending
<1>1. ASSUME WorkInv, [Next]_vars
      PROVE  \A i \in DOMAIN reviews :
               reviews'[i].status = "approved" =>
                 reviews[i].status \in {"pending", "approved"}
    BY <1>1, OnlyCommitsWrite, CommitRows
<1> QED BY <1>1, WorkAlways, PTL DEF Spec, ApprovalTakesPending

=============================================================================
