--------------------------- MODULE ReviewWorkflow ---------------------------
(***************************************************************************)
(* The life of one document: drafts, review, approval, publication, its    *)
(* audience, archive and restore.                                          *)
(*   backend/app/api/management/reviews.py                                 *)
(*   backend/app/application/commands/review_commands.py                   *)
(*   backend/app/services/version*_service.py, document_service.py         *)
(*   backend/app/domain/aggregates, states, specifications                 *)
(*                                                                         *)
(* A request reads the committed rows, checks its guards, and computes the *)
(* rows it wants; the commit writes the attributes that differ from what   *)
(* was read, by primary key and whatever the rows hold by then.  That is   *)
(* what the ORM session does: there is no version_id_col, and the If-Match *)
(* token is compared with what was read.  Only the approval is conditional.*)
(***************************************************************************)
EXTENDS Naturals, Sequences, FiniteSets

CONSTANTS
    Companies,      \* companies a document can be assigned to
    Requests,       \* transactions that may overlap
    Operations,     \* the operations that requests may run
    EnforceAudience,\* company audience enforcement is on for the tenant
    CreatedAs,      \* statuses that creation requests ask for
    None,           \* no audience snapshot, no writes
    MaxVersions,    \* bound: rows of versions
    MaxReviews,     \* bound: rows of review_requests
    MaxEdits,       \* bound: edits of one version
    MaxAudience     \* bound: value of audience_version

ASSUME EnforcementAssumption == EnforceAudience \in BOOLEAN
ASSUME BoundsAssumption ==
    /\ MaxVersions \in Nat \ {0}
    /\ MaxReviews \in Nat
    /\ MaxEdits \in Nat
    /\ MaxAudience \in Nat \ {0}

VARIABLES
    doc,        \* the documents row
    companies,  \* its rows in document_company_assignments
    active,     \* companies whose tenant is active
    versions,   \* its rows in versions, in the order of their ids
    reviews,    \* its rows in review_requests, in the order of their ids
    requests    \* what each request in flight has read or will write

vars == <<doc, companies, active, versions, reviews, requests>>
stored == <<doc, companies, active, versions, reviews>>

Statuses == {"draft", "pending_review", "approved", "active", "archived"}
Outcomes == {"approved", "rejected", "cancelled"}
Visibilities == {"internal", "company"}

ASSUME CreationAssumption == CreatedAs \subseteq Statuses /\ CreatedAs # {}

Document == [status          : Statuses,
             visibility      : Visibilities,
             audienceVersion : 1 .. MaxAudience]

Audience == [visibility : Visibilities, companies : SUBSET Companies]

\* live: the row exists; content: how often it was edited.
Version == [live      : BOOLEAN,
            number    : 1 .. MaxVersions,
            published : BOOLEAN,
            content   : 0 .. MaxEdits,
            scheduled : BOOLEAN,
            audience  : Audience \cup {None}]

\* version 0: the review is of the document alone.  content: the edits of the
\* version when it was submitted, which the code does not record.
Review == [status          : Outcomes \cup {"pending"},
           version         : 0 .. MaxVersions,
           audience        : Audience,
           audienceVersion : 1 .. MaxAudience,
           content         : 0 .. MaxEdits]

Idle == [op |-> "none", review |-> 0, writes |-> None]

NewVersion(number) ==
    [live |-> TRUE, number |-> number, published |-> FALSE, content |-> 0,
     scheduled |-> FALSE, audience |-> None]

\* create_document takes the status from the request, a consistent audience, and
\* adds version 1.
CreatedByRequest ==
    /\ \E status \in CreatedAs, visibility \in Visibilities, cs \in SUBSET Companies :
         /\ visibility = "company" <=> cs # {}
         /\ doc = [status |-> status, visibility |-> visibility, audienceVersion |-> 1]
         /\ companies = cs
    /\ versions = <<NewVersion(1)>>

\* The assistant's create_document tool: no companies and no version.
CreatedByAssistant ==
    /\ \E visibility \in Visibilities :
         doc = [status |-> "draft", visibility |-> visibility, audienceVersion |-> 1]
    /\ companies = {}
    /\ versions = <<>>

Init ==
    /\ CreatedByRequest \/ CreatedByAssistant
    /\ active = Companies
    /\ reviews = <<>>
    /\ requests = [r \in Requests |-> Idle]

-----------------------------------------------------------------------------
(* A unit of work: dirty attributes of what was read, then a blind flush.  *)

\* The rows a request has loaded, to be changed with EXCEPT.
Session == [doc |-> doc, companies |-> companies,
            versions |-> versions, reviews |-> reviews]

Changed(old, new) == [a \in {b \in DOMAIN old : new[b] # old[b]} |-> new[a]]
Over(row, dirty) ==
    [a \in DOMAIN row |-> IF a \in DOMAIN dirty THEN dirty[a] ELSE row[a]]

ChangedRows(old, new) == [i \in DOMAIN old |-> Changed(old[i], new[i])]
OverRows(rows, dirty) ==
    [i \in DOMAIN rows |-> IF i \in DOMAIN dirty THEN Over(rows[i], dirty[i]) ELSE rows[i]]
Inserted(old, new) == SubSeq(new, Len(old) + 1, Len(new))

Writes(s) ==
    [doc         |-> Changed(doc, s.doc),
     assign      |-> s.companies \ companies,
     unassign    |-> companies \ s.companies,
     versions    |-> ChangedRows(versions, s.versions),
     newVersions |-> Inserted(versions, s.versions),
     reviews     |-> ChangedRows(reviews, s.reviews),
     newReviews  |-> Inserted(reviews, s.reviews)]

Free(r, op) == requests[r] = Idle /\ op \in Operations

Begin(r, op, s) ==
    /\ Free(r, op)
    /\ requests' = [requests EXCEPT ![r] = [op |-> op, review |-> 0, writes |-> Writes(s)]]
    /\ UNCHANGED stored

Ready(r) == requests[r].writes # None

\* An UPDATE of a deleted version matches no row; deleting it twice is let pass.
RowsMatch(w) ==
    /\ \A v \in DOMAIN w.versions :
         versions[v].live \/ DOMAIN w.versions[v] \subseteq {"live"}
    /\ w.unassign \subseteq companies
    /\ w.assign \cap companies = {}

\* Mutant: SQLite without PRAGMA foreign_keys.
ReferencesIgnored(vs, rs) == TRUE

\* The foreign key review_requests.version_id.
ReferencesHold(vs, rs) ==
    \A i \in DOMAIN rs : rs[i].version # 0 => vs[rs[i].version].live

\* Mutant: the approval is written like any other attribute.
ApprovalBlind(r) == TRUE

\* UPDATE ... WHERE status = 'pending' of the approval.
ApprovalHolds(r) ==
    requests[r].op = "approve" => reviews[requests[r].review].status = "pending"

Commit(r) ==
    /\ Ready(r)
    /\ LET w == requests[r].writes
           vs == OverRows(versions, w.versions) \o w.newVersions
           rs == OverRows(reviews, w.reviews) \o w.newReviews
       IN /\ RowsMatch(w)
          /\ ReferencesHold(vs, rs)
          /\ ApprovalHolds(r)
          /\ Len(vs) <= MaxVersions /\ Len(rs) <= MaxReviews
          /\ doc' = Over(doc, w.doc)
          /\ companies' = (companies \ w.unassign) \cup w.assign
          /\ versions' = vs
          /\ reviews' = rs
    /\ requests' = [requests EXCEPT ![r] = Idle]
    /\ UNCHANGED active

\* A guard of a later step, a conflict at the commit, or a failure of its own.
Rollback(r) ==
    /\ requests[r] # Idle
    /\ requests' = [requests EXCEPT ![r] = Idle]
    /\ UNCHANGED stored

-----------------------------------------------------------------------------
(* Stages, aggregates and specifications of the domain layer.              *)

Targets == [draft          |-> {"pending_review", "archived"},
            pending_review |-> {"approved", "draft", "archived"},
            approved       |-> {"active", "archived"},
            active         |-> {"draft", "archived"},
            archived       |-> {"draft", "active"}]

CanTransition(from, to) == from = to \/ to \in Targets[from]

Live == {v \in DOMAIN versions : versions[v].live}
Unpublished == {v \in Live : ~versions[v].published}
HasPublished == Live # Unpublished

\* Ordered by version_number; the database picks among equal numbers.
Latest(vs) == {v \in vs : \A u \in vs : versions[u].number <= versions[v].number}

\* Mutant: the first number is zero.
NumberFromZero ==
    IF Live = {} THEN 0 ELSE versions[CHOOSE v \in Latest(Live) : TRUE].number + 1

NextNumber == IF Live = {} THEN 1 ELSE versions[CHOOSE v \in Latest(Live) : TRUE].number + 1

Pending == {i \in DOMAIN reviews : reviews[i].status = "pending"}

\* The status of the latest review of a version.
ReviewStatus(v) ==
    LET of == {i \in DOMAIN reviews : reviews[i].version = v}
    IN IF of = {} THEN "none" ELSE reviews[CHOOSE i \in of : \A j \in of : j <= i].status

CurrentAudience == [visibility |-> doc.visibility, companies |-> companies]

\* Mutant: assignments without company visibility are let pass.
AudienceLenient == doc.visibility = "company" => companies # {}

AudienceReady == doc.visibility = "company" <=> companies # {}

\* A review step keeps an active document active, makes a document with a
\* published version active, and moves any other to the target.
StaysPublic == doc.status = "active" \/ HasPublished

\* Mutant: only the current status counts.
SettledByStatus(target) == IF doc.status = "active" THEN "active" ELSE target

Settled(target) == IF StaysPublic THEN "active" ELSE target
CanSettle(target) == StaysPublic \/ CanTransition(doc.status, target)

-----------------------------------------------------------------------------
(* Reviews.                                                                *)

\* Mutant: another pending review is no obstacle.
SubmittableAgain == doc.status # "archived" /\ AudienceReady

Submittable == doc.status # "archived" /\ AudienceReady /\ Pending = {}

\* An explicit unpublished version, or the latest one, or none at all.
Submit(r) ==
    /\ Submittable
    /\ Len(reviews) < MaxReviews
    /\ \E v \in IF Unpublished = {} THEN {0} ELSE Unpublished :
         /\ doc.status = "active" => v # 0
         /\ Begin(r, "submit",
              [Session EXCEPT
                 !.doc.status = Settled("pending_review"),
                 !.reviews = Append(@,
                    [status |-> "pending", version |-> v,
                     audience |-> CurrentAudience,
                     audienceVersion |-> doc.audienceVersion,
                     content |-> IF v = 0 THEN 0 ELSE versions[v].content])])

\* ApproveReviewCommandHandler._validate
ValidateApproval(r, i) ==
    /\ Free(r, "approve")
    /\ reviews[i].status = "pending"
    /\ reviews[i].version # 0 => reviews[i].version \in Latest(Live) \cap Unpublished
    /\ requests' = [requests EXCEPT ![r] = [Idle EXCEPT !.op = "approve", !.review = i]]
    /\ UNCHANGED stored

\* ApproveReviewCommandHandler._execute_command reads the review again.
Approve(r) ==
    LET i == requests[r].review
    IN /\ requests[r].op = "approve"
       /\ ~Ready(r)
       /\ AudienceReady
       /\ doc.audienceVersion = reviews[i].audienceVersion
       /\ CanSettle("approved")
       /\ requests' = [requests EXCEPT ![r].writes =
                         Writes([Session EXCEPT !.doc.status = Settled("approved"),
                                                !.reviews[i].status = "approved"])]
       /\ UNCHANGED stored

\* Mutant: the other reviews are cancelled in whatever status.
ClosedWithAll(i, outcome) ==
    [j \in DOMAIN reviews |->
       [reviews[j] EXCEPT !.status = IF j = i THEN outcome ELSE "cancelled"]]

\* The review gets the outcome; any other pending one is cancelled.
Closed(i, outcome) ==
    [j \in DOMAIN reviews |->
       CASE j = i       -> [reviews[j] EXCEPT !.status = outcome]
         [] j \in Pending \ {i} -> [reviews[j] EXCEPT !.status = "cancelled"]
         [] OTHER       -> reviews[j]]

Revert(r, op, i, outcome) ==
    /\ reviews[i].status = "pending"
    /\ CanSettle("draft")
    /\ Begin(r, op, [Session EXCEPT !.doc.status = Settled("draft"),
                                    !.reviews = Closed(i, outcome)])

Reject(r, i) == Revert(r, "reject", i, "rejected")
Cancel(r, i) == Revert(r, "cancel", i, "cancelled")

\* The assistant's tool rejects the review and nothing else.
AssistantReject(r, i) ==
    /\ reviews[i].status = "pending"
    /\ Begin(r, "assistant_reject", [Session EXCEPT !.reviews[i].status = "rejected"])

-----------------------------------------------------------------------------
(* Versions.                                                               *)

\* A published version makes the document active, archived or not; otherwise
\* every status but active becomes draft.
CandidateStatus ==
    IF HasPublished \/ doc.status = "active" THEN "active" ELSE "draft"

CreateVersion(r) ==
    /\ Pending = {}
    /\ Len(versions) < MaxVersions
    /\ Begin(r, "create_version",
         [Session EXCEPT !.doc.status = CandidateStatus,
                         !.versions = Append(@, NewVersion(NextNumber))])

\* The converted file is the next version, whatever is pending, and that of an
\* active document goes out at once.
UploadAttachment(r) ==
    /\ Len(versions) < MaxVersions
    /\ LET out == doc.status = "active"
       IN Begin(r, "upload_attachment",
            [Session EXCEPT
               !.versions = Append(@,
                  [NewVersion(NextNumber) EXCEPT
                     !.published = out,
                     !.audience = IF out THEN CurrentAudience ELSE None])])

\* Mutant: a version under review can be edited.
MutableUntilApproved(v) == ReviewStatus(v) # "approved"

Mutable(v) == ReviewStatus(v) \notin {"pending", "approved"}

UpdateVersion(r, v) ==
    /\ v \in Unpublished
    /\ Mutable(v)
    /\ versions[v].content < MaxEdits
    /\ Begin(r, "update_version", [Session EXCEPT !.versions[v].content = @ + 1])

\* Mutant: no look at is_published.
DeleteAnyVersion(r, v) ==
    /\ v \in Live
    /\ Begin(r, "delete_version", [Session EXCEPT !.versions[v].live = FALSE])

DeleteVersion(r, v) ==
    /\ v \in Unpublished
    /\ Begin(r, "delete_version", [Session EXCEPT !.versions[v].live = FALSE])

\* What publishing writes: an audience snapshot and an active document.
Release(r, op, v, scheduled) ==
    /\ CanTransition(doc.status, "active")
    /\ Begin(r, op, [Session EXCEPT !.doc.status = "active",
                                    !.versions[v].published = TRUE,
                                    !.versions[v].scheduled = scheduled,
                                    !.versions[v].audience = CurrentAudience])

\* Mutant: a pending review will do.
PublishableOnceSubmitted(v) == ReviewStatus(v) \in {"pending", "approved"}

Publishable(v) == ReviewStatus(v) = "approved"

\* A companies list with an inactive company blocks, whatever the visibility.
Publish(r, v) ==
    /\ v \in Unpublished
    /\ Publishable(v)
    /\ EnforceAudience => companies \subseteq active /\ AudienceReady
    /\ Release(r, "publish", v, versions[v].scheduled)

ForcePublish(r, v) ==
    /\ v \in Unpublished
    /\ Release(r, "force_publish", v, versions[v].scheduled)

SchedulePublish(r, v) ==
    /\ v \in Unpublished
    /\ AudienceReady
    /\ Publishable(v)
    /\ Begin(r, "schedule", [Session EXCEPT !.versions[v].scheduled = TRUE,
                                            !.versions[v].audience = CurrentAudience])

\* Mutant: a version that was published by hand still counts as scheduled.
CancelAnySchedule(r, v) ==
    /\ v \in Live
    /\ versions[v].scheduled
    /\ Begin(r, "unschedule", [Session EXCEPT !.versions[v].scheduled = FALSE,
                                              !.versions[v].audience = None])

CancelScheduledPublish(r, v) ==
    /\ v \in Unpublished
    /\ versions[v].scheduled
    /\ Begin(r, "unschedule", [Session EXCEPT !.versions[v].scheduled = FALSE,
                                              !.versions[v].audience = None])

\* The assistant's tool leaves the audience snapshot.
AssistantUnschedule(r, v) ==
    /\ v \in Unpublished
    /\ versions[v].scheduled
    /\ Begin(r, "assistant_unschedule", [Session EXCEPT !.versions[v].scheduled = FALSE])

\* The scheduler process, for a version whose time has come.
PublishScheduled(r, v) ==
    /\ v \in Unpublished
    /\ versions[v].scheduled
    /\ companies \subseteq active
    /\ AudienceReady
    /\ Publishable(v)
    /\ Release(r, "publish_scheduled", v, FALSE)

\* Any snapshot of a published version, without a new audience_version.
RestoreAudience(r, v) ==
    /\ v \in Live \ Unpublished
    /\ versions[v].audience # None
    /\ Begin(r, "restore_audience",
         [Session EXCEPT !.doc.visibility = versions[v].audience.visibility,
                         !.companies = versions[v].audience.companies])

-----------------------------------------------------------------------------
(* The document and its companies.                                         *)

\* Companies after an update to a visibility and, unless None, a list of ids.
UpdatedCompanies(visibility, ids) ==
    CASE visibility = "company" -> IF ids = None THEN companies ELSE ids
      [] visibility # "company" /\ (ids # None \/ doc.visibility = "company") -> {}
      [] OTHER -> companies

\* A new title or visibility adds a patch version, also while a review is
\* pending; a new audience counts audience_version.
UpdateDocument(r, retitled, visibility, ids) ==
    LET cs == UpdatedCompanies(visibility, ids)
        revisioned == retitled \/ visibility # doc.visibility
        readdressed == visibility # doc.visibility \/ cs # companies
    IN /\ revisioned \/ readdressed
       /\ visibility = "company" /\ (ids # None \/ visibility # doc.visibility) =>
            cs # {} /\ cs \subseteq active
       /\ visibility # "company" => ids \in {None, {}}
       /\ revisioned => Len(versions) < MaxVersions
       /\ readdressed => doc.audienceVersion < MaxAudience
       /\ Begin(r, "update_document",
            [Session EXCEPT
               !.doc.visibility = visibility,
               !.doc.audienceVersion = IF readdressed THEN @ + 1 ELSE @,
               !.companies = cs,
               !.versions = IF revisioned THEN Append(@, NewVersion(NextNumber)) ELSE @])

\* assign_company_set does not look at any visibility but company.
AssignCompanies(r, cs) ==
    /\ cs # companies
    /\ doc.visibility = "company" => cs # {}
    /\ cs \subseteq active
    /\ doc.audienceVersion < MaxAudience
    /\ Begin(r, "assign_companies", [Session EXCEPT !.companies = cs,
                                                    !.doc.audienceVersion = @ + 1])

Archive(r) ==
    /\ doc.status # "archived"
    /\ Begin(r, "archive", [Session EXCEPT !.doc.status = "archived"])

\* Mutant: an approval from before is given back.
RestoredToApproval ==
    IF HasPublished THEN "active"
    ELSE IF \E i \in DOMAIN reviews : reviews[i].status = "approved" THEN "approved"
    ELSE "draft"

RestoredStatus == IF HasPublished THEN "active" ELSE "draft"

\* Inactive companies are dropped, without a new audience_version.
Restore(r) ==
    /\ doc.status = "archived"
    /\ Begin(r, "restore",
         [Session EXCEPT
            !.doc.status = RestoredStatus,
            !.doc.visibility = IF companies \cap active = {} THEN "internal" ELSE @,
            !.companies = @ \cap active])

\* The reconciler process drops assignments of inactive companies, as many as
\* its batch holds.
ReconcileAssignments(r, stale) ==
    /\ stale # {} /\ stale \subseteq companies \ active
    /\ doc.audienceVersion < MaxAudience
    /\ Begin(r, "reconcile_assignments",
         [Session EXCEPT
            !.companies = @ \ stale,
            !.doc.audienceVersion = @ + 1,
            !.doc.visibility = IF companies \subseteq stale THEN "internal" ELSE @])

\* Suspension and reactivation of a tenant.
SuspendCompany(r, c) ==
    /\ Free(r, "suspend_company")
    /\ c \in active
    /\ active' = active \ {c}
    /\ UNCHANGED <<doc, companies, versions, reviews, requests>>

ReactivateCompany(r, c) ==
    /\ Free(r, "reactivate_company")
    /\ c \notin active
    /\ active' = active \cup {c}
    /\ UNCHANGED <<doc, companies, versions, reviews, requests>>

\* A deactivated company also loses its assignments, in one bulk DELETE.
DeactivateCompany(r, c) ==
    /\ Free(r, "deactivate_company")
    /\ active' = active \ {c}
    /\ companies' = companies \ {c}
    /\ UNCHANGED <<doc, versions, reviews, requests>>

-----------------------------------------------------------------------------
ReviewStep(r) ==
    \/ Submit(r)
    \/ \E i \in DOMAIN reviews :
         \/ ValidateApproval(r, i)
         \/ Reject(r, i)
         \/ Cancel(r, i)
         \/ AssistantReject(r, i)
    \/ Approve(r)

VersionStep(r) ==
    \/ CreateVersion(r)
    \/ UploadAttachment(r)
    \/ \E v \in DOMAIN versions :
         \/ UpdateVersion(r, v)
         \/ DeleteVersion(r, v)
         \/ Publish(r, v)
         \/ ForcePublish(r, v)
         \/ SchedulePublish(r, v)
         \/ CancelScheduledPublish(r, v)
         \/ AssistantUnschedule(r, v)
         \/ PublishScheduled(r, v)
         \/ RestoreAudience(r, v)

DocumentStep(r) ==
    \/ \E retitled \in BOOLEAN, visibility \in Visibilities,
          ids \in (SUBSET Companies) \cup {None} :
         UpdateDocument(r, retitled, visibility, ids)
    \/ \E cs \in SUBSET Companies : AssignCompanies(r, cs)
    \/ Archive(r)
    \/ Restore(r)
    \/ \E stale \in SUBSET Companies : ReconcileAssignments(r, stale)

CompanyStep(r) ==
    \E c \in Companies :
      SuspendCompany(r, c) \/ ReactivateCompany(r, c) \/ DeactivateCompany(r, c)

Next ==
    \E r \in Requests :
      \/ ReviewStep(r)
      \/ VersionStep(r)
      \/ DocumentStep(r)
      \/ CompanyStep(r)
      \/ Commit(r)
      \/ Rollback(r)

Spec == Init /\ [][Next]_vars

-----------------------------------------------------------------------------
(* Properties.                                                             *)

\* The shape of the rows and of what requests hold.
TypeOK ==
    /\ doc \in Document
    /\ companies \subseteq Companies
    /\ active \subseteq Companies
    /\ versions \in Seq(Version) /\ Len(versions) <= MaxVersions
    /\ reviews \in Seq(Review) /\ Len(reviews) <= MaxReviews
    /\ \A r \in Requests :
         /\ requests[r].op \in Operations \cup {"none"}
         /\ requests[r].review \in 0 .. Len(reviews)

\* A document never waits for two decisions, through any sequence of
\* submissions, decisions, archiving and restoring.
OnePendingReview == Cardinality(Pending) <= 1

\* The status tells the truth about the reviews: "pending_review" has a
\* pending one to decide, "approved" has the approval as its last word.
StatusFollowsReviews ==
    /\ doc.status = "pending_review" => Pending # {}
    /\ doc.status = "approved" =>
         /\ Pending = {}
         /\ reviews # <<>> /\ reviews[Len(reviews)].status = "approved"

\* Unless archived, a document is public exactly when a version is published,
\* whatever reviews, new versions, deletions and restores went before.
PublicIffPublished ==
    doc.status # "archived" => (doc.status = "active" <=> HasPublished)

\* The outcome of a review is never overwritten.
DecisionIsFinal ==
    [][\A i \in DOMAIN reviews :
         reviews[i].status # "pending" => reviews'[i].status = reviews[i].status]_vars

\* What is approved is the content that was submitted, of the latest version:
\* no edit and no newer version slips in between.
ApprovedAsSubmitted ==
    [][\A i \in DOMAIN reviews :
         /\ reviews[i].status = "pending"
         /\ reviews'[i].status = "approved"
         /\ reviews[i].version # 0
         => /\ versions[reviews[i].version].content = reviews[i].content
            /\ reviews[i].version \in Latest(Live) \cap Unpublished]_vars

\* A version that was there unpublished goes out; an upload adds it published.
Publishes(v) == ~versions[v].published /\ versions'[v].published
Forced == \E r \in Requests : requests[r].op = "force_publish" /\ requests'[r] = Idle

\* Outside of the administrator's override, a version goes out only with an
\* approval of its own, and with the content that was approved.
PublishedAsApproved ==
    [][\A v \in DOMAIN versions :
         Publishes(v) /\ ~Forced =>
           \E i \in DOMAIN reviews :
             /\ reviews[i].version = v
             /\ reviews[i].status = "approved"
             /\ reviews[i].content = versions[v].content]_vars

\* A published version records a consistent audience of active companies,
\* the one the document has at that moment.
PublishedToAudience ==
    [][\A v \in DOMAIN versions :
         Publishes(v) /\ ~Forced =>
           LET audience == versions'[v].audience
           IN /\ audience = CurrentAudience
              /\ audience.visibility = "company" <=> audience.companies # {}
              /\ audience.companies \subseteq active]_vars

\* A published version is frozen: neither its content nor its audience
\* snapshot changes, it is not unpublished and not deleted.
PublishedIsImmutable ==
    [][\A v \in Live \ Unpublished : versions'[v] = versions[v]]_vars

\* Approvals race with approvals, rejections and cancellations: the one that
\* takes effect finds the review still pending.
ApprovalTakesPending ==
    [][\A i \in DOMAIN reviews :
         reviews'[i].status = "approved" => reviews[i].status \in {"pending", "approved"}]_vars

\* Every review leads to its version, also when the version is deleted while
\* the review is being submitted.
ReviewedVersionStays ==
    \A i \in DOMAIN reviews : reviews[i].version \in Live \cup {0}

\* What becomes of a row of versions.
Stage(v) ==
    IF v \notin DOMAIN versions THEN "none"
    ELSE IF ~versions[v].live THEN "deleted"
    ELSE IF versions[v].published THEN "public"
    ELSE "draft"

Promise == INSTANCE Publication WITH
    Versions  <- 1 .. MaxVersions,
    Texts     <- 0 .. MaxEdits,
    Overrides <- "force_publish" \in Operations,
    stage     <- [v \in 1 .. MaxVersions |-> Stage(v)],
    text      <- [v \in 1 .. MaxVersions |->
                    IF v \in DOMAIN versions THEN versions[v].content ELSE 0],
    verdict   <- [v \in 1 .. MaxVersions |-> ReviewStatus(v)],
    online    <- doc.status = "active"

\* The operations keep the promise to authors, reviewers and readers: what is
\* public was approved as it is, and stays.
PublicationIsKept == Promise!Spec

=============================================================================
