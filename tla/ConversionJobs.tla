--------------------------- MODULE ConversionJobs ---------------------------
(***************************************************************************)
(* The durable jobs that turn an uploaded attachment into its reader view  *)
(* and, at publication, into a PDF: two tables, the job and the artifact,  *)
(* written by requests, by worker processes and by an operator.            *)
(*   backend/app/services/conversion_jobs.py                               *)
(*   backend/app/application/process_managers/conversion_workflow.py       *)
(*   backend/app/services/attachment_service/reader_view.py                *)
(*                                                                         *)
(* The job is claimed under a lease that expires; the artifact is claimed  *)
(* by a second conditional update that knows of no lease.  Every other     *)
(* write is blind: it sets the columns that differ from what was read.     *)
(* Retry delays and poll intervals pass while no worker takes a step.      *)
(***************************************************************************)
EXTENDS Naturals, FiniteSets

CONSTANTS
    Attachments,  \* attachments of a convertible type (DOCX, PPTX, PDF)
    Workers,      \* conversion worker processes
    None,         \* no attachment
    MaxAttempts,  \* max_attempts of every job
    MaxResets,    \* bound: openings of a reader view that reset an artifact,
                  \* and operator requeues of dead letters
    MaxFaults     \* bound: crashes, lost requests and database errors

ASSUME AttachmentsAssumption == IsFiniteSet(Attachments) /\ None \notin Attachments
ASSUME MaxAttemptsAssumption == MaxAttempts \in Nat \ {0}
ASSUME BoundsAssumption ==
    MaxResets \in Nat /\ MaxFaults \in Nat

VARIABLES
    stored,     \* where each attachment row stands
    jobs,       \* attachment_conversion_jobs, by job type and attachment
    artifacts,  \* the reader_html rows of attachment_artifacts
    waiting,    \* requests that committed the artifact and not yet the job
    workers,    \* each worker's loop
    overdue,    \* attachments whose reader job is processing past its lease
    disturbed,  \* ghost: attachments reset by a reader or by a forced requeue
    reopened,   \* ghost: attachments whose readable artifact an unforced run
                \* has claimed on an older reading
    resets, faults

vars == <<stored, jobs, artifacts, waiting, workers, overdue, disturbed,
          reopened, resets, faults>>

Types == {"reader_html", "pdf_export"}
JobStatuses == {"absent", "pending", "processing", "completed", "failed"}
ArtifactStatuses == {"absent", "pending", "processing", "ready", "failed"}

Job == [status : JobStatuses, force : BOOLEAN, attempts : 0..MaxAttempts]
Artifact == [status : ArtifactStatuses, text : BOOLEAN]

NoJob == [status |-> "absent", force |-> FALSE, attempts |-> 0]
NoArtifact == [status |-> "absent", text |-> FALSE]

\* turn: the job type of the batch under way; recovered: what the batch has
\* read of overdue jobs and not committed; job: the row read by the run;
\* result: the artifact status that decides the run.
Worker == [pc        : {"idle", "claiming", "claimed", "examining", "opening",
                        "generating", "generated", "settling"},
           turn      : Types,
           recovered : [Attachments -> {"no", "pending", "failed"}],
           att       : Attachments \cup {None},
           job       : Job,
           result    : ArtifactStatuses \cup {"error"}]

Idle(type) == [pc |-> "idle", turn |-> type,
               recovered |-> [a \in Attachments |-> "no"],
               att |-> None, job |-> NoJob, result |-> "absent"]

Init ==
    /\ stored = [a \in Attachments |-> "absent"]
    /\ jobs = [t \in Types |-> [a \in Attachments |-> NoJob]]
    /\ artifacts = [a \in Attachments |-> NoArtifact]
    /\ waiting = [a \in Attachments |-> [f \in BOOLEAN |-> 0]]
    /\ workers = [w \in Workers |-> Idle("reader_html")]
    /\ overdue = {}
    /\ disturbed = {}
    /\ reopened = {}
    /\ resets = 0 /\ faults = 0

Least(m, n) == IF m < n THEN m ELSE n

\* _set_job_pending, after _get_or_create_job: the attempts of an existing
\* row stay, and a forced request stays forced.
Pending(job, force) ==
    [job EXCEPT !.status = "pending", !.force = @ \/ force]

--------------------------------------------------------------------------
(* Requests. *)

\* create_attachment_from_bytes: the attachment, then its artifact row; the
\* job is a third transaction.
Upload(a) ==
    /\ stored[a] = "absent"
    /\ stored' = [stored EXCEPT ![a] = "present"]
    /\ artifacts' = [artifacts EXCEPT ![a].status = "pending"]
    /\ waiting' = [waiting EXCEPT ![a][FALSE] = @ + 1]
    /\ UNCHANGED <<jobs, workers, overdue, disturbed, reopened, resets,
                   faults>>

\* get_reader_view: a forced retry drops the content; without content, a
\* pending or processing artifact is set pending and enqueued again.
View(a, force) ==
    /\ resets < MaxResets
    /\ stored[a] = "present"
    /\ force \/ /\ artifacts[a].status \in {"pending", "processing"}
                /\ ~artifacts[a].text
    /\ artifacts' = [artifacts EXCEPT ![a] =
            [status |-> "pending", text |-> IF force THEN FALSE ELSE @.text]]
    /\ waiting' = [waiting EXCEPT ![a][force] = @ + 1]
    /\ disturbed' = disturbed \cup {a}
    /\ resets' = resets + 1
    /\ UNCHANGED <<stored, jobs, workers, overdue, reopened, faults>>

\* enqueue_conversion, at the end of either request.  The job of a deleted
\* attachment cannot be inserted.
Enqueue(a, force) ==
    /\ waiting[a][force] > 0
    /\ waiting' = [waiting EXCEPT ![a][force] = @ - 1]
    /\ IF stored[a] = "present"
         THEN /\ jobs' = [jobs EXCEPT !["reader_html"][a] = Pending(@, force)]
              /\ overdue' = overdue \ {a}
         ELSE UNCHANGED <<jobs, overdue>>
    /\ UNCHANGED <<stored, artifacts, workers, disturbed, reopened, resets,
                   faults>>

\* The request ends between its two commits.
RequestDies(a, force) ==
    /\ waiting[a][force] > 0
    /\ faults < MaxFaults
    /\ waiting' = [waiting EXCEPT ![a][force] = @ - 1]
    /\ faults' = faults + 1
    /\ UNCHANGED <<stored, jobs, artifacts, workers, overdue, disturbed,
                   reopened, resets>>

\* enqueue_pdf_export, when a version is published with attachments.
EnqueuePdf(a) ==
    /\ stored[a] = "present"
    /\ jobs' = [jobs EXCEPT !["pdf_export"][a] = Pending(@, FALSE)]
    /\ UNCHANGED <<stored, artifacts, waiting, workers, overdue, disturbed,
                   reopened, resets, faults>>

\* delete_attachment: jobs, artifact and attachment in one commit.
Delete(a) ==
    /\ stored[a] = "present"
    /\ stored' = [stored EXCEPT ![a] = "deleted"]
    /\ jobs' = [t \in Types |-> [jobs[t] EXCEPT ![a] = NoJob]]
    /\ artifacts' = [artifacts EXCEPT ![a] = NoArtifact]
    /\ overdue' = overdue \ {a}
    /\ UNCHANGED <<waiting, workers, disturbed, reopened, resets, faults>>

\* What requeue_dead_letter_conversion_job makes of a job.
Requeued(job, force, reset) ==
    [Pending(job, force) EXCEPT !.attempts = IF reset THEN 0 ELSE @]

\* requeue_dead_letter_conversion_job: reader jobs only.
Requeue(a, force, reset) ==
    /\ resets < MaxResets
    /\ jobs["reader_html"][a].status = "failed"
    /\ jobs' = [jobs EXCEPT !["reader_html"][a] = Requeued(@, force, reset)]
    /\ disturbed' = IF force THEN disturbed \cup {a} ELSE disturbed
    /\ resets' = resets + 1
    /\ UNCHANGED <<stored, artifacts, waiting, workers, overdue, reopened,
                   faults>>

--------------------------------------------------------------------------
(* Claiming: recover what is overdue, claim one job, commit. *)

\* Mutant: nothing is recovered.
PollOnly(w) ==
    /\ workers[w].pc = "idle"
    /\ workers' = [workers EXCEPT ![w].pc = "claiming"]
    /\ UNCHANGED <<stored, jobs, artifacts, waiting, overdue, disturbed,
                   reopened, resets, faults>>

\* _recover_stale_processing_jobs: the new statuses stay in the session, and
\* autoflush is off.
Poll(w) ==
    /\ workers[w].pc = "idle"
    /\ LET type == workers[w].turn
           Stale(a) == /\ type = "reader_html" /\ a \in overdue
                       /\ jobs[type][a].status = "processing"
       IN workers' = [workers EXCEPT ![w].pc = "claiming",
            ![w].recovered = [a \in Attachments |->
                IF ~Stale(a) THEN "no"
                ELSE IF jobs[type][a].attempts >= MaxAttempts THEN "failed"
                ELSE "pending"]]
    /\ UNCHANGED <<stored, jobs, artifacts, waiting, overdue, disturbed,
                   reopened, resets, faults>>

\* The commit of the batch's session: the recovered statuses are written over
\* whatever the rows hold by then, a claim made in the same session included.
Flushed(table, recovered) ==
    [a \in Attachments |->
        IF recovered[a] = "no" \/ table[a].status = "absent" THEN table[a]
        ELSE [table[a] EXCEPT !.status = recovered[a]]]

\* _claim_job_by_id compares the job type with its default: the caller of the
\* PDF batch does not pass its own.
ClaimMatches(type) == type = "reader_html"

Claimed(job) ==
    [job EXCEPT !.status = "processing", !.attempts = Least(@ + 1, MaxAttempts)]

\* _claim_next_runnable_job_id finds a pending job and its claim succeeds.
Claim(w, a) ==
    /\ workers[w].pc = "claiming"
    /\ LET type == workers[w].turn
           stale == workers[w].recovered
           table == jobs[type]
       IN /\ table[a].status = "pending"
          /\ ClaimMatches(type)
          /\ jobs' = [jobs EXCEPT ![type] =
                Flushed([table EXCEPT ![a] = Claimed(@)], stale)]
          /\ overdue' = {b \in overdue \ {a} : stale[b] = "no"}
          /\ workers' = [workers EXCEPT ![w] =
                [Idle(type) EXCEPT !.pc = "claimed", !.att = a]]
    /\ UNCHANGED <<stored, artifacts, waiting, disturbed, reopened, resets,
                   faults>>

\* No pending job, or five claims that failed: the batch ends with its
\* recoveries, and the worker turns to the other kind of job.
EndBatch(w) ==
    /\ workers[w].pc = "claiming"
    /\ LET type == workers[w].turn
           stale == workers[w].recovered
       IN /\ ClaimMatches(type) => \A a \in Attachments : jobs[type][a].status # "pending"
          /\ jobs' = [jobs EXCEPT ![type] = Flushed(@, stale)]
          /\ overdue' = {b \in overdue : stale[b] = "no"}
          /\ workers' = [workers EXCEPT ![w] =
                Idle(CHOOSE t \in Types : t # type)]
    /\ UNCHANGED <<stored, artifacts, waiting, disturbed, reopened, resets,
                   faults>>

--------------------------------------------------------------------------
(* One run of a reader job: process_conversion_job(claimed=True). *)

Done(w) == workers' = [workers EXCEPT ![w] = Idle(@.turn)]

\* The job is read again, and left alone unless it is still processing.
Load(w) ==
    /\ workers[w].pc = "claimed"
    /\ LET job == jobs["reader_html"][workers[w].att]
       IN IF job.status # "processing"
            THEN Done(w)
            ELSE workers' = [workers EXCEPT ![w].pc = "examining", ![w].job = job]
    /\ UNCHANGED <<stored, jobs, artifacts, waiting, overdue, disturbed,
                   reopened, resets, faults>>

\* An unforced run has nothing to do for a readable artifact.
UpToDate(artifact, force) == ~force /\ artifact.status = "ready" /\ artifact.text

\* generate_reader_artifact loads the artifact and returns if it is up to date.
Examine(w) ==
    /\ workers[w].pc = "examining"
    /\ LET a == workers[w].att
       IN workers' = [workers EXCEPT ![w].pc =
            IF stored[a] = "present" /\ ~UpToDate(artifacts[a], workers[w].job.force)
              THEN "opening" ELSE "generated"]
    /\ UNCHANGED <<stored, jobs, artifacts, waiting, overdue, disturbed,
                   reopened, resets, faults>>

\* Mutant: the claim does not leave out the artifacts that are being generated.
ArtifactClaimedAgain(artifact, force) == TRUE

\* The WHERE of the claiming UPDATE: whether the artifact has become readable
\* since it was loaded is not asked again.
ArtifactClaimable(artifact, force) == force \/ artifact.status # "processing"

\* The UPDATE and its commit.
Open(w) ==
    /\ workers[w].pc = "opening"
    /\ LET a == workers[w].att
           force == workers[w].job.force
       IN IF stored[a] = "present" /\ ArtifactClaimable(artifacts[a], force)
            THEN /\ artifacts' = [artifacts EXCEPT ![a].status = "processing"]
                 /\ workers' = [workers EXCEPT ![w].pc = "generating"]
                 /\ reopened' = IF UpToDate(artifacts[a], force)
                                  THEN reopened \cup {a} ELSE reopened
            ELSE /\ workers' = [workers EXCEPT ![w].pc = "generated"]
                 /\ UNCHANGED <<artifacts, reopened>>
    /\ UNCHANGED <<stored, jobs, waiting, overdue, disturbed, resets, faults>>

\* The conversion ends with a result or with an error of the converter.
Generate(w, ok) ==
    /\ workers[w].pc = "generating"
    /\ LET a == workers[w].att
       IN artifacts' = IF stored[a] # "present" THEN artifacts
                       ELSE [artifacts EXCEPT ![a] =
                            [status |-> IF ok THEN "ready" ELSE "failed", text |-> ok]]
    /\ workers' = [workers EXCEPT ![w].pc = "generated"]
    /\ UNCHANGED <<stored, jobs, waiting, overdue, disturbed, reopened, resets,
                   faults>>

\* The database fails while the outcome is written: the artifact stays
\* processing, and the workflow schedules a retry of the job.
GenerateErrors(w) ==
    /\ workers[w].pc = "generating"
    /\ faults < MaxFaults
    /\ faults' = faults + 1
    /\ workers' = [workers EXCEPT ![w].pc = "settling", ![w].result = "error"]
    /\ UNCHANGED <<stored, jobs, artifacts, waiting, overdue, disturbed,
                   reopened, resets>>

\* _load_reader_artifact_status.
LoadStatus(w) ==
    /\ workers[w].pc = "generated"
    /\ workers' = [workers EXCEPT ![w].pc = "settling",
                                  ![w].result = artifacts[workers[w].att].status]
    /\ UNCHANGED <<stored, jobs, artifacts, waiting, overdue, disturbed,
                   reopened, resets, faults>>

\* _schedule_retry_or_fail, and the retry decision of the except branch.
RetryOrFail(attempts) == IF attempts >= MaxAttempts THEN "failed" ELSE "pending"

\* Mutant: the artifact's status is taken for the job's.
SettledRaw(read, result, now) ==
    [now EXCEPT !.status = IF result = "error" THEN RetryOrFail(read.attempts) ELSE result]

\* Mutant: whatever is not a failure counts as a success.
SettledUnready(read, result, now) ==
    [now EXCEPT
        !.status = IF result \in {"failed", "error"} THEN RetryOrFail(read.attempts)
                   ELSE "completed",
        !.force = @ /\ ~(result = "ready" /\ read.force)]

\* Mutant: a success clears the flag that a later request has set.
SettledUnforced(read, result, now) ==
    [now EXCEPT
        !.status = CASE result = "ready" -> "completed"
                     [] result \in {"failed", "error"} -> RetryOrFail(read.attempts)
                     [] OTHER -> "pending",
        !.force = @ /\ result # "ready"]

\* PreviewConversionProcessManager.execute decides on the row as it was read;
\* the commit writes the status over whatever the row holds, and clears force
\* only if it was read as set.
Settled(read, result, now) ==
    [now EXCEPT
        !.status = CASE result = "ready" -> "completed"
                     [] result \in {"failed", "error"} -> RetryOrFail(read.attempts)
                     [] OTHER -> "pending",
        !.force = @ /\ ~(result = "ready" /\ read.force)]

Settle(w) ==
    /\ workers[w].pc = "settling"
    /\ LET a == workers[w].att
           now == jobs["reader_html"][a]
       IN /\ jobs' = IF now.status = "absent" THEN jobs
                     ELSE [jobs EXCEPT !["reader_html"][a] =
                            Settled(workers[w].job, workers[w].result, now)]
          /\ overdue' = overdue \ {a}
    /\ Done(w)
    /\ UNCHANGED <<stored, artifacts, waiting, disturbed, reopened, resets,
                   faults>>

\* The commit fails: the except branch reads the row again.
SettleFails(w) ==
    /\ workers[w].pc \in {"generated", "settling"}
    /\ faults < MaxFaults
    /\ faults' = faults + 1
    /\ LET a == workers[w].att
           now == jobs["reader_html"][a]
       IN IF now.status = "processing"
            THEN /\ jobs' = [jobs EXCEPT !["reader_html"][a].status =
                                RetryOrFail(now.attempts)]
                 /\ overdue' = overdue \ {a}
            ELSE UNCHANGED <<jobs, overdue>>
    /\ Done(w)
    /\ UNCHANGED <<stored, artifacts, waiting, disturbed, reopened, resets>>

--------------------------------------------------------------------------
(* Time and crashes. *)

\* PROCESSING_TIMEOUT_SECONDS pass since started_at, whoever is still running.
LeaseExpires(a) ==
    /\ jobs["reader_html"][a].status = "processing"
    /\ a \notin overdue
    /\ overdue' = overdue \cup {a}
    /\ UNCHANGED <<stored, jobs, artifacts, waiting, workers, disturbed,
                   reopened, resets, faults>>

\* A worker process dies and starts over.
Crash(w) ==
    /\ workers[w].pc # "idle"
    /\ faults < MaxFaults
    /\ faults' = faults + 1
    /\ workers' = [workers EXCEPT ![w] = Idle("reader_html")]
    /\ UNCHANGED <<stored, jobs, artifacts, waiting, overdue, disturbed,
                   reopened, resets>>

--------------------------------------------------------------------------

Run(w) == \/ Load(w) \/ Examine(w) \/ Open(w) \/ LoadStatus(w) \/ Settle(w)
          \/ \E ok \in BOOLEAN : Generate(w, ok)

Next ==
    \/ \E a \in Attachments :
        \/ Upload(a) \/ EnqueuePdf(a) \/ Delete(a) \/ LeaseExpires(a)
        \/ \E f \in BOOLEAN : View(a, f) \/ Enqueue(a, f) \/ RequestDies(a, f)
        \/ \E f, r \in BOOLEAN : Requeue(a, f, r)
    \/ \E w \in Workers :
        \/ Poll(w) \/ EndBatch(w) \/ Run(w)
        \/ \E a \in Attachments : Claim(w, a)
        \/ GenerateErrors(w) \/ SettleFails(w) \/ Crash(w)

Spec == Init /\ [][Next]_vars

\* Workers keep polling, a run goes on, time passes, and a job that is pending
\* again and again is claimed: the oldest one that is due comes first, and a
\* retry is not due at once.  A run reads the status in the statement after the
\* conversion it has finished: of all the times it could read a result before
\* another worker opens the artifact again, it does so in some.
Fairness ==
    /\ \A w \in Workers :
        /\ WF_vars(Poll(w) \/ EndBatch(w) \/ Run(w))
        /\ SF_vars(LoadStatus(w) /\ workers'[w].result # "processing")
    /\ \A a \in Attachments :
        /\ SF_vars(\E w \in Workers : Claim(w, a))
        /\ WF_vars(LeaseExpires(a))
        /\ WF_vars(\E f \in BOOLEAN : Enqueue(a, f))

FairSpec == Spec /\ Fairness

--------------------------------------------------------------------------
(* Properties. *)

\* Every variable keeps to the columns and statuses the code writes.
TypeOK ==
    /\ stored \in [Attachments -> {"absent", "present", "deleted"}]
    /\ jobs \in [Types -> [Attachments -> Job]]
    /\ artifacts \in [Attachments -> Artifact]
    /\ waiting \in [Attachments -> [BOOLEAN -> Nat]]
    /\ workers \in [Workers -> Worker]
    /\ overdue \subseteq Attachments
    /\ disturbed \subseteq Attachments
    /\ reopened \subseteq Attachments
    /\ resets \in Nat /\ faults \in Nat

Generating(a) == {w \in Workers : workers[w].pc = "generating" /\ workers[w].att = a}

\* A lease that runs out under a slow conversion does not start a second one:
\* as long as no reader has reset the artifact and no operator has forced a
\* run, the artifact's own claim keeps one conversion per attachment, whatever
\* expires, crashes or is recovered.
LeaseNeverDuplicates ==
    \A a \in Attachments \ disturbed : \A v, w \in Generating(a) : v = w

\* A job that reads completed has a readable artifact, although the job and
\* the artifact are settled by separate transactions of workers whose lease
\* may be long gone: until someone resets the artifact by hand, or a run that
\* loaded it before it was ready claims it after it is.  That claim the code
\* does not refuse, and its conversion may fail.
CompletedMeansReadable ==
    \A a \in Attachments \ (disturbed \cup reopened) :
        jobs["reader_html"][a].status = "completed" =>
            artifacts[a].status = "ready" /\ artifacts[a].text

\* Only a run that was itself forced, and has seen its artifact ready, clears
\* the force flag of a job that survives the step: no unforced run, recovery,
\* claim, requeue or failure does.  That the forced run happens is not said:
\* an older run may write completed over the forced job and leave the flag.
OnlyForcedRunsClearForce ==
    [][\A a \in Attachments :
        /\ jobs["reader_html"][a].force
        /\ jobs'["reader_html"][a].status # "absent"
        /\ ~jobs'["reader_html"][a].force
        => \E w \in Workers : /\ workers[w].pc = "settling" /\ workers'[w].pc = "idle"
                              /\ workers[w].att = a /\ workers[w].job.force
                              /\ workers[w].result = "ready"]_vars

\* The artifact says processing and nobody is converting.
Orphaned(a) == artifacts[a].status = "processing" /\ Generating(a) = {}

\* Every reader job that is pending or processing ends completed or in the
\* dead letters, or with its attachment, although leases expire under running
\* conversions and late results undo newer ones.  The exception is an artifact
\* that a fault left processing, which no unforced run may claim again.
JobsSettle ==
    \A a \in Attachments :
        jobs["reader_html"][a].status \in {"pending", "processing"} ~>
            \/ jobs["reader_html"][a].status \in {"completed", "failed", "absent"}
            \/ Orphaned(a)

\* What the docstrings of enqueue_pdf_export and its worker batch promise:
\* a durable PDF job is processed, to success or to the dead letters.
PdfJobsSettle ==
    \A a \in Attachments :
        jobs["pdf_export"][a].status = "pending" ~>
            jobs["pdf_export"][a].status \in {"completed", "failed", "absent"}

=============================================================================
