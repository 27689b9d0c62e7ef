------------------------ MODULE ConversionJobsProofs ------------------------
(***************************************************************************)
(* Theorems about ConversionJobs for every set of attachments and workers  *)
(* and every bound.                                                        *)
(***************************************************************************)
EXTENDS ConversionJobs, TLAPS

-----------------------------------------------------------------------------
(* Types. *)

LEMMA PendingType ==
    ASSUME NEW job \in Job, NEW force \in BOOLEAN
    PROVE  /\ Pending(job, force) \in Job
           /\ Pending(job, force).status = "pending"
           /\ Pending(job, force).force = (job.force \/ force)
    BY DEF Pending, Job, JobStatuses

LEMMA RequeuedType ==
    ASSUME NEW job \in Job, NEW force \in BOOLEAN, NEW reset \in BOOLEAN
    PROVE  /\ Requeued(job, force, reset) \in Job
           /\ Requeued(job, force, reset).status = "pending"
           /\ Requeued(job, force, reset).force = (job.force \/ force)
<1> DEFINE pending == Pending(job, force)
           n == IF reset THEN 0 ELSE pending.attempts
<1>1. /\ pending \in Job /\ pending.status = "pending"
      /\ pending.force = (job.force \/ force)
    BY PendingType
<1>2. Requeued(job, force, reset) = [pending EXCEPT !.attempts = n]
    BY DEF Requeued
<1> HIDE DEF pending
<1>3. n \in 0..MaxAttempts
    BY <1>1, MaxAttemptsAssumption DEF Job
<1> HIDE DEF n
<1>4. /\ [pending EXCEPT !.attempts = n] \in Job
      /\ [pending EXCEPT !.attempts = n].status = pending.status
      /\ [pending EXCEPT !.attempts = n].force = pending.force
    BY <1>1, <1>3 DEF Job
<1> QED BY <1>1, <1>2, <1>4, Zenon

LEMMA ClaimedType ==
    ASSUME NEW job \in Job
    PROVE  /\ Claimed(job) \in Job
           /\ Claimed(job).status = "processing"
           /\ Claimed(job).force = job.force
<1>1. Least(job.attempts + 1, MaxAttempts) \in 0..MaxAttempts
    BY MaxAttemptsAssumption DEF Job, Least
<1> QED BY <1>1 DEF Claimed, Job, JobStatuses

LEMMA FlushedType ==
    ASSUME NEW table \in [Attachments -> Job],
           NEW recovered \in [Attachments -> {"no", "pending", "failed"}]
    PROVE  /\ Flushed(table, recovered) \in [Attachments -> Job]
           /\ \A a \in Attachments :
                /\ Flushed(table, recovered)[a].force = table[a].force
                /\ \/ Flushed(table, recovered)[a].status = table[a].status
                   \/ /\ Flushed(table, recovered)[a].status \in {"pending", "failed"}
                      /\ table[a].status # "absent"
<1>1. \A a \in Attachments :
        [table[a] EXCEPT !.status = recovered[a]] \in [status : {"no"} \cup JobStatuses, force : BOOLEAN, attempts : 0..MaxAttempts]
    BY DEF Job, JobStatuses
<1>2. \A a \in Attachments : recovered[a] # "no" =>
        /\ [table[a] EXCEPT !.status = recovered[a]] \in Job
        /\ [table[a] EXCEPT !.status = recovered[a]].status \in {"pending", "failed"}
        /\ [table[a] EXCEPT !.status = recovered[a]].force = table[a].force
    BY DEF Job, JobStatuses
<1> QED BY <1>2 DEF Flushed

LEMMA SettledType ==
    ASSUME NEW read \in Job, NEW now \in Job, NEW result \in ArtifactStatuses \cup {"error"}
    PROVE  /\ Settled(read, result, now) \in Job
           /\ Settled(read, result, now).status = "completed" => result = "ready"
           /\ Settled(read, result, now).force => now.force
           /\ now.force /\ ~Settled(read, result, now).force
                => read.force /\ result = "ready"
<1> DEFINE s == CASE result = "ready" -> "completed"
                  [] result \in {"failed", "error"} -> RetryOrFail(read.attempts)
                  [] OTHER -> "pending"
<1>1. s \in JobStatuses /\ (s = "completed" => result = "ready")
    BY DEF RetryOrFail, JobStatuses
<1>2. Settled(read, result, now) =
        [now EXCEPT !.status = s, !.force = @ /\ ~(result = "ready" /\ read.force)]
    BY DEF Settled
<1> HIDE DEF s
<1>3. /\ Settled(read, result, now).status = s
      /\ Settled(read, result, now).force = (now.force /\ ~(result = "ready" /\ read.force))
      /\ Settled(read, result, now) \in Job
    BY <1>1, <1>2 DEF Job
<1> QED BY <1>1, <1>3 DEF Job

LEMMA IdleType ==
    ASSUME NEW type \in Types
    PROVE  /\ Idle(type) \in Worker
           /\ Idle(type).pc = "idle" /\ Idle(type).job = NoJob
           /\ Idle(type).att = None
    BY MaxAttemptsAssumption DEF Idle, Worker, Job, NoJob, JobStatuses, ArtifactStatuses

Phases == {"idle", "claiming", "claimed", "examining", "opening", "generating",
           "generated", "settling"}

LEMMA WorkerType ==
    ASSUME NEW x \in Worker, NEW pc \in Phases
    PROVE  /\ [x EXCEPT !.pc = pc] \in Worker
           /\ \A r \in [Attachments -> {"no", "pending", "failed"}] :
                [x EXCEPT !.pc = pc, !.recovered = r] \in Worker
           /\ \A a \in Attachments \cup {None} : [x EXCEPT !.pc = pc, !.att = a] \in Worker
           /\ \A job \in Job : [x EXCEPT !.pc = pc, !.job = job] \in Worker
           /\ \A result \in ArtifactStatuses \cup {"error"} :
                [x EXCEPT !.pc = pc, !.result = result] \in Worker
<1> DEFINE R == [Attachments -> {"no", "pending", "failed"}]
           A == Attachments \cup {None}
           S == ArtifactStatuses \cup {"error"}
<1>1. Worker = [pc : Phases, turn : Types, recovered : R, att : A, job : Job, result : S]
    BY DEF Worker, Phases
<1> HIDE DEF R, A, S
<1>2. /\ x.pc \in Phases /\ x.turn \in Types /\ x.recovered \in R /\ x.att \in A
      /\ x.job \in Job /\ x.result \in S
    BY <1>1
<1>3. [x EXCEPT !.pc = pc] \in Worker
    BY <1>1, <1>2
<1>4. \A r \in R : [x EXCEPT !.pc = pc, !.recovered = r] \in Worker
    BY <1>1, <1>2
<1>5. \A a \in A : [x EXCEPT !.pc = pc, !.att = a] \in Worker
    BY <1>1, <1>2
<1>6. \A job \in Job : [x EXCEPT !.pc = pc, !.job = job] \in Worker
    BY <1>1, <1>2
<1>7. \A result \in S : [x EXCEPT !.pc = pc, !.result = result] \in Worker
    BY <1>1, <1>2
<1> QED BY <1>3, <1>4, <1>5, <1>6, <1>7 DEF R, A, S

LEMMA JobsType ==
    ASSUME jobs \in [Types -> [Attachments -> Job]],
           NEW type \in Types, NEW a \in Attachments, NEW job \in Job
    PROVE  /\ jobs[type][a] \in Job
           /\ [jobs EXCEPT ![type][a] = job] \in [Types -> [Attachments -> Job]]
    OBVIOUS

LEMMA ArtifactType ==
    ASSUME artifacts \in [Attachments -> Artifact], NEW a \in Attachments,
           NEW status \in ArtifactStatuses, NEW text \in BOOLEAN
    PROVE  /\ [artifacts EXCEPT ![a].status = status] \in [Attachments -> Artifact]
           /\ [artifacts EXCEPT ![a] = [status |-> status, text |-> text]]
                \in [Attachments -> Artifact]
<1>1. [artifacts[a] EXCEPT !.status = status] \in Artifact
    BY DEF Artifact
<1> QED BY <1>1 DEF Artifact

LEMMA WaitingType ==
    ASSUME waiting \in [Attachments -> [BOOLEAN -> Nat]], NEW a \in Attachments, NEW f \in BOOLEAN
    PROVE  [waiting EXCEPT ![a][f] = @ + 1] \in [Attachments -> [BOOLEAN -> Nat]]
    OBVIOUS

\* A worker that has taken up a job holds an attachment.
Held == \A w \in Workers :
    workers[w].pc \notin {"idle", "claiming"} => workers[w].att \in Attachments

LEMMA TypeStep == ASSUME TypeOK, Held, [Next]_vars PROVE TypeOK' /\ Held'
<1> USE DEF TypeOK, Held
<1>a. "reader_html" \in Types /\ "pdf_export" \in Types
    BY DEF Types
<1>1. ASSUME NEW a \in Attachments, Upload(a) PROVE TypeOK' /\ Held'
    <2>1. artifacts' \in [Attachments -> Artifact]
        <3>1. [artifacts EXCEPT ![a].status = "pending"] \in [Attachments -> Artifact]
            BY ArtifactType DEF ArtifactStatuses
        <3> QED BY ONLY <1>1, <3>1, Zenon DEF Upload
    <2>2. waiting' \in [Attachments -> [BOOLEAN -> Nat]]
        <3>1. FALSE \in BOOLEAN
            OBVIOUS
        <3>2. [waiting EXCEPT ![a][FALSE] = @ + 1] \in [Attachments -> [BOOLEAN -> Nat]]
            BY <3>1, WaitingType
        <3> QED BY <1>1, <3>2, Zenon DEF Upload
    <2>3. stored' \in [Attachments -> {"absent", "present", "deleted"}]
        BY <1>1 DEF Upload
    <2> QED BY <1>1, <2>1, <2>2, <2>3 DEF Upload
<1>2. ASSUME NEW a \in Attachments, NEW f \in BOOLEAN, View(a, f) PROVE TypeOK' /\ Held'
    <2>1. artifacts' \in [Attachments -> Artifact]
        <3>1. [status |-> "pending", text |-> IF f THEN FALSE ELSE artifacts[a].text] \in Artifact
            BY DEF Artifact, ArtifactStatuses
        <3> QED BY <1>2, <3>1 DEF View
    <2> QED BY <1>2, <2>1 DEF View
<1>3. ASSUME NEW a \in Attachments, NEW f \in BOOLEAN, Enqueue(a, f) PROVE TypeOK' /\ Held'
    <2>1. jobs' \in [Types -> [Attachments -> Job]]
        <3>1. jobs["reader_html"][a] \in Job
            BY <1>a
        <3>2. Pending(jobs["reader_html"][a], f) \in Job
            BY ONLY <3>1, f \in BOOLEAN, PendingType
        <3>3. [jobs EXCEPT !["reader_html"][a] = Pending(jobs["reader_html"][a], f)]
                \in [Types -> [Attachments -> Job]]
            BY <1>a, <3>2, JobsType
        <3> QED BY <1>3, <3>3, Zenon DEF Enqueue
    <2>2. waiting' \in [Attachments -> [BOOLEAN -> Nat]]
        BY <1>3 DEF Enqueue
    <2> QED BY <1>3, <2>1, <2>2 DEF Enqueue
<1>4. ASSUME NEW a \in Attachments, NEW f \in BOOLEAN, RequestDies(a, f) PROVE TypeOK' /\ Held'
    BY <1>4 DEF RequestDies
<1>5. ASSUME NEW a \in Attachments, EnqueuePdf(a) PROVE TypeOK' /\ Held'
    <2>1. jobs' \in [Types -> [Attachments -> Job]]
        <3>1. jobs["pdf_export"][a] \in Job
            BY <1>a
        <3>2. Pending(jobs["pdf_export"][a], FALSE) \in Job
            BY ONLY <3>1, FALSE \in BOOLEAN, PendingType
        <3> QED BY <1>5, <1>a, <3>2, JobsType DEF EnqueuePdf
    <2> QED BY <1>5, <2>1 DEF EnqueuePdf
<1>6. ASSUME NEW a \in Attachments, Delete(a) PROVE TypeOK' /\ Held'
    <2>1. NoJob \in Job /\ NoArtifact \in Artifact
        BY MaxAttemptsAssumption DEF NoJob, Job, JobStatuses, NoArtifact, Artifact, ArtifactStatuses
    <2> QED BY <1>6, <2>1 DEF Delete
<1>7. ASSUME NEW a \in Attachments, NEW f \in BOOLEAN, NEW r \in BOOLEAN, Requeue(a, f, r)
      PROVE TypeOK' /\ Held'
    <2> DEFINE next == Requeued(jobs["reader_html"][a], f, r)
    <2>1. jobs["reader_html"][a] \in Job
        BY <1>a
    <2>2. next \in Job
        BY ONLY <2>1, f \in BOOLEAN, r \in BOOLEAN, RequeuedType
    <2>3. jobs' = [jobs EXCEPT !["reader_html"][a] = next]
        BY ONLY <1>7, Zenon DEF Requeue
    <2> HIDE DEF next
    <2>4. jobs' \in [Types -> [Attachments -> Job]]
        <3>1. [jobs EXCEPT !["reader_html"][a] = next] \in [Types -> [Attachments -> Job]]
            BY <1>a, <2>2, JobsType
        <3> QED BY <2>3, <3>1, Zenon
    <2> QED BY <1>7, <2>4 DEF Requeue
<1>8. ASSUME NEW w \in Workers, Poll(w) PROVE TypeOK' /\ Held'
    <2>1. PICK r \in [Attachments -> {"no", "pending", "failed"}] :
            workers' = [workers EXCEPT ![w].pc = "claiming", ![w].recovered = r]
        BY <1>8 DEF Poll
    <2>2. [workers[w] EXCEPT !.pc = "claiming", !.recovered = r] \in Worker
        BY WorkerType DEF Phases
    <2>3. workers' = [workers EXCEPT ![w] = [workers[w] EXCEPT !.pc = "claiming", !.recovered = r]]
        BY <2>1
    <2>4. workers' \in [Workers -> Worker]
        BY <2>2, <2>3
    <2>5. Held'
        BY <2>3 DEF Worker
    <2> QED BY <1>8, <2>4, <2>5 DEF Poll
<1>9. ASSUME NEW w \in Workers, NEW a \in Attachments, Claim(w, a) PROVE TypeOK' /\ Held'
    <2> DEFINE type == workers[w].turn
               stale == workers[w].recovered
               job == Claimed(jobs[type][a])
               table == [jobs[type] EXCEPT ![a] = job]
               rest == Idle(type)
               next == [rest EXCEPT !.pc = "claimed", !.att = a]
    <2>1. /\ type \in Types /\ stale \in [Attachments -> {"no", "pending", "failed"}]
          /\ jobs[type] \in [Attachments -> Job]
        BY DEF Worker
    <2>2. job \in Job
        BY <2>1, ClaimedType
    <2>3. rest \in Worker
        BY <2>1, IdleType
    <2>4. /\ jobs' = [jobs EXCEPT ![type] = Flushed(table, stale)]
          /\ workers' = [workers EXCEPT ![w] = next]
          /\ overdue' \subseteq overdue
        BY <1>9 DEF Claim
    <2> HIDE DEF type, stale, job, rest
    <2>5. table \in [Attachments -> Job]
        BY <2>1, <2>2
    <2>6. next \in Worker /\ next.att = a
        BY <2>3 DEF Worker
    <2> HIDE DEF table, next
    <2>7. Flushed(table, stale) \in [Attachments -> Job]
        BY <2>1, <2>5, FlushedType
    <2>8. jobs' \in [Types -> [Attachments -> Job]]
        BY <2>4, <2>7
    <2>9. workers' \in [Workers -> Worker] /\ Held'
        BY <2>4, <2>6
    <2> QED BY <1>9, <2>4, <2>8, <2>9 DEF Claim
<1>10. ASSUME NEW w \in Workers, EndBatch(w) PROVE TypeOK' /\ Held'
    <2> DEFINE type == workers[w].turn
               stale == workers[w].recovered
               other == CHOOSE t \in Types : t # type
    <2>1. /\ type \in Types /\ stale \in [Attachments -> {"no", "pending", "failed"}]
          /\ jobs[type] \in [Attachments -> Job]
        BY DEF Worker
    <2>2. other \in Types
        BY DEF Types
    <2>3. /\ jobs' = [jobs EXCEPT ![type] = Flushed(jobs[type], stale)]
          /\ workers' = [workers EXCEPT ![w] = Idle(other)]
          /\ overdue' \subseteq overdue
        BY <1>10 DEF EndBatch
    <2> HIDE DEF type, stale, other
    <2>4. Flushed(jobs[type], stale) \in [Attachments -> Job]
        BY <2>1, FlushedType
    <2>5. Idle(other) \in Worker /\ Idle(other).pc = "idle"
        BY <2>2, IdleType
    <2>6. jobs' \in [Types -> [Attachments -> Job]]
        BY <2>3, <2>4
    <2>7. workers' \in [Workers -> Worker] /\ Held'
        BY <2>3, <2>5
    <2> QED BY <1>10, <2>3, <2>6, <2>7 DEF EndBatch
<1>b. ASSUME NEW w \in Workers, Done(w)
      PROVE  /\ workers' \in [Workers -> Worker] /\ Held'
             /\ workers'[w] = Idle(workers[w].turn)
    <2>1. workers[w].turn \in Types
        BY DEF Worker
    <2>2. Idle(workers[w].turn) \in Worker /\ Idle(workers[w].turn).pc = "idle"
        BY <2>1, IdleType
    <2>3. workers' = [workers EXCEPT ![w] = Idle(workers[w].turn)]
        BY <1>b DEF Done
    <2> QED BY <2>2, <2>3
<1>11. ASSUME NEW w \in Workers, Load(w) PROVE TypeOK' /\ Held'
    <2>1. CASE Done(w)
        BY <1>11, <1>b, <2>1 DEF Load
    <2>2. CASE ~Done(w)
        <3> DEFINE job == jobs["reader_html"][workers[w].att]
                   next == [workers[w] EXCEPT !.pc = "examining", !.job = job]
        <3>1. workers[w].att \in Attachments /\ job \in Job
            BY <1>11, <1>a DEF Load
        <3>2. workers' = [workers EXCEPT ![w] = next]
            BY <1>11, <2>2 DEF Load
        <3> HIDE DEF job
        <3>3. next \in Worker
            BY <3>1, WorkerType DEF Phases
        <3>4. next.att = workers[w].att
            BY DEF Worker
        <3> HIDE DEF next
        <3>5. workers' \in [Workers -> Worker] /\ Held'
            BY <3>1, <3>2, <3>3, <3>4
        <3> QED BY <1>11, <3>5 DEF Load
    <2> QED BY <2>1, <2>2
<1>c. ASSUME NEW w \in Workers, workers[w].att \in Attachments,
             NEW pc \in {"generating", "generated", "settling"},
             NEW result \in ArtifactStatuses \cup {"error"},
             workers' = [workers EXCEPT ![w].pc = pc, ![w].result = result]
      PROVE  workers' \in [Workers -> Worker] /\ Held'
    <2>1. [workers[w] EXCEPT !.pc = pc, !.result = result] \in Worker
        BY WorkerType DEF Phases
    <2> QED BY <1>c, <2>1
<1>d. ASSUME NEW w \in Workers, workers[w].att \in Attachments,
             NEW pc \in {"opening", "generating", "generated"},
             workers' = [workers EXCEPT ![w].pc = pc]
      PROVE  workers' \in [Workers -> Worker] /\ Held'
    <2>1. [workers[w] EXCEPT !.pc = pc] \in Worker
        BY WorkerType DEF Phases
    <2> QED BY <1>d, <2>1
<1>e. ASSUME NEW w \in Workers, Examine(w) PROVE TypeOK' /\ Held'
    <2>1. workers[w].att \in Attachments
        BY <1>e DEF Examine
    <2>2. workers' \in [Workers -> Worker] /\ Held'
        BY <1>e, <2>1, <1>d DEF Examine
    <2> QED BY <1>e, <2>2 DEF Examine
<1>12. ASSUME NEW w \in Workers, Open(w) PROVE TypeOK' /\ Held'
    <2>1. workers[w].att \in Attachments
        BY <1>12 DEF Open
    <2>2. workers' \in [Workers -> Worker] /\ Held'
        BY <1>12, <2>1, <1>d DEF Open
    <2>3. artifacts' \in [Attachments -> Artifact]
        <3>1. [artifacts EXCEPT ![workers[w].att].status = "processing"]
                \in [Attachments -> Artifact]
            BY <2>1, ArtifactType DEF ArtifactStatuses
        <3> QED BY <1>12, <3>1, Zenon DEF Open
    <2> QED BY <1>12, <2>2, <2>3 DEF Open
<1>13. ASSUME NEW w \in Workers, NEW ok \in BOOLEAN, Generate(w, ok) PROVE TypeOK' /\ Held'
    <2>1. workers[w].att \in Attachments
        BY <1>13 DEF Generate
    <2>2. workers' \in [Workers -> Worker] /\ Held'
        BY <1>13, <2>1, <1>d DEF Generate
    <2>3. artifacts' \in [Attachments -> Artifact]
        <3>1. [status |-> IF ok THEN "ready" ELSE "failed", text |-> ok] \in Artifact
            BY DEF Artifact, ArtifactStatuses
        <3> QED BY <1>13, <2>1, <3>1 DEF Generate
    <2> QED BY <1>13, <2>2, <2>3 DEF Generate
<1>14. ASSUME NEW w \in Workers, GenerateErrors(w) PROVE TypeOK' /\ Held'
    <2>1. workers' \in [Workers -> Worker] /\ Held'
        BY <1>14, <1>c DEF GenerateErrors
    <2> QED BY <1>14, <2>1 DEF GenerateErrors
<1>15. ASSUME NEW w \in Workers, LoadStatus(w) PROVE TypeOK' /\ Held'
    <2>1. workers[w].att \in Attachments /\ artifacts[workers[w].att].status \in ArtifactStatuses
        BY <1>15 DEF LoadStatus, Artifact
    <2>2. workers' \in [Workers -> Worker] /\ Held'
        BY <1>15, <2>1, <1>c DEF LoadStatus
    <2> QED BY <1>15, <2>2 DEF LoadStatus
<1>16. ASSUME NEW w \in Workers, Settle(w) PROVE TypeOK' /\ Held'
    <2> DEFINE a == workers[w].att
               next == Settled(workers[w].job, workers[w].result, jobs["reader_html"][a])
    <2>1. a \in Attachments
        BY <1>16 DEF Settle
    <2>2. next \in Job
        <3>1. workers[w].job \in Job /\ workers[w].result \in ArtifactStatuses \cup {"error"}
            BY DEF Worker
        <3> QED BY <1>a, <2>1, <3>1, SettledType
    <2>3. jobs' = jobs \/ jobs' = [jobs EXCEPT !["reader_html"][a] = next]
        BY <1>16 DEF Settle
    <2> HIDE DEF next
    <2>4. jobs' \in [Types -> [Attachments -> Job]]
        <3>1. [jobs EXCEPT !["reader_html"][a] = next] \in [Types -> [Attachments -> Job]]
            BY <1>a, <2>1, <2>2, JobsType
        <3> QED BY <2>3, <3>1, Zenon
    <2> QED BY <1>16, <1>b, <2>4 DEF Settle
<1>17. ASSUME NEW w \in Workers, SettleFails(w) PROVE TypeOK' /\ Held'
    <2>1. workers[w].att \in Attachments
        BY <1>17 DEF SettleFails
    <2>2. jobs' \in [Types -> [Attachments -> Job]]
        <3> DEFINE job == jobs["reader_html"][workers[w].att]
                   next == [job EXCEPT !.status = RetryOrFail(job.attempts)]
        <3>1. job \in Job
            BY <1>a, <2>1
        <3>2. jobs' = jobs \/ jobs' = [jobs EXCEPT !["reader_html"][workers[w].att] = next]
            BY <1>17 DEF SettleFails
        <3> HIDE DEF job
        <3>3. next \in Job
            BY <3>1 DEF RetryOrFail, Job, JobStatuses
        <3> HIDE DEF next
        <3>4. [jobs EXCEPT !["reader_html"][workers[w].att] = next]
                \in [Types -> [Attachments -> Job]]
            BY <1>a, <2>1, <3>3, JobsType
        <3> QED BY <3>2, <3>4, Zenon
    <2> QED BY <1>17, <1>b, <2>2 DEF SettleFails
<1>18. ASSUME NEW a \in Attachments, LeaseExpires(a) PROVE TypeOK' /\ Held'
    BY <1>18 DEF LeaseExpires
<1>19. ASSUME NEW w \in Workers, Crash(w) PROVE TypeOK' /\ Held'
    <2>1. Idle("reader_html") \in Worker /\ Idle("reader_html").pc = "idle"
        BY <1>a, IdleType
    <2> QED BY <1>19, <2>1 DEF Crash
<1>20. CASE UNCHANGED vars
    BY <1>20 DEF vars
<1> QED
    BY <1>1, <1>2, <1>3, <1>4, <1>5, <1>6, <1>7, <1>8, <1>9, <1>10, <1>11, <1>12, <1>13,
       <1>14, <1>15, <1>16, <1>17, <1>18, <1>19, <1>20, <1>e
    DEF Next, Run

\* What every table and every worker holds keeps its type.
THEOREM TypeCorrect == Spec => [](TypeOK /\ Held)
<1>1. Init => TypeOK /\ Held
    <2> SUFFICES ASSUME Init PROVE TypeOK /\ Held
        OBVIOUS
    <2>1. NoJob \in Job /\ NoArtifact \in Artifact
        BY MaxAttemptsAssumption DEF NoJob, Job, JobStatuses, NoArtifact, Artifact, ArtifactStatuses
    <2>2. Idle("reader_html") \in Worker /\ Idle("reader_html").pc = "idle"
        BY IdleType DEF Types
    <2>3. jobs \in [Types -> [Attachments -> Job]]
        BY <2>1 DEF Init
    <2>4. workers \in [Workers -> Worker] /\ Held
        BY <2>2 DEF Init, Held
    <2> QED BY <2>1, <2>3, <2>4 DEF Init, TypeOK
<1> QED BY <1>1, TypeStep, PTL DEF Spec

-----------------------------------------------------------------------------
(* One conversion per attachment, and a readable result.                   *)

Reader(a) == jobs["reader_html"][a]
Readable(a) == artifacts[a].status = "ready" /\ artifacts[a].text

\* Jobs and runs are those of attachments that were uploaded.
Uploaded ==
    /\ \A a \in Attachments : Reader(a).status # "absent" => stored[a] = "present"
    /\ \A w \in Workers : workers[w].pc \notin {"idle", "claiming"} =>
            stored[workers[w].att] # "absent"

\* Nobody asks for a forced run of an undisturbed attachment.
Unforced ==
    \A a \in Attachments \ disturbed :
        /\ ~Reader(a).force
        /\ waiting[a][TRUE] = 0
        /\ \A w \in Workers : workers[w].att = a => ~workers[w].job.force

\* The claim of the artifact stands as long as its conversion runs.
Marked ==
    \A a \in Attachments \ disturbed : \A w \in Generating(a) :
        stored[a] = "present" => artifacts[a].status = "processing"

ReadyHasText == \A a \in Attachments : artifacts[a].status = "ready" => artifacts[a].text

\* The success that a run has read is still there when it is written.
ResultHolds ==
    \A a \in Attachments \ (disturbed \cup reopened) : \A w \in Workers :
        /\ workers[w].att = a /\ workers[w].pc = "settling"
        /\ workers[w].result = "ready" /\ stored[a] = "present"
        => Readable(a)

ReaderInv ==
    /\ Uploaded /\ Unforced /\ Marked /\ ReadyHasText /\ ResultHolds
    /\ LeaseNeverDuplicates /\ CompletedMeansReadable

\* A worker after a step: it goes on as it was, or it does not generate, and what
\* it holds fits the tables as they are.
Fits(w) ==
    \/ /\ workers'[w].pc = workers[w].pc /\ workers'[w].att = workers[w].att
       /\ workers'[w].job = workers[w].job /\ workers'[w].result = workers[w].result
    \/ /\ workers'[w].pc # "generating"
       /\ workers'[w].pc \notin {"idle", "claiming"} => stored[workers'[w].att] # "absent"
       /\ workers'[w].att \in Attachments \ disturbed => ~workers'[w].job.force
       /\ /\ workers'[w].att \in Attachments \ (disturbed \cup reopened)
          /\ workers'[w].pc = "settling"
          /\ workers'[w].result = "ready" /\ stored[workers'[w].att] = "present"
          => Readable(workers'[w].att)

\* A job after a step: what it says is no news, or true of the artifact.
Agrees(a) ==
    /\ Reader(a)'.status # "absent" => stored[a] = "present"
    /\ a \notin disturbed' => ~Reader(a)'.force /\ waiting'[a][TRUE] = 0
    /\ a \notin disturbed' \cup reopened /\ Reader(a)'.status = "completed" => Readable(a)

\* A step that leaves attachments and artifacts alone keeps the invariant if
\* every worker fits and every job agrees.
LEMMA QuietStep ==
    ASSUME TypeOK, TypeOK', ReaderInv,
           UNCHANGED <<stored, artifacts, reopened>>, disturbed \subseteq disturbed',
           \A w \in Workers : Fits(w),
           \A a \in Attachments : Agrees(a)
    PROVE  ReaderInv'
<1> USE DEF TypeOK
<1>0. \A a \in Attachments \ disturbed' : a \in Attachments \ disturbed
    OBVIOUS
<1>1. Uploaded'
    BY DEF ReaderInv, Uploaded, Fits, Agrees
<1>2. Unforced'
    BY <1>0 DEF ReaderInv, Unforced, Fits, Agrees
<1>3. \A a \in Attachments : Generating(a)' \subseteq Generating(a)
    BY DEF Generating, Fits
<1>4. Marked'
    BY <1>0, <1>3 DEF ReaderInv, Marked
<1>5. ReadyHasText'
    BY DEF ReaderInv, ReadyHasText
<1>6. ResultHolds'
    BY <1>0 DEF ReaderInv, ResultHolds, Fits, Readable
<1>7. LeaseNeverDuplicates'
    BY <1>0, <1>3 DEF ReaderInv, LeaseNeverDuplicates
<1>8. CompletedMeansReadable'
    BY DEF ReaderInv, CompletedMeansReadable, Agrees, Readable, Reader
<1> QED BY <1>1, <1>2, <1>4, <1>5, <1>6, <1>7, <1>8 DEF ReaderInv

\* The reader jobs after a step, job by job: unchanged, or the outcome of one
\* of the writes; absent jobs only come from a request for a stored attachment.
LEMMA SameAgrees ==
    ASSUME TypeOK, ReaderInv, disturbed \subseteq disturbed',
           NEW a \in Attachments, waiting'[a][TRUE] = waiting[a][TRUE],
           \/ Reader(a)' = Reader(a)
           \/ /\ Reader(a)'.status # "completed" /\ Reader(a).status # "absent"
              /\ Reader(a)'.force => Reader(a).force \/ a \in disturbed'
    PROVE  Agrees(a)
<1>1. a \notin disturbed' => a \in Attachments \ disturbed
    OBVIOUS
<1>2. Reader(a).status # "absent" => stored[a] = "present"
    BY DEF ReaderInv, Uploaded
<1>3. a \notin disturbed' => ~Reader(a).force /\ waiting[a][TRUE] = 0
    BY <1>1 DEF ReaderInv, Unforced
<1>4. a \notin disturbed' \cup reopened /\ Reader(a).status = "completed" => Readable(a)
    BY <1>1 DEF ReaderInv, CompletedMeansReadable, Reader, Readable
<1> QED BY <1>2, <1>3, <1>4 DEF Agrees

LEMMA WaitingLeft ==
    ASSUME TypeOK, NEW a \in Attachments, NEW f \in BOOLEAN, NEW b \in Attachments,
           waiting[a][f] > 0, waiting' = [waiting EXCEPT ![a][f] = @ - 1]
    PROVE  /\ f => waiting[a][TRUE] # 0
           /\ b # a \/ ~f => waiting'[b][TRUE] = waiting[b][TRUE]
           /\ waiting[b][TRUE] = 0 => waiting'[b][TRUE] = 0
<1>0. DOMAIN waiting = Attachments /\ DOMAIN waiting[a] = BOOLEAN
    BY DEF TypeOK
<1>1. f => waiting[a][TRUE] # 0
    <2>1. waiting[a][f] # 0
        BY DEF TypeOK
    <2> QED BY <2>1, Zenon
<1>2. b # a => waiting'[b] = waiting[b]
    BY <1>0
<1>3. ~f => waiting'[a][TRUE] = waiting[a][TRUE]
    <2>1. waiting'[a] = [waiting[a] EXCEPT ![f] = @ - 1]
        BY <1>0
    <2>2. ~f => f # TRUE
        OBVIOUS
    <2>3. TRUE \in BOOLEAN
        OBVIOUS
    <2> QED BY <1>0, <2>1, <2>2, <2>3, Zenon
<1> QED BY <1>1, <1>2, <1>3, Zenon

LEMMA RequestStep ==
    ASSUME TypeOK, TypeOK', ReaderInv, NEW a \in Attachments, NEW f \in BOOLEAN,
           \/ Enqueue(a, f) \/ RequestDies(a, f) \/ EnqueuePdf(a)
           \/ \E r \in BOOLEAN : Requeue(a, f, r)
           \/ LeaseExpires(a)
    PROVE  ReaderInv'
<1> USE DEF TypeOK
<1>1. \A w \in Workers : Fits(w)
    BY DEF Fits, Enqueue, RequestDies, EnqueuePdf, Requeue, LeaseExpires
<1>2. UNCHANGED <<stored, artifacts, reopened>> /\ disturbed \subseteq disturbed'
    BY DEF Enqueue, RequestDies, EnqueuePdf, Requeue, LeaseExpires
<1>3. \A b \in Attachments : Agrees(b)
    <2> SUFFICES ASSUME NEW b \in Attachments PROVE Agrees(b)
        OBVIOUS
    <2>0. "reader_html" \in Types /\ Reader(a) \in Job /\ Reader(b) \in Job
        BY DEF Types, Reader
    <2>1. CASE Enqueue(a, f)
        <3>1. waiting'[b][TRUE] = waiting[b][TRUE] \/ (b = a /\ f = TRUE /\ waiting[a][TRUE] # 0)
            <4>1. waiting[a][f] > 0 /\ waiting' = [waiting EXCEPT ![a][f] = @ - 1]
                BY <2>1 DEF Enqueue
            <4> QED BY <4>1, WaitingLeft, Zenon
        <3>2. CASE b # a \/ stored[a] # "present"
            <4>1. Reader(b)' = Reader(b)
                BY <2>0, <2>1, <3>2 DEF Enqueue, Reader
            <4>2. CASE waiting'[b][TRUE] = waiting[b][TRUE]
                BY <1>2, <4>1, <4>2, SameAgrees
            <4>3. CASE b = a /\ f = TRUE /\ waiting[a][TRUE] # 0
                <5>1. a \in disturbed'
                    BY <1>2, <4>3 DEF ReaderInv, Unforced
                <5> QED BY <4>1, <4>3, <5>1 DEF Agrees, ReaderInv, Uploaded
            <4> QED BY <3>1, <4>2, <4>3
        <3>3. CASE b = a /\ stored[a] = "present"
            <4>1. Reader(b)' = Pending(Reader(a), f)
                BY <2>0, <2>1, <3>3 DEF Enqueue, Reader
            <4>2. Reader(b)'.status = "pending" /\ Reader(b)'.force = (Reader(a).force \/ f)
                BY <2>0, <4>1, PendingType
            <4>3. f = TRUE \/ f = FALSE
                OBVIOUS
            <4>4. CASE f = TRUE
                <5>1. waiting[a][f] > 0 /\ waiting' = [waiting EXCEPT ![a][f] = @ - 1]
                    BY <2>1 DEF Enqueue
                <5>2. waiting[a][TRUE] # 0
                    BY <4>4, <5>1, WaitingLeft, Zenon
                <5>3. a \in disturbed'
                    BY <1>2, <5>2 DEF ReaderInv, Unforced
                <5> QED BY <3>3, <4>2, <5>3 DEF Agrees
            <4>5. CASE f = FALSE
                <5>1. waiting'[b][TRUE] = waiting[b][TRUE]
                    <6>1. waiting[a][f] > 0 /\ waiting' = [waiting EXCEPT ![a][f] = @ - 1]
                        BY <2>1 DEF Enqueue
                    <6> QED BY <4>5, <6>1, WaitingLeft, Zenon
                <5>2. a \notin disturbed' => ~Reader(a).force /\ waiting[a][TRUE] = 0
                    BY <1>2 DEF ReaderInv, Unforced
                <5> QED BY <3>3, <4>2, <4>5, <5>1, <5>2 DEF Agrees
            <4> QED BY <4>3, <4>4, <4>5
        <3> QED BY <3>2, <3>3
    <2>2. CASE RequestDies(a, f)
        <3>1. Reader(b)' = Reader(b)
            BY <2>2 DEF RequestDies, Reader
        <3>2. waiting[b][TRUE] = 0 => waiting'[b][TRUE] = 0
            <4>1. waiting[a][f] > 0 /\ waiting' = [waiting EXCEPT ![a][f] = @ - 1]
                BY <2>2 DEF RequestDies
            <4> QED BY <4>1, WaitingLeft, Zenon
        <3> QED BY <1>2, <3>1, <3>2
                DEF Agrees, ReaderInv, Uploaded, Unforced, CompletedMeansReadable, Reader, Readable
    <2>3. CASE EnqueuePdf(a)
        <3>1. Reader(b)' = Reader(b) /\ waiting'[b][TRUE] = waiting[b][TRUE]
            BY <2>3 DEF EnqueuePdf, Reader, Types
        <3> QED BY <1>2, <3>1, SameAgrees
    <2>4. ASSUME NEW r \in BOOLEAN, Requeue(a, f, r) PROVE Agrees(b)
        <3>1. waiting'[b][TRUE] = waiting[b][TRUE] /\ Reader(a).status = "failed"
            BY <2>4 DEF Requeue, Reader
        <3>2. CASE b # a
            <4>1. Reader(b)' = Reader(b)
                BY <2>0, <2>4, <3>2 DEF Requeue, Reader
            <4> QED BY <1>2, <3>1, <4>1, SameAgrees
        <3>3. CASE b = a
            <4>1. Reader(b)' = Requeued(Reader(a), f, r)
                BY <2>0, <2>4, <3>3 DEF Requeue, Reader
            <4>2. Reader(b)'.status = "pending" /\ Reader(b)'.force = (Reader(a).force \/ f)
                BY ONLY <2>0, <4>1, f \in BOOLEAN, r \in BOOLEAN, RequeuedType
            <4>3. f => a \in disturbed'
                BY <2>4 DEF Requeue
            <4> QED BY <1>2, <3>1, <3>3, <4>2, <4>3, SameAgrees
        <3> QED BY <3>2, <3>3
    <2>5. CASE LeaseExpires(a)
        <3>1. Reader(b)' = Reader(b) /\ waiting'[b][TRUE] = waiting[b][TRUE]
            BY <2>5 DEF LeaseExpires, Reader
        <3> QED BY <1>2, <3>1, SameAgrees
    <2> QED BY <2>1, <2>2, <2>3, <2>4, <2>5
<1> QED BY <1>1, <1>2, <1>3, QuietStep

\* A worker that is idle or polls fits whatever the tables hold.
LEMMA IdleFits ==
    ASSUME TypeOK, NEW w \in Workers, NEW type \in Types, workers'[w] = Idle(type)
    PROVE  Fits(w)
    BY AttachmentsAssumption, IdleType DEF Fits, Idle, NoJob

LEMMA PollStep ==
    ASSUME TypeOK, TypeOK', ReaderInv, NEW w \in Workers,
           Poll(w) \/ EndBatch(w) \/ \E a \in Attachments : Claim(w, a)
    PROVE  ReaderInv'
<1> USE DEF TypeOK
<1> DEFINE type == workers[w].turn
           stale == workers[w].recovered
<1>0. /\ type \in Types /\ stale \in [Attachments -> {"no", "pending", "failed"}]
      /\ "reader_html" \in Types /\ jobs[type] \in [Attachments -> Job]
    BY DEF Worker, Types
<1>1. UNCHANGED <<stored, artifacts, waiting, reopened>> /\ disturbed \subseteq disturbed'
    BY DEF Poll, EndBatch, Claim
<1>2. CASE Poll(w)
    <2>1. \A v \in Workers : /\ workers'[v].att = workers[v].att
                             /\ workers'[v].job = workers[v].job
                             /\ workers'[v].result = workers[v].result
                             /\ v # w => workers'[v].pc = workers[v].pc
        BY <1>2 DEF Poll, Worker
    <2>2. workers'[w].pc = "claiming" /\ workers[w].pc = "idle"
        <3>1. PICK r \in [Attachments -> {"no", "pending", "failed"}] :
                workers' = [workers EXCEPT ![w].pc = "claiming", ![w].recovered = r]
            BY <1>2 DEF Poll
        <3>2. workers[w].pc = "idle"
            BY <1>2 DEF Poll
        <3> QED BY <3>1, <3>2 DEF Worker
    <2>3. \A v \in Workers : Fits(v)
        BY <2>1, <2>2 DEF Fits, ReaderInv, Unforced
    <2>4. \A a \in Attachments : Agrees(a)
        <3>1. \A a \in Attachments : Reader(a)' = Reader(a)
            BY <1>2 DEF Poll, Reader
        <3> QED BY <1>1, <3>1, SameAgrees
    <2> QED BY <1>1, <2>3, <2>4, QuietStep
<1>3. CASE EndBatch(w)
    <2> DEFINE other == CHOOSE t \in Types : t # type
    <2>1. other \in Types
        BY DEF Types
    <2>2. /\ jobs' = [jobs EXCEPT ![type] = Flushed(jobs[type], stale)]
          /\ workers' = [workers EXCEPT ![w] = Idle(other)]
        BY <1>3 DEF EndBatch
    <2> HIDE DEF other, type, stale
    <2>3. \A v \in Workers : Fits(v)
        <3>1. workers'[w] = Idle(other)
            BY <2>2
        <3>2. Fits(w)
            BY <2>1, <3>1, IdleFits
        <3>3. \A v \in Workers \ {w} : workers'[v] = workers[v]
            BY <2>2
        <3>4. \A v \in Workers \ {w} : Fits(v)
            BY <3>3 DEF Fits
        <3> QED BY <3>2, <3>4
    <2>4. ASSUME NEW a \in Attachments PROVE Agrees(a)
        <3>1. Reader(a)' = Reader(a) \/ Reader(a)' = Flushed(jobs["reader_html"], stale)[a]
            BY <1>0, <2>2 DEF Reader
        <3>2. CASE Reader(a)' = Reader(a)
            BY <1>1, <3>2, SameAgrees
        <3>3. CASE Reader(a)' = Flushed(jobs["reader_html"], stale)[a] /\ Reader(a)' # Reader(a)
            <4>0. jobs["reader_html"] \in [Attachments -> Job]
                BY <1>0
            <4>1. /\ Flushed(jobs["reader_html"], stale)[a].force = Reader(a).force
                  /\ \/ Flushed(jobs["reader_html"], stale)[a] = Reader(a)
                     \/ /\ Flushed(jobs["reader_html"], stale)[a].status \in {"pending", "failed"}
                        /\ Reader(a).status # "absent"
                BY <1>0, <4>0 DEF Flushed, Job, JobStatuses, Reader
            <4>2. Reader(a)'.status # "completed" /\ Reader(a).status # "absent"
                BY <3>3, <4>1
            <4> QED BY <1>1, <3>3, <4>1, <4>2, SameAgrees
        <3> QED BY <3>1, <3>2, <3>3
    <2> QED BY <1>1, <2>3, <2>4, QuietStep
<1>4. ASSUME NEW a \in Attachments, Claim(w, a) PROVE ReaderInv'
    <2> DEFINE job == Claimed(jobs["reader_html"][a])
               table == [jobs["reader_html"] EXCEPT ![a] = job]
    <2>1. /\ type = "reader_html" /\ Reader(a).status = "pending"
          /\ jobs' = [jobs EXCEPT !["reader_html"] = Flushed(table, stale)]
          /\ workers' = [workers EXCEPT ![w] = [Idle("reader_html") EXCEPT !.pc = "claimed", !.att = a]]
        BY <1>4 DEF Claim, ClaimMatches, Reader
    <2>2. stored[a] = "present"
        BY <2>1 DEF ReaderInv, Uploaded
    <2> HIDE DEF type, stale
    <2>3. \A v \in Workers : Fits(v)
        <3>1. workers'[w].pc = "claimed" /\ workers'[w].att = a /\ workers'[w].job = NoJob
            BY <2>1 DEF Idle
        <3>2. Fits(w)
            BY <2>2, <3>1 DEF Fits, NoJob
        <3>3. \A v \in Workers \ {w} : workers'[v] = workers[v]
            BY <2>1
        <3>4. \A v \in Workers \ {w} : Fits(v)
            BY <3>3 DEF Fits
        <3> QED BY <3>2, <3>4
    <2>4. job \in Job /\ job.status = "processing" /\ job.force = Reader(a).force
        BY <1>0, ClaimedType DEF Reader
    <2>5. ASSUME NEW b \in Attachments PROVE Agrees(b)
        <3> HIDE DEF job
        <3>1. table \in [Attachments -> Job]
            BY <1>0, <2>4
        <3>2. /\ table[b].force = Reader(b).force
              /\ \/ table[b] = Reader(b)
                 \/ table[b].status = "processing" /\ Reader(b).status # "absent"
            <4>0. DOMAIN jobs["reader_html"] = Attachments
                BY <1>0
            <4>1. CASE b = a
                <5>1. table[b] = job
                    BY <4>0, <4>1
                <5> QED BY <2>1, <2>4, <4>1, <5>1
            <4>2. CASE b # a
                <5>1. table[b] = Reader(b)
                    BY <4>0, <4>2 DEF Reader
                <5> QED BY <5>1
            <4> QED BY <4>1, <4>2
        <3> HIDE DEF table
        <3>3. Reader(b)' = Flushed(table, stale)[b]
            BY <1>0, <2>1 DEF Reader
        <3>4. /\ Flushed(table, stale)[b].force = table[b].force
              /\ \/ Flushed(table, stale)[b] = table[b]
                 \/ /\ Flushed(table, stale)[b].status \in {"pending", "failed"}
                    /\ table[b].status # "absent"
            BY <1>0, <3>1 DEF Flushed, Job, JobStatuses
        <3>5. \/ Reader(b)' = Reader(b)
              \/ /\ Reader(b)'.status # "completed" /\ Reader(b).status # "absent"
                 /\ Reader(b)'.force = Reader(b).force
            BY <3>2, <3>3, <3>4
        <3> QED BY <1>1, <3>5, SameAgrees
    <2> QED BY <1>1, <2>3, <2>5, QuietStep
<1> QED BY <1>2, <1>3, <1>4

LEMMA ReaderUpdate ==
    ASSUME TypeOK, NEW a \in Attachments, NEW b \in Attachments, NEW job,
           jobs' = [jobs EXCEPT !["reader_html"][a] = job]
    PROVE  Reader(b)' = IF b = a THEN job ELSE Reader(b)
<1>1. jobs'["reader_html"] = [jobs["reader_html"] EXCEPT ![a] = job]
    BY DEF TypeOK, Types
<1>2. DOMAIN jobs["reader_html"] = Attachments
    BY DEF TypeOK, Types
<1> QED BY <1>1, <1>2 DEF Reader

LEMMA RunStep ==
    ASSUME TypeOK, TypeOK', Held, ReaderInv, NEW w \in Workers,
           \/ Load(w) \/ Examine(w) \/ LoadStatus(w) \/ Settle(w)
           \/ GenerateErrors(w) \/ SettleFails(w) \/ Crash(w)
    PROVE  ReaderInv'
<1> USE DEF TypeOK
<1> DEFINE a == workers[w].att
<1>0. /\ workers[w].turn \in Types /\ "reader_html" \in Types
      /\ workers[w].result \in ArtifactStatuses \cup {"error"} /\ workers[w].job \in Job
      /\ \A b \in Attachments : Reader(b) \in Job
    BY DEF Worker, Types, Reader
<1>1. UNCHANGED <<stored, artifacts, waiting, reopened>> /\ disturbed \subseteq disturbed'
    BY DEF Load, Examine, LoadStatus, Settle, GenerateErrors, SettleFails, Crash, Done
<1>2. \A v \in Workers \ {w} : Fits(v)
    <2>1. \A v \in Workers \ {w} : workers'[v] = workers[v]
        BY DEF Load, Examine, LoadStatus, Settle, GenerateErrors, SettleFails, Crash, Done
    <2> QED BY <2>1 DEF Fits
<1>3. ASSUME UNCHANGED jobs PROVE \A b \in Attachments : Agrees(b)
    <2>1. \A b \in Attachments : Reader(b)' = Reader(b)
        BY <1>3 DEF Reader
    <2> QED BY <1>1, <2>1, SameAgrees
<1>4. ASSUME Done(w) PROVE Fits(w)
    <2>1. workers'[w] = Idle(workers[w].turn)
        BY <1>4 DEF Done
    <2> QED BY <1>0, <2>1, IdleFits
<1>5. CASE Load(w)
    <2>0. a \in Attachments /\ stored[a] # "absent"
        BY <1>5 DEF Load, Held, ReaderInv, Uploaded
    <2>1. Fits(w)
        <3>1. CASE Done(w)
            BY <1>4, <3>1
        <3>2. CASE ~Done(w)
            <4>1. workers' = [workers EXCEPT ![w].pc = "examining", ![w].job = Reader(a)]
                BY <1>5, <3>2 DEF Load, Reader
            <4>2. workers'[w].pc = "examining" /\ workers'[w].att = a /\ workers'[w].job = Reader(a)
                BY <4>1 DEF Worker
            <4>3. a \notin disturbed => ~Reader(a).force
                BY <2>0 DEF ReaderInv, Unforced
            <4> QED BY <2>0, <4>2, <4>3 DEF Fits
        <3> QED BY <3>1, <3>2
    <2>2. UNCHANGED jobs
        BY <1>5 DEF Load
    <2> QED BY <1>1, <1>2, <1>3, <2>1, <2>2, QuietStep
<1>6. CASE LoadStatus(w)
    <2>0. a \in Attachments /\ stored[a] # "absent"
        BY <1>6 DEF LoadStatus, Held, ReaderInv, Uploaded
    <2>1. Fits(w)
        <3>1. /\ workers'[w].pc = "settling" /\ workers'[w].att = a
              /\ workers'[w].job = workers[w].job /\ workers'[w].result = artifacts[a].status
            BY <1>6 DEF LoadStatus, Worker
        <3>2. a \notin disturbed => ~workers[w].job.force
            BY <2>0 DEF ReaderInv, Unforced
        <3>3. artifacts[a].status = "ready" => Readable(a)
            BY <2>0 DEF ReaderInv, ReadyHasText, Readable
        <3> QED BY <2>0, <3>1, <3>2, <3>3 DEF Fits
    <2>2. UNCHANGED jobs
        BY <1>6 DEF LoadStatus
    <2> QED BY <1>1, <1>2, <1>3, <2>1, <2>2, QuietStep
<1>7. CASE Settle(w)
    <2>0. a \in Attachments
        BY <1>7 DEF Settle, Held
    <2>1. Fits(w)
        BY <1>4, <1>7 DEF Settle
    <2> DEFINE next == Settled(workers[w].job, workers[w].result, Reader(a))
    <2>2. jobs' = jobs \/ (/\ Reader(a).status # "absent"
                           /\ jobs' = [jobs EXCEPT !["reader_html"][a] = next])
        BY <1>7 DEF Settle, Reader
    <2>3. /\ next.status = "completed" => workers[w].result = "ready"
          /\ next.force => Reader(a).force
        BY <1>0, <2>0, SettledType
    <2> HIDE DEF next
    <2>4. ASSUME NEW b \in Attachments PROVE Agrees(b)
        <3>1. CASE Reader(b)' = Reader(b)
            BY <1>1, <3>1, SameAgrees
        <3>2. CASE Reader(b)' # Reader(b)
            <4>1. b = a /\ Reader(b)' = next /\ Reader(b).status # "absent"
                <5>1. jobs' # jobs
                    BY <3>2 DEF Reader
                <5> QED BY <2>0, <2>2, <3>2, <5>1, ReaderUpdate
            <4>2. stored[a] = "present"
                BY <2>0, <4>1 DEF ReaderInv, Uploaded
            <4>3. a \notin disturbed' => ~next.force /\ waiting'[a][TRUE] = 0
                BY <1>1, <2>0, <2>3 DEF ReaderInv, Unforced
            <4>4. a \notin disturbed' \cup reopened /\ next.status = "completed" => Readable(a)
                <5>1. workers[w].pc = "settling"
                    BY <1>7 DEF Settle
                <5>2. a \notin disturbed' \cup reopened => a \in Attachments \ (disturbed \cup reopened)
                    BY <1>1, <2>0
                <5> QED BY <2>3, <4>2, <5>1, <5>2 DEF ReaderInv, ResultHolds
            <4> QED BY <4>1, <4>2, <4>3, <4>4 DEF Agrees
        <3> QED BY <3>1, <3>2
    <2> QED BY <1>1, <1>2, <2>1, <2>4, QuietStep
<1>8. CASE GenerateErrors(w)
    <2>0. a \in Attachments /\ stored[a] # "absent"
        BY <1>8 DEF GenerateErrors, Held, ReaderInv, Uploaded
    <2>1. Fits(w)
        <3>1. /\ workers'[w].pc = "settling" /\ workers'[w].att = a
              /\ workers'[w].job = workers[w].job /\ workers'[w].result = "error"
            BY <1>8 DEF GenerateErrors, Worker
        <3>2. a \notin disturbed => ~workers[w].job.force
            BY <2>0 DEF ReaderInv, Unforced
        <3> QED BY <2>0, <3>1, <3>2 DEF Fits
    <2>2. UNCHANGED jobs
        BY <1>8 DEF GenerateErrors
    <2> QED BY <1>1, <1>2, <1>3, <2>1, <2>2, QuietStep
<1>9. CASE SettleFails(w)
    <2>0. a \in Attachments
        BY <1>9 DEF SettleFails, Held
    <2>1. Fits(w)
        BY <1>4, <1>9 DEF SettleFails
    <2> DEFINE next == [Reader(a) EXCEPT !.status = RetryOrFail(Reader(a).attempts)]
    <2>2. jobs' = jobs \/ (/\ Reader(a).status = "processing"
                           /\ jobs' = [jobs EXCEPT !["reader_html"][a] = next])
        BY <1>9 DEF SettleFails, Reader
    <2>3. next.status # "completed" /\ next.force = Reader(a).force
        BY <1>0, <2>0 DEF RetryOrFail, Job
    <2> HIDE DEF next
    <2>4. ASSUME NEW b \in Attachments PROVE Agrees(b)
        <3>1. CASE Reader(b)' = Reader(b)
            BY <1>1, <3>1, SameAgrees
        <3>2. CASE Reader(b)' # Reader(b)
            <4>1. b = a /\ Reader(b)' = next /\ Reader(b).status = "processing"
                <5>1. jobs' # jobs
                    BY <3>2 DEF Reader
                <5> QED BY <2>0, <2>2, <3>2, <5>1, ReaderUpdate
            <4>2. Reader(b)'.status # "completed" /\ Reader(b).status # "absent"
                BY <2>3, <4>1
            <4>3. Reader(b)'.force = Reader(b).force
                BY <2>3, <4>1
            <4> QED BY <1>1, <4>2, <4>3, SameAgrees
        <3> QED BY <3>1, <3>2
    <2> QED BY <1>1, <1>2, <2>1, <2>4, QuietStep
<1>10. CASE Examine(w)
    <2>0. a \in Attachments /\ stored[a] # "absent"
        BY <1>10 DEF Examine, Held, ReaderInv, Uploaded
    <2>1. Fits(w)
        <3>1. /\ workers'[w].pc \in {"opening", "generated"} /\ workers'[w].att = a
              /\ workers'[w].job = workers[w].job
            BY <1>10 DEF Examine, Worker
        <3>2. a \notin disturbed => ~workers[w].job.force
            BY <2>0 DEF ReaderInv, Unforced
        <3> QED BY <2>0, <3>1, <3>2 DEF Fits
    <2>2. UNCHANGED jobs
        BY <1>10 DEF Examine
    <2> QED BY <1>1, <1>2, <1>3, <2>1, <2>2, QuietStep
<1>11. CASE Crash(w)
    <2>1. workers'[w] = Idle("reader_html")
        BY <1>11 DEF Crash
    <2>2. Fits(w)
        BY <1>0, <2>1, IdleFits
    <2>3. UNCHANGED jobs
        BY <1>11 DEF Crash
    <2> QED BY <1>1, <1>2, <1>3, <2>2, <2>3, QuietStep
<1> QED BY <1>5, <1>6, <1>7, <1>8, <1>9, <1>10, <1>11

\* The steps that write an attachment or its artifact.

LEMMA UploadStep ==
    ASSUME TypeOK, TypeOK', ReaderInv, NEW a \in Attachments, Upload(a)
    PROVE  ReaderInv'
<1> USE DEF TypeOK
<1>1. /\ stored[a] = "absent" /\ stored' = [stored EXCEPT ![a] = "present"]
      /\ artifacts'[a].status = "pending"
      /\ \A b \in Attachments \ {a} : artifacts'[b] = artifacts[b]
      /\ UNCHANGED <<jobs, workers, disturbed, reopened>>
    BY DEF Upload, Artifact
<1>2. \A b \in Attachments : waiting'[b][TRUE] = waiting[b][TRUE]
    <2>1. waiting' = [waiting EXCEPT ![a] = [waiting[a] EXCEPT ![FALSE] = @ + 1]]
        BY DEF Upload
    <2>2. \A b \in Attachments \ {a} : waiting'[b] = waiting[b]
        BY <2>1
    <2>3. waiting'[a] = [waiting[a] EXCEPT ![FALSE] = @ + 1] /\ DOMAIN waiting[a] = BOOLEAN
        BY <2>1
    <2>4. TRUE \in BOOLEAN /\ FALSE # TRUE
        OBVIOUS
    <2>5. waiting'[a][TRUE] = waiting[a][TRUE]
        BY <2>3, <2>4, Zenon
    <2> QED BY <2>2, <2>5
<1>3. /\ Reader(a).status = "absent" /\ Generating(a) = {}
      /\ \A w \in Workers : workers[w].att = a => workers[w].pc \in {"idle", "claiming"}
    <2>1. Reader(a).status = "absent"
        BY <1>1 DEF ReaderInv, Uploaded
    <2>2. \A w \in Workers : workers[w].att = a => workers[w].pc \in {"idle", "claiming"}
        BY <1>1 DEF ReaderInv, Uploaded
    <2>3. Generating(a) = {}
        BY <2>2 DEF Generating
    <2> QED BY <2>1, <2>2, <2>3
<1>4. \A b \in Attachments : Reader(b)' = Reader(b) /\ Generating(b)' = Generating(b)
    BY <1>1 DEF Reader, Generating
<1>5. Uploaded'
    BY <1>1, <1>4 DEF ReaderInv, Uploaded
<1>6. Unforced'
    BY <1>1, <1>2, <1>4 DEF ReaderInv, Unforced
<1>7. Marked'
    BY <1>1, <1>3, <1>4 DEF ReaderInv, Marked
<1>8. ReadyHasText'
    BY <1>1 DEF ReaderInv, ReadyHasText
<1>9. ResultHolds'
    <2>1. \A w \in Workers : workers[w].att = a => workers[w].pc # "settling"
        BY <1>3
    <2>2. \A b \in Attachments \ {a} : stored'[b] = stored[b]
        BY <1>1
    <2> QED BY <1>1, <2>1, <2>2 DEF ReaderInv, ResultHolds, Readable
<1>10. LeaseNeverDuplicates'
    BY <1>1, <1>4 DEF ReaderInv, LeaseNeverDuplicates
<1>11. CompletedMeansReadable'
    BY <1>1, <1>3, <1>4 DEF ReaderInv, CompletedMeansReadable, Reader
<1> QED BY <1>5, <1>6, <1>7, <1>8, <1>9, <1>10, <1>11 DEF ReaderInv

LEMMA ViewStep ==
    ASSUME TypeOK, TypeOK', ReaderInv, NEW a \in Attachments, NEW f \in BOOLEAN, View(a, f)
    PROVE  ReaderInv'
<1> USE DEF TypeOK
<1>1. /\ artifacts'[a].status = "pending"
      /\ \A b \in Attachments \ {a} : artifacts'[b] = artifacts[b] /\ waiting'[b] = waiting[b]
      /\ disturbed' = disturbed \cup {a}
      /\ UNCHANGED <<stored, jobs, workers, reopened>>
    BY DEF View
<1>2. \A b \in Attachments : Reader(b)' = Reader(b) /\ Generating(b)' = Generating(b)
    BY <1>1 DEF Reader, Generating
<1>3. \A b \in Attachments \ disturbed' : b \in Attachments \ disturbed /\ b # a
    BY <1>1
<1>4. Uploaded'
    BY <1>1, <1>2 DEF ReaderInv, Uploaded
<1>5. Unforced'
    BY <1>1, <1>2, <1>3 DEF ReaderInv, Unforced
<1>6. Marked'
    BY <1>1, <1>2, <1>3 DEF ReaderInv, Marked
<1>7. ReadyHasText'
    BY <1>1 DEF ReaderInv, ReadyHasText
<1>8. ResultHolds'
    BY <1>1, <1>3 DEF ReaderInv, ResultHolds, Readable
<1>9. LeaseNeverDuplicates'
    BY <1>2, <1>3 DEF ReaderInv, LeaseNeverDuplicates
<1>10. CompletedMeansReadable'
    BY <1>1, <1>2, <1>3 DEF ReaderInv, CompletedMeansReadable, Reader
<1> QED BY <1>4, <1>5, <1>6, <1>7, <1>8, <1>9, <1>10 DEF ReaderInv

LEMMA DeleteStep ==
    ASSUME TypeOK, TypeOK', ReaderInv, NEW a \in Attachments, Delete(a)
    PROVE  ReaderInv'
<1> USE DEF TypeOK
<1>1. /\ stored' = [stored EXCEPT ![a] = "deleted"]
      /\ artifacts' = [artifacts EXCEPT ![a] = NoArtifact]
      /\ Reader(a)' = NoJob
      /\ \A b \in Attachments \ {a} : Reader(b)' = Reader(b)
      /\ UNCHANGED <<waiting, workers, disturbed, reopened>>
    BY DEF Delete, Reader, Types
<1>2. \A b \in Attachments : Generating(b)' = Generating(b)
    BY <1>1 DEF Generating
<1>3. Uploaded'
    BY <1>1 DEF ReaderInv, Uploaded, NoJob
<1>4. Unforced'
    <2>1. ~NoJob.force
        BY DEF NoJob
    <2>2. \A b \in Attachments \ disturbed : ~Reader(b)'.force
        BY <1>1, <2>1 DEF ReaderInv, Unforced
    <2> QED BY <1>1, <2>2 DEF ReaderInv, Unforced
<1>5. Marked'
    BY <1>1, <1>2 DEF ReaderInv, Marked
<1>6. ReadyHasText'
    BY <1>1 DEF ReaderInv, ReadyHasText, NoArtifact
<1>7. ResultHolds'
    BY <1>1 DEF ReaderInv, ResultHolds, Readable
<1>8. LeaseNeverDuplicates'
    BY <1>1, <1>2 DEF ReaderInv, LeaseNeverDuplicates
<1>9. CompletedMeansReadable'
    <2>1. NoJob.status # "completed"
        BY DEF NoJob
    <2>2. \A b \in Attachments \ (disturbed \cup reopened) :
            Reader(b)'.status = "completed" => b # a /\ Reader(b)' = Reader(b) /\ artifacts'[b] = artifacts[b]
        BY <1>1, <2>1
    <2>3. \A b \in Attachments \ (disturbed \cup reopened) :
            Reader(b).status = "completed" => artifacts[b].status = "ready" /\ artifacts[b].text
        BY DEF ReaderInv, CompletedMeansReadable, Reader
    <2> HIDE DEF TypeOK
    <2>4. \A b \in Attachments \ (disturbed' \cup reopened') :
            Reader(b)'.status = "completed" => artifacts'[b].status = "ready" /\ artifacts'[b].text
        BY <1>1, <2>2, <2>3
    <2> QED BY <2>4 DEF CompletedMeansReadable, Reader
<1> QED BY <1>3, <1>4, <1>5, <1>6, <1>7, <1>8, <1>9 DEF ReaderInv

LEMMA OpenStep ==
    ASSUME TypeOK, TypeOK', Held, ReaderInv, NEW w \in Workers, Open(w)
    PROVE  ReaderInv'
<1> USE DEF TypeOK
<1>1. PICK a \in Attachments : a = workers[w].att
    BY DEF Open, Held
<1>2. /\ workers[w].pc = "opening" /\ workers'[w].pc \in {"generating", "generated"}
      /\ workers'[w].att = a /\ workers'[w].job = workers[w].job
      /\ \A v \in Workers \ {w} : workers'[v] = workers[v]
      /\ UNCHANGED <<stored, jobs, waiting, disturbed>> /\ reopened \subseteq reopened'
    BY <1>1 DEF Open, Worker
<1>3. \A b \in Attachments : Reader(b)' = Reader(b)
    BY <1>2 DEF Reader
<1>4. \A b \in Attachments \ {a} : Generating(b)' = Generating(b) /\ artifacts'[b] = artifacts[b]
    <2>1. \A b \in Attachments \ {a} : artifacts'[b] = artifacts[b]
        BY <1>1 DEF Open
    <2>2. \A b \in Attachments \ {a}, v \in Workers :
            /\ workers'[v].pc = "generating" /\ workers'[v].att = b
            <=> workers[v].pc = "generating" /\ workers[v].att = b
        BY <1>1, <1>2
    <2> QED BY <2>1, <2>2 DEF Generating
<1>5. \/ UNCHANGED artifacts /\ Generating(a)' = Generating(a)
      \/ /\ artifacts'[a].status = "processing" /\ stored[a] = "present"
         /\ a \notin disturbed => Generating(a) = {} /\ (Readable(a) => a \in reopened')
         /\ Generating(a)' = Generating(a) \cup {w}
    <2>1. CASE stored[a] = "present" /\ ArtifactClaimable(artifacts[a], workers[w].job.force)
        <3>1. artifacts'[a].status = "processing" /\ workers'[w].pc = "generating"
            BY <1>1, <2>1 DEF Open, Artifact, Worker
        <3>0. a \notin disturbed => ~workers[w].job.force
            BY <1>1 DEF ReaderInv, Unforced
        <3>2. a \notin disturbed => artifacts[a].status # "processing"
            BY <2>1, <3>0 DEF ArtifactClaimable
        <3>4. a \notin disturbed /\ Readable(a) => a \in reopened'
            BY <1>1, <2>1, <3>0 DEF Open, UpToDate, Readable
        <3>3. a \notin disturbed => Generating(a) = {}
            BY <2>1, <3>2 DEF ReaderInv, Marked
        <3> QED BY <1>1, <1>2, <2>1, <3>1, <3>3, <3>4 DEF Generating
    <2>2. CASE ~(stored[a] = "present" /\ ArtifactClaimable(artifacts[a], workers[w].job.force))
        <3>1. UNCHANGED artifacts /\ workers'[w].pc = "generated"
            BY <1>1, <2>2 DEF Open, Worker
        <3> QED BY <1>1, <1>2, <3>1 DEF Generating
    <2> QED BY <2>1, <2>2
<1>6. Uploaded'
    BY <1>1, <1>2, <1>3 DEF ReaderInv, Uploaded
<1>7. Unforced'
    <2>1. \A v \in Workers : workers'[v].att = workers[v].att /\ workers'[v].job = workers[v].job
        BY <1>1, <1>2
    <2> HIDE DEF TypeOK
    <2> QED BY <1>2, <1>3, <2>1 DEF ReaderInv, Unforced
<1>8. Marked'
    <2>1. ASSUME NEW b \in Attachments \ disturbed', NEW v \in Generating(b)', stored'[b] = "present"
          PROVE  artifacts'[b].status = "processing"
        BY <1>2, <1>4, <1>5, <2>1 DEF ReaderInv, Marked
    <2> QED BY <2>1 DEF Marked
<1>9. ReadyHasText'
    BY <1>4, <1>5 DEF ReaderInv, ReadyHasText
<1>10. ResultHolds'
    <2>1. \A b \in Attachments \ (disturbed \cup reopened') :
            Readable(b) => artifacts'[b] = artifacts[b]
        BY <1>4, <1>5
    <2> QED BY <1>2, <2>1 DEF ReaderInv, ResultHolds, Readable
<1>11. LeaseNeverDuplicates'
    <2>1. ASSUME NEW b \in Attachments \ disturbed, NEW v \in Generating(b)', NEW x \in Generating(b)'
          PROVE  v = x
        <3>1. CASE Generating(b)' = Generating(b)
            BY <2>1, <3>1 DEF ReaderInv, LeaseNeverDuplicates
        <3>2. CASE Generating(b)' # Generating(b)
            <4>1. Generating(b)' = {w}
                BY <1>4, <1>5, <3>2
            <4> QED BY <2>1, <4>1
        <3> QED BY <3>1, <3>2
    <2> QED BY <1>2, <2>1 DEF LeaseNeverDuplicates
<1>12. CompletedMeansReadable'
    <2>1. \A b \in Attachments \ (disturbed \cup reopened') :
            Readable(b) => artifacts'[b] = artifacts[b]
        BY <1>4, <1>5
    <2> QED BY <1>2, <2>1 DEF ReaderInv, CompletedMeansReadable, Readable
<1> QED BY <1>6, <1>7, <1>8, <1>9, <1>10, <1>11, <1>12 DEF ReaderInv

LEMMA GenerateStep ==
    ASSUME TypeOK, TypeOK', Held, ReaderInv, NEW w \in Workers, NEW ok \in BOOLEAN, Generate(w, ok)
    PROVE  ReaderInv'
<1> USE DEF TypeOK
<1>1. PICK a \in Attachments : a = workers[w].att
    BY DEF Generate, Held
<1>2. /\ workers[w].pc = "generating" /\ workers'[w].pc = "generated"
      /\ workers'[w].att = a /\ workers'[w].job = workers[w].job
      /\ \A v \in Workers \ {w} : workers'[v] = workers[v]
      /\ UNCHANGED <<stored, jobs, waiting, disturbed, reopened>>
    BY <1>1 DEF Generate, Worker
<1>3. \A b \in Attachments : Reader(b)' = Reader(b)
    BY <1>2 DEF Reader
<1>4. \A b \in Attachments \ {a} : Generating(b)' = Generating(b) /\ artifacts'[b] = artifacts[b]
    <2>1. \A b \in Attachments \ {a} : artifacts'[b] = artifacts[b]
        BY <1>1 DEF Generate
    <2> QED BY <1>1, <1>2, <2>1 DEF Generating
<1>5. Generating(a)' = Generating(a) \ {w} /\ w \in Generating(a)
    BY <1>1, <1>2 DEF Generating
<1>6. a \notin disturbed => Generating(a)' = {}
    BY <1>5 DEF ReaderInv, LeaseNeverDuplicates
<1>7. stored[a] # "present" => UNCHANGED artifacts
    BY <1>1 DEF Generate
<1>8. a \notin disturbed /\ stored[a] = "present" => ~Readable(a)
    BY <1>5 DEF ReaderInv, Marked, Readable
<1>9. Uploaded'
    BY <1>1, <1>2, <1>3 DEF ReaderInv, Uploaded
<1>10. Unforced'
    <2>1. \A v \in Workers : workers'[v].att = workers[v].att /\ workers'[v].job = workers[v].job
        BY <1>1, <1>2
    <2> HIDE DEF TypeOK
    <2> QED BY <1>2, <1>3, <2>1 DEF ReaderInv, Unforced
<1>11. Marked'
    <2>1. ASSUME NEW b \in Attachments \ disturbed', NEW v \in Generating(b)', stored'[b] = "present"
          PROVE  artifacts'[b].status = "processing"
        BY <1>2, <1>4, <1>6, <2>1 DEF ReaderInv, Marked
    <2> QED BY <2>1 DEF Marked
<1>12. ReadyHasText'
    <2>1. artifacts'[a].status = "ready" => artifacts'[a].text
        <3>1. CASE stored[a] = "present"
            <4>1. artifacts'[a] = [status |-> IF ok THEN "ready" ELSE "failed", text |-> ok]
                BY <1>1, <3>1 DEF Generate
            <4> QED BY <4>1
        <3> QED BY <1>7, <3>1 DEF ReaderInv, ReadyHasText
    <2> QED BY <1>4, <2>1 DEF ReaderInv, ReadyHasText
<1>13. \A b \in Attachments \ disturbed : stored[b] = "present" /\ Readable(b) => artifacts'[b] = artifacts[b]
    BY <1>4, <1>8
<1>14. ResultHolds'
    BY <1>2, <1>13 DEF ReaderInv, ResultHolds, Readable
<1>15. LeaseNeverDuplicates'
    BY <1>2, <1>4, <1>6 DEF ReaderInv, LeaseNeverDuplicates
<1>16. CompletedMeansReadable'
    BY <1>2, <1>13 DEF ReaderInv, Uploaded, CompletedMeansReadable, Readable, Reader
<1> QED BY <1>9, <1>10, <1>11, <1>12, <1>14, <1>15, <1>16 DEF ReaderInv

LEMMA ReaderStep == ASSUME TypeOK, TypeOK', Held, ReaderInv, [Next]_vars PROVE ReaderInv'
<1>1. CASE UNCHANGED vars
    <2>1. \A w \in Workers : Fits(w)
        BY <1>1 DEF Fits, vars
    <2>2. \A a \in Attachments : Reader(a)' = Reader(a) /\ waiting'[a][TRUE] = waiting[a][TRUE]
        BY <1>1 DEF Reader, vars
    <2>3. \A a \in Attachments : Agrees(a)
        BY <1>1, <2>2, SameAgrees DEF vars
    <2> QED BY <1>1, <2>1, <2>3, QuietStep DEF vars
<1>2. CASE Next
    BY <1>2, RequestStep, PollStep, RunStep, UploadStep, ViewStep, DeleteStep, OpenStep, GenerateStep
    DEF Next, Run
<1> QED BY <1>1, <1>2

LEMMA ReaderInvHolds == Spec => [](TypeOK /\ ReaderInv)
<1>1. Init => ReaderInv
    <2> SUFFICES ASSUME Init PROVE ReaderInv
        OBVIOUS
    <2>1. \A a \in Attachments : /\ Reader(a) = NoJob /\ artifacts[a] = NoArtifact
                                 /\ waiting[a][TRUE] = 0 /\ stored[a] = "absent"
        BY DEF Init, Reader, Types
    <2>2. \A w \in Workers : /\ workers[w].pc = "idle" /\ workers[w].att = None
                             /\ workers[w].job = NoJob
        BY DEF Init, Idle
    <2>3. NoJob.status = "absent" /\ ~NoJob.force /\ NoArtifact.status = "absent"
        BY DEF NoJob, NoArtifact
    <2>4. \A a \in Attachments : Generating(a) = {}
        BY <2>2 DEF Generating
    <2>5. Uploaded /\ Marked /\ ReadyHasText /\ ResultHolds /\ LeaseNeverDuplicates
        BY <2>1, <2>2, <2>3, <2>4
        DEF Uploaded, Marked, ReadyHasText, ResultHolds, LeaseNeverDuplicates
    <2>6. Unforced
        BY <2>1, <2>2, <2>3 DEF Unforced
    <2>7. CompletedMeansReadable
        BY <2>1, <2>3 DEF CompletedMeansReadable, Reader
    <2> QED BY <2>5, <2>6, <2>7 DEF ReaderInv
<1> QED BY <1>1, TypeCorrect, ReaderStep, PTL DEF Spec

\* However often leases expire and workers crash, an attachment that nobody has
\* reset is converted by one worker at a time.
THEOREM LeasesNeverDuplicate == Spec => []LeaseNeverDuplicates
<1>1. ReaderInv => LeaseNeverDuplicates
    BY DEF ReaderInv
<1> QED BY <1>1, ReaderInvHolds, PTL

\* A completed job of such an attachment has a readable artifact, unless a run
\* that had read the artifact earlier has claimed it when it was ready.
THEOREM CompletedIsReadable == Spec => []CompletedMeansReadable
<1>1. ReaderInv => CompletedMeansReadable
    BY DEF ReaderInv
<1> QED BY <1>1, ReaderInvHolds, PTL

-----------------------------------------------------------------------------
(* The force flag. *)

ForcedRunEnds(a) ==
    \E w \in Workers : /\ workers[w].pc = "settling" /\ workers'[w].pc = "idle"
                       /\ workers[w].att = a /\ workers[w].job.force
                       /\ workers[w].result = "ready"

ForceStays(a) ==
    Reader(a).force /\ Reader(a)'.status # "absent" => Reader(a)'.force \/ ForcedRunEnds(a)

LEMMA ForceStep ==
    ASSUME TypeOK, Held, [Next]_vars, NEW a \in Attachments
    PROVE  ForceStays(a)
<1> USE DEF TypeOK
<1>0. /\ "reader_html" \in Types /\ jobs["reader_html"] \in [Attachments -> Job]
      /\ \A b \in Attachments : Reader(b) \in Job
      /\ \A w \in Workers : /\ workers[w].turn \in Types /\ workers[w].job \in Job
                            /\ workers[w].result \in ArtifactStatuses \cup {"error"}
                            /\ workers[w].recovered \in [Attachments -> {"no", "pending", "failed"}]
    BY DEF Types, Reader, Worker
<1>1. CASE jobs' = jobs
    BY <1>1 DEF ForceStays, Reader
<1>2. ASSUME NEW b \in Attachments, NEW f \in BOOLEAN, Enqueue(b, f), jobs' # jobs
      PROVE  ForceStays(a)
    <2>1. jobs' = [jobs EXCEPT !["reader_html"][b] = Pending(Reader(b), f)]
        BY <1>2 DEF Enqueue, Reader
    <2>2. Pending(Reader(b), f).force = (Reader(b).force \/ f)
        BY ONLY <1>0, f \in BOOLEAN, b \in Attachments, PendingType
    <2> QED BY <2>1, <2>2, ReaderUpdate DEF ForceStays
<1>3. ASSUME NEW b \in Attachments, EnqueuePdf(b) PROVE ForceStays(a)
    <2>1. Reader(a)' = Reader(a)
        BY <1>3 DEF EnqueuePdf, Reader, Types
    <2> QED BY <2>1 DEF ForceStays
<1>4. ASSUME NEW b \in Attachments, Delete(b) PROVE ForceStays(a)
    <2>1. Reader(a)' = IF a = b THEN NoJob ELSE Reader(a)
        BY <1>0, <1>4 DEF Delete, Reader
    <2> QED BY <2>1 DEF ForceStays, NoJob
<1>5. ASSUME NEW b \in Attachments, NEW f \in BOOLEAN, NEW r \in BOOLEAN, Requeue(b, f, r)
      PROVE  ForceStays(a)
    <2>1. jobs' = [jobs EXCEPT !["reader_html"][b] = Requeued(Reader(b), f, r)]
        BY <1>5 DEF Requeue, Reader
    <2>2. Requeued(Reader(b), f, r).force = (Reader(b).force \/ f)
        BY ONLY <1>0, f \in BOOLEAN, r \in BOOLEAN, b \in Attachments, RequeuedType
    <2> QED BY <2>1, <2>2, ReaderUpdate DEF ForceStays
<1>6. ASSUME NEW w \in Workers, NEW b \in Attachments, Claim(w, b) PROVE ForceStays(a)
    <2> DEFINE stale == workers[w].recovered
               job == Claimed(jobs["reader_html"][b])
               table == [jobs["reader_html"] EXCEPT ![b] = job]
    <2>1. jobs' = [jobs EXCEPT !["reader_html"] = Flushed(table, stale)]
        BY <1>6 DEF Claim, ClaimMatches
    <2>2. job \in Job /\ job.force = Reader(b).force
        BY <1>0, ClaimedType DEF Reader
    <2> HIDE DEF job, stale
    <2>3. table \in [Attachments -> Job]
        BY <1>0, <2>2
    <2>4. table[a].force = Reader(a).force
        <3>1. CASE a = b
            BY <1>0, <2>2, <3>1
        <3>2. CASE a # b
            <4>1. table[a] = Reader(a)
                BY <1>0, <3>2 DEF Reader
            <4> QED BY <4>1
        <3> QED BY <3>1, <3>2
    <2> HIDE DEF table
    <2>5. Reader(a)' = Flushed(table, stale)[a]
        BY <1>0, <2>1 DEF Reader
    <2>6. Flushed(table, stale)[a].force = table[a].force
        BY <1>0, <2>3, FlushedType DEF stale
    <2> QED BY <2>4, <2>5, <2>6 DEF ForceStays
<1>7. ASSUME NEW w \in Workers, EndBatch(w) PROVE ForceStays(a)
    <2> DEFINE stale == workers[w].recovered
    <2>1. Reader(a)' = Reader(a) \/ Reader(a)' = Flushed(jobs["reader_html"], stale)[a]
        BY <1>0, <1>7 DEF EndBatch, Reader
    <2>2. Flushed(jobs["reader_html"], stale)[a].force = Reader(a).force
        BY <1>0, FlushedType DEF Reader
    <2> QED BY <2>1, <2>2 DEF ForceStays
<1>8. ASSUME NEW w \in Workers, Settle(w), jobs' # jobs PROVE ForceStays(a)
    <2>1. PICK b \in Attachments : b = workers[w].att
        BY <1>8 DEF Settle, Held
    <2> DEFINE next == Settled(workers[w].job, workers[w].result, Reader(b))
    <2>2. jobs' = [jobs EXCEPT !["reader_html"][b] = next]
        BY <1>8, <2>1 DEF Settle, Reader
    <2>3. Reader(b).force /\ ~next.force => workers[w].job.force /\ workers[w].result = "ready"
        BY <1>0, SettledType
    <2>4. workers[w].pc = "settling" /\ workers'[w].pc = "idle"
        BY <1>8 DEF Settle, Done, Idle
    <2> HIDE DEF next
    <2> QED BY <2>1, <2>2, <2>3, <2>4, ReaderUpdate DEF ForceStays, ForcedRunEnds
<1>9. ASSUME NEW w \in Workers, SettleFails(w), jobs' # jobs PROVE ForceStays(a)
    <2>1. PICK b \in Attachments : b = workers[w].att
        BY <1>9 DEF SettleFails, Held
    <2> DEFINE next == [Reader(b) EXCEPT !.status = RetryOrFail(Reader(b).attempts)]
    <2>2. jobs' = [jobs EXCEPT !["reader_html"][b] = next]
        BY <1>9, <2>1 DEF SettleFails, Reader
    <2>3. next.force = Reader(b).force
        BY <1>0 DEF Job
    <2> HIDE DEF next
    <2> QED BY <2>2, <2>3, ReaderUpdate DEF ForceStays
<1>10. CASE UNCHANGED vars
    BY <1>1, <1>10 DEF vars
<1>11. ASSUME NEW b \in Attachments, NEW f \in BOOLEAN,
              Upload(b) \/ View(b, f) \/ RequestDies(b, f) \/ LeaseExpires(b)
       PROVE  jobs' = jobs
    BY <1>11 DEF Upload, View, RequestDies, LeaseExpires
<1>12. ASSUME NEW w \in Workers, NEW ok \in BOOLEAN,
              Poll(w) \/ Load(w) \/ Examine(w) \/ Open(w) \/ Generate(w, ok) \/ GenerateErrors(w)
                \/ LoadStatus(w) \/ Crash(w)
       PROVE  jobs' = jobs
    BY <1>12 DEF Poll, Load, Examine, Open, Generate, GenerateErrors, LoadStatus, Crash
<1> QED
    BY <1>1, <1>2, <1>3, <1>4, <1>5, <1>6, <1>7, <1>8, <1>9, <1>10, <1>11, <1>12
    DEF Next, Run

\* Whatever the number of retries and of forced requests, the flag of a job is
\* cleared by a forced run that has succeeded and by nothing else.  The flag is
\* all it speaks of: it does not promise that the run it asks for takes place.
THEOREM ForceClearedByForcedRuns == Spec => OnlyForcedRunsClearForce
<1>1. TypeOK /\ Held /\ [Next]_vars =>
        [\A a \in Attachments :
            /\ jobs["reader_html"][a].force
            /\ jobs'["reader_html"][a].status # "absent"
            /\ ~jobs'["reader_html"][a].force
            => \E w \in Workers : /\ workers[w].pc = "settling" /\ workers'[w].pc = "idle"
                                  /\ workers[w].att = a /\ workers[w].job.force
                                  /\ workers[w].result = "ready"]_vars
    BY ForceStep DEF ForceStays, ForcedRunEnds, Reader
<1> QED BY <1>1, TypeCorrect, PTL DEF Spec, OnlyForcedRunsClearForce

=============================================================================
