-------------------------- MODULE MCReviewWorkflow --------------------------
(* Instances of ReviewWorkflow for TLC. *)
EXTENDS ReviewWorkflow, TLC

ReviewOperations == {"submit", "approve", "reject", "cancel", "assistant_reject"}
VersionOperations ==
    {"create_version", "upload_attachment", "update_version", "delete_version",
     "publish", "force_publish", "schedule", "unschedule", "assistant_unschedule",
     "publish_scheduled", "restore_audience"}
DocumentOperations ==
    {"update_document", "assign_companies", "archive", "restore",
     "reconcile_assignments", "suspend_company", "reactivate_company", "deactivate_company"}

AllOperations == ReviewOperations \cup VersionOperations \cup DocumentOperations

\* Without the one operation that leaves the document's status behind.
ConsistentOperations == AllOperations \ {"assistant_reject"}

\* The approval path and everything that competes with it for a review.
RacingOperations ==
    ReviewOperations \cup {"create_version", "delete_version", "publish"}

\* One reviewer approves and another one rejects.
DecidingOperations == {"submit", "approve", "reject"}

\* Requests are interchangeable; no liveness property is checked with this.
MCSymmetry == Permutations(Requests)

=============================================================================
