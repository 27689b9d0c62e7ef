------------------------------ MODULE MCOutbox ------------------------------
(* Instances of Outbox for TLC. *)
EXTENDS Outbox, TLC

CONSTANTS e1, e2, t1, t2, t3

\* Two transactions of one key (two publications of one version, or two
\* changes of one document row version) and one of its own.
MCSharedKey == t1 :> e1 @@ t2 :> e1 @@ t3 :> e2

MCOwnKeys == t1 :> e1 @@ t2 :> e2

\* Workers are interchangeable; no liveness property is checked with this.
MCSymmetry == Permutations(Workers)

=============================================================================
