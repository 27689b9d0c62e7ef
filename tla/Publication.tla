---------------------------- MODULE Publication ----------------------------
(***************************************************************************)
(* What the authors, reviewers and readers of a document are promised of   *)
(* its versions, without rows, requests or audiences.  One text at a time  *)
(* waits for a decision, and neither while it waits nor once it is         *)
(* approved can it be edited.  What becomes public was approved as it is   *)
(* (or overridden, or uploaded to a document that readers can see), and    *)
(* stays as it is.  Readers see a document only if a version is public.    *)
(***************************************************************************)
CONSTANTS
    Versions,
    Texts,
    Overrides   \* whether a version may become public without approval

VARIABLES
    stage,      \* where each version stands
    text,       \* what it says
    verdict,    \* the last word of the reviewers about it
    online      \* readers can see the document

vars == <<stage, text, verdict, online>>

Public == {v \in Versions : stage[v] = "public"}

\* The document may return to its readers, if there is something to read.
MayReturn ==
    \/ UNCHANGED online
    \/ Public # {} /\ online' = TRUE

Init ==
    /\ stage \in [Versions -> {"none", "draft"}]
    /\ text \in [Versions -> Texts]
    /\ verdict = [v \in Versions |-> "none"]
    /\ online = FALSE

Add(v, t) ==
    /\ stage[v] = "none"
    /\ stage' = [stage EXCEPT ![v] = "draft"]
    /\ text' = [text EXCEPT ![v] = t]
    /\ MayReturn
    /\ UNCHANGED verdict

AddPublic(v, t) ==
    /\ stage[v] = "none"
    /\ online
    /\ stage' = [stage EXCEPT ![v] = "public"]
    /\ text' = [text EXCEPT ![v] = t]
    /\ UNCHANGED <<verdict, online>>

Edit(v, t) ==
    /\ stage[v] = "draft"
    /\ verdict[v] \notin {"pending", "approved"}
    /\ text' = [text EXCEPT ![v] = t]
    /\ UNCHANGED <<stage, verdict, online>>

Delete(v) ==
    /\ stage[v] = "draft"
    /\ verdict[v] = "none"
    /\ stage' = [stage EXCEPT ![v] = "deleted"]
    /\ UNCHANGED <<text, verdict, online>>

Submit(v) ==
    /\ stage[v] = "draft"
    /\ \A u \in Versions : verdict[u] # "pending"
    /\ verdict' = [verdict EXCEPT ![v] = "pending"]
    /\ UNCHANGED <<stage, text, online>>

Approve(v) ==
    /\ stage[v] = "draft"
    /\ verdict[v] = "pending"
    /\ verdict' = [verdict EXCEPT ![v] = "approved"]
    /\ MayReturn
    /\ UNCHANGED <<stage, text>>

Refuse(v, outcome) ==
    /\ verdict[v] = "pending"
    /\ verdict' = [verdict EXCEPT ![v] = outcome]
    /\ MayReturn
    /\ UNCHANGED <<stage, text>>

Publish(v) ==
    /\ stage[v] = "draft"
    /\ verdict[v] = "approved" \/ Overrides
    /\ stage' = [stage EXCEPT ![v] = "public"]
    /\ online' = TRUE
    /\ UNCHANGED <<text, verdict>>

Hide ==
    /\ online' = FALSE
    /\ UNCHANGED <<stage, text, verdict>>

Return ==
    /\ MayReturn
    /\ UNCHANGED <<stage, text, verdict>>

Next ==
    \/ \E v \in Versions :
         \/ \E t \in Texts : Add(v, t) \/ AddPublic(v, t) \/ Edit(v, t)
         \/ Delete(v) \/ Submit(v) \/ Approve(v) \/ Publish(v)
         \/ \E outcome \in {"rejected", "cancelled"} : Refuse(v, outcome)
    \/ Hide
    \/ Return

Spec == Init /\ [][Next]_vars

=============================================================================
