----------------------------- MODULE Idempotency -----------------------------
(***************************************************************************)
(* The middleware that makes selected writes safe to retry: one row per    *)
(* Idempotency-Key, method, path and user, that says whether the request   *)
(* is running, failed or has a response to replay.                         *)
(*   backend/app/middleware/idempotency.py                                 *)
(*   backend/app/workers/cleanup_worker.py (the purge of old rows)         *)
(*                                                                         *)
(* One key.  Several clients, or one client and its retries, send it to    *)
(* server processes that share the table; the row is read in one statement *)
(* and written in a later one.                                             *)
(***************************************************************************)
EXTENDS Naturals, FiniteSets

CONSTANTS
    Clients,      \* senders of the key; each repeats its request until it has
                  \* an answer below 500 that is not a refusal
    Payloads,     \* request hashes
    PayloadOf,    \* the hash of each client's request
    None,         \* no response
    MaxFaults,    \* bound: failed runs and process deaths
    MaxPurges     \* bound: purges of the row

ASSUME ClientsAssumption == IsFiniteSet(Clients) /\ None \notin Clients
ASSUME PayloadAssumption == PayloadOf \in [Clients -> Payloads] /\ None \notin Payloads
ASSUME BoundsAssumption == MaxFaults \in Nat /\ MaxPurges \in Nat

VARIABLES
    record,   \* the row of the key
    clients,  \* where each client's request stands
    effects,  \* ghost: how often the endpoint committed its write
    ended,    \* ghost: the outcomes recorded of each client's runs
    excused,  \* ghost: a run failed, died or ran late, or the row was purged
    faults, purges

vars == <<record, clients, effects, ended, excused, faults, purges>>

\* id: the primary key, new for each row inserted; late: processing_started_at
\* is more than _PROCESSING_TIMEOUT ago; response: the client whose run
\* produced the stored response.
Record == [id       : Nat,
           status   : {"absent", "processing", "completed", "failed"},
           hash     : Payloads \cup {None},
           response : Clients \cup {None},
           late     : BOOLEAN]

\* seen: the row that dispatch looked up; outcome: what call_next came to;
\* answer: the client whose response was returned.
Client == [pc      : {"idle", "looked", "running", "ran", "replayed", "mismatch", "own"},
           seen    : Record,
           outcome : {"none", "reached", "rejected", "error"},
           answer  : Clients \cup {None}]

NoRow(id) == [id |-> id, status |-> "absent", hash |-> None,
              response |-> None, late |-> FALSE]

Idle == [pc |-> "idle", seen |-> NoRow(0), outcome |-> "none", answer |-> None]

Init ==
    /\ record = NoRow(0)
    /\ clients = [c \in Clients |-> Idle]
    /\ effects = 0
    /\ ended = [c \in Clients |-> {}]
    /\ excused = FALSE
    /\ faults = 0 /\ purges = 0

--------------------------------------------------------------------------
(* dispatch, up to call_next. *)

\* The query for the row of the key.
Lookup(c) ==
    /\ clients[c].pc = "idle"
    /\ clients' = [clients EXCEPT ![c] = [Idle EXCEPT !.pc = "looked", !.seen = record]]
    /\ UNCHANGED <<record, effects, ended, excused, faults, purges>>

\* The row read has another request_hash: 409.
Mismatch(c) ==
    /\ clients[c].pc = "looked"
    /\ clients[c].seen.hash \notin {None, PayloadOf[c]}
    /\ clients' = [clients EXCEPT ![c] = [Idle EXCEPT !.pc = "mismatch"]]
    /\ UNCHANGED <<record, effects, ended, excused, faults, purges>>

Replayable(row) == row.status = "completed" /\ row.response # None

\* Mutant: the hash is not compared.
ReplayAny(c) ==
    /\ clients[c].pc = "looked"
    /\ Replayable(clients[c].seen)
    /\ clients' = [clients EXCEPT ![c] =
            [Idle EXCEPT !.pc = "replayed", !.answer = clients[c].seen.response]]
    /\ UNCHANGED <<record, effects, ended, excused, faults, purges>>

\* The row read has a response: it is returned as it was read.
Replay(c) ==
    /\ clients[c].pc = "looked"
    /\ clients[c].seen.hash = PayloadOf[c]
    /\ Replayable(clients[c].seen)
    /\ clients' = [clients EXCEPT ![c] =
            [Idle EXCEPT !.pc = "replayed", !.answer = clients[c].seen.response]]
    /\ UNCHANGED <<record, effects, ended, excused, faults, purges>>

\* Mutant: the timeout is compared the wrong way.
InProgressLate(row) == row.status = "processing" /\ row.late

\* Mutant: a run never times out.
InProgressEver(row) == row.status = "processing"

\* Another run holds the row: 409, and the client tries again.
InProgress(row) == row.status = "processing" /\ ~row.late

Refuse(c) ==
    /\ clients[c].pc = "looked"
    /\ clients[c].seen.hash = PayloadOf[c]
    /\ InProgress(clients[c].seen)
    /\ clients' = [clients EXCEPT ![c] = Idle]
    /\ UNCHANGED <<record, effects, ended, excused, faults, purges>>

\* The UPDATE sets what differs from the row that was read: the status of a
\* late run is not among it, nor a response that was not there.
TakenOver(row, seen) ==
    [row EXCEPT !.status = IF seen.status = "processing" THEN @ ELSE "processing",
                !.response = IF seen.response = None THEN @ ELSE None,
                !.late = FALSE]

\* A failed or late row is taken over, without a condition on what it holds
\* now; an UPDATE of a purged row fails and the client tries again.
TakeOver(c) ==
    /\ clients[c].pc = "looked"
    /\ LET seen == clients[c].seen
       IN /\ seen.hash = PayloadOf[c]
          /\ ~Replayable(seen) /\ ~InProgress(seen)
          /\ IF record.id = seen.id /\ record.status # "absent"
               THEN /\ record' = TakenOver(record, seen)
                    /\ clients' = [clients EXCEPT ![c].pc = "running"]
               ELSE /\ clients' = [clients EXCEPT ![c] = Idle]
                    /\ UNCHANGED record
    /\ UNCHANGED <<effects, ended, excused, faults, purges>>

\* No row was read: one is inserted, unless the unique constraint finds
\* another's (409, and the client tries again).
Insert(c) ==
    /\ clients[c].pc = "looked"
    /\ clients[c].seen.status = "absent"
    /\ IF record.status = "absent"
         THEN /\ record' = [NoRow(record.id) EXCEPT !.status = "processing",
                                                    !.hash = PayloadOf[c]]
              /\ clients' = [clients EXCEPT ![c].pc = "running", ![c].seen = record']
         ELSE /\ clients' = [clients EXCEPT ![c] = Idle]
              /\ UNCHANGED record
    /\ UNCHANGED <<effects, ended, excused, faults, purges>>

--------------------------------------------------------------------------
(* call_next and what follows it. *)

\* The endpoint commits and answers below 500.
Reach(c) ==
    /\ clients[c].pc = "running"
    /\ effects' = effects + 1
    /\ clients' = [clients EXCEPT ![c].pc = "ran", ![c].outcome = "reached"]
    /\ UNCHANGED <<record, ended, excused, faults, purges>>

\* A middleware mounted inside this one answers below 500 in the endpoint's
\* place: the rate limiter's 429, the CSRF check's 403.
Reject(c) ==
    /\ clients[c].pc = "running"
    /\ clients' = [clients EXCEPT ![c].pc = "ran", ![c].outcome = "rejected"]
    /\ UNCHANGED <<record, effects, ended, excused, faults, purges>>

\* An exception or a 5xx, before the endpoint's commit or after it.
Fail(c, committed) ==
    /\ clients[c].pc = "running"
    /\ faults < MaxFaults
    /\ faults' = faults + 1
    /\ excused' = TRUE
    /\ effects' = IF committed THEN effects + 1 ELSE effects
    /\ clients' = [clients EXCEPT ![c].pc = "ran", ![c].outcome = "error"]
    /\ UNCHANGED <<record, ended, purges>>

\* Mutant: a failure is recorded under a status nobody reads.
RecordedRaw(row, c, outcome) ==
    IF outcome = "error" THEN [row EXCEPT !.status = "error", !.late = FALSE]
    ELSE [row EXCEPT !.status = "completed", !.response = c, !.late = FALSE]

\* The row as the second session leaves it.
Recorded(row, c, outcome) ==
    IF outcome = "error" THEN [row EXCEPT !.status = "failed", !.late = FALSE]
    ELSE [row EXCEPT !.status = "completed", !.response = c, !.late = FALSE]

\* The outcome is written to the row of this run's id, if it is still there,
\* whoever holds it by now.  A client tries again after an error; what it
\* sends after a rejection is another client's request.
Finish(c) ==
    /\ clients[c].pc = "ran"
    /\ LET outcome == clients[c].outcome
       IN /\ record' = IF record.id = clients[c].seen.id /\ record.status # "absent"
                         THEN Recorded(record, c, outcome) ELSE record
          /\ ended' = [ended EXCEPT ![c] = @ \cup {outcome}]
          /\ clients' = [clients EXCEPT ![c] =
                IF outcome = "error" THEN Idle
                ELSE [Idle EXCEPT !.pc = "own", !.answer = c]]
    /\ UNCHANGED <<effects, excused, faults, purges>>

--------------------------------------------------------------------------
(* Time, deaths and the cleanup worker. *)

\* Five minutes pass since the row's run started, over or not.
RunIsLate ==
    /\ record.status = "processing" /\ ~record.late
    /\ record' = [record EXCEPT !.late = TRUE]
    /\ excused' = TRUE
    /\ UNCHANGED <<clients, effects, ended, faults, purges>>

\* The process that serves the request dies, or the request is cancelled
\* (which the except clause does not catch); the client tries again.
Die(c) ==
    /\ clients[c].pc \in {"looked", "running", "ran"}
    /\ faults < MaxFaults
    /\ faults' = faults + 1
    /\ excused' = TRUE
    /\ clients' = [clients EXCEPT ![c] = Idle]
    /\ UNCHANGED <<record, effects, ended, purges>>

\* purge_stale_idempotency_records: rows go by their age, whatever their status.
Purge ==
    /\ record.status # "absent"
    /\ purges < MaxPurges
    /\ purges' = purges + 1
    /\ record' = NoRow(record.id + 1)
    /\ excused' = TRUE
    /\ UNCHANGED <<clients, effects, ended, faults>>

--------------------------------------------------------------------------

Dispatch(c) ==
    \/ Lookup(c) \/ Mismatch(c) \/ Replay(c) \/ Refuse(c) \/ TakeOver(c) \/ Insert(c)
    \/ Reach(c) \/ Reject(c) \/ Finish(c)

Next ==
    \/ \E c \in Clients : Dispatch(c) \/ Die(c) \/ \E b \in BOOLEAN : Fail(c, b)
    \/ RunIsLate \/ Purge

Spec == Init /\ [][Next]_vars

\* A client repeats its request, a request that is served goes on, time passes.
FairSpec ==
    /\ Spec
    /\ \A c \in Clients : WF_vars(Dispatch(c))
    /\ WF_vars(RunIsLate)

--------------------------------------------------------------------------
(* Properties. *)

\* The row and the requests keep to the values the middleware writes.
TypeOK ==
    /\ record \in Record
    /\ clients \in [Clients -> Client]
    /\ effects \in Nat
    /\ ended \in [Clients -> SUBSET {"reached", "rejected", "error"}]
    /\ excused \in BOOLEAN
    /\ faults \in Nat /\ purges \in Nat

\* What the key is for: as long as no run fails, dies or takes more than five
\* minutes and the row is not purged, the endpoint commits at most once,
\* however the clients' lookups, insertions and answers interleave.
AtMostOneEffect == ~excused => effects <= 1

\* A replayed response is the response to the same payload, of a run that was
\* recorded below 500, and never of one that failed: after a timeout, a
\* takeover, a late runner or a new row with the same key as well.
ReplayIsGenuine ==
    \A c \in Clients : clients[c].pc = "replayed" =>
        LET d == clients[c].answer
        IN /\ d \in Clients
           /\ PayloadOf[d] = PayloadOf[c]
           /\ ended[d] \cap {"reached", "rejected"} # {}

\* A client that repeats its request gets an answer: no key stays "in
\* progress" because the process that held it died or its retry was refused.
EveryClientAnswered ==
    \A c \in Clients : <>(clients[c].pc \in {"replayed", "mismatch", "own"})

=============================================================================
