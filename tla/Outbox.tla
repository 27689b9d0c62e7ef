------------------------------- MODULE Outbox -------------------------------
(***************************************************************************)
(* The transactional outbox of the backend: domain events written in the   *)
(* same transaction as the business change, polled by worker processes,    *)
(* handed to in-process handlers, retried, parked in a dead letter state   *)
(* and put back by an operator.                                            *)
(*   backend/app/services/outbox.py                                        *)
(*   backend/app/repositories/outbox_repository.py                         *)
(*   backend/app/jobs/retry.py, backend/app/jobs/runtime.py                *)
(*                                                                         *)
(* Every action is one transaction of the outbox table, or one step that a *)
(* process takes between two of its transactions.  Writes of the ORM are   *)
(* blind: an UPDATE by primary key of the attributes that differ from the  *)
(* values the process read.  Only the claim is conditional.                *)
(***************************************************************************)
EXTENDS Naturals, FiniteSets

CONSTANTS
    Events,         \* event keys: one row of domain_event_outbox each
    Transactions,   \* business transactions that dispatch one event each
    KeyOf,          \* the event key a transaction's event serializes to
    Workers,        \* outbox worker processes
    Operators,      \* concurrent runs of the DLQ tooling
    None,           \* no event, no transaction
    MaxAttempts,    \* max_attempts of every row
    BatchSize,      \* rows listed by one poll
    SharedDatabase, \* the workers' database is the one the producers write
    MaxRequeues,    \* bound: requeues of one row
    MaxCrashes      \* bound: worker crashes

ASSUME EventsAssumption == IsFiniteSet(Events)
ASSUME KeyOfAssumption == KeyOf \in [Transactions -> Events]
ASSUME NoneAssumption == None \notin Events \cup Transactions
ASSUME MaxAttemptsAssumption == MaxAttempts \in Nat \ {0}
ASSUME BatchSizeAssumption == BatchSize \in Nat \ {0}
ASSUME DatabaseAssumption == SharedDatabase \in BOOLEAN
ASSUME BoundsAssumption == MaxRequeues \in Nat /\ MaxCrashes \in Nat

VARIABLES
    rows,       \* the outbox table
    txs,        \* where each business transaction stands
    workers,    \* each worker's loop: what it listed, what it runs
    operators,  \* the dead letter row each operator has read
    delivered,  \* ghost: how often all handlers of an event completed
    alerted,    \* admins have been notified of the row's dead letter
    requeues,   \* how often each row was put back by an operator
    crashes     \* worker crashes so far

vars == <<rows, txs, workers, operators, delivered, alerted, requeues, crashes>>

Statuses == {"absent", "pending", "processing", "dispatched", "dead_letter"}

\* due: next_attempt_at is null or past; rank: position by (created_at, id);
\* origin: the transaction whose payload the row carries.
Row == [status   : Statuses,
        attempts : Nat,
        due      : BOOLEAN,
        rank     : Nat,
        origin   : Transactions \cup {None}]

Phases == {"idle", "batch", "running", "succeeded", "failed", "poisoned"}

\* attempts: the value loaded with the row after the claim.
Worker == [phase    : Phases,
           batch    : SUBSET Events,
           event    : Events \cup {None},
           attempts : Nat]

AbsentRow == [status |-> "absent", attempts |-> 0, due |-> TRUE,
              rank |-> 0, origin |-> None]
IdleWorker == [phase |-> "idle", batch |-> {}, event |-> None, attempts |-> 0]

Init ==
    /\ rows = [e \in Events |-> AbsentRow]
    /\ txs = [t \in Transactions |-> "idle"]
    /\ workers = [w \in Workers |-> IdleWorker]
    /\ operators = [o \in Operators |-> None]
    /\ delivered = [e \in Events |-> 0]
    /\ alerted = [e \in Events |-> FALSE]
    /\ requeues = [e \in Events |-> 0]
    /\ crashes = 0

-----------------------------------------------------------------------------
(* Producers: OutboxDomainEventDispatcher.dispatch inside a unit of work.  *)

\* enqueue looks the key up first; a row in any status counts as existing.
TxCheck(t) ==
    /\ txs[t] = "idle"
    /\ txs' = [txs EXCEPT ![t] =
                 IF rows[KeyOf[t]].status = "absent" THEN "fresh" ELSE "duplicate"]
    /\ UNCHANGED <<rows, workers, operators, delivered, alerted, requeues, crashes>>

RowCount == Cardinality({e \in Events : rows[e].status # "absent"})

\* Mutant: the row is committed before the business change.
TxInsertAhead(t) ==
    /\ txs[t] = "fresh"
    /\ rows[KeyOf[t]].status = "absent"
    /\ rows' = [rows EXCEPT ![KeyOf[t]] =
                  [status |-> "pending", attempts |-> 0, due |-> TRUE,
                   rank |-> RowCount + 1, origin |-> t]]
    /\ txs' = [txs EXCEPT ![t] = "duplicate"]
    /\ UNCHANGED <<workers, operators, delivered, alerted, requeues, crashes>>

\* The business change and the new row commit together.
TxInsert(t) ==
    /\ txs[t] = "fresh"
    /\ rows[KeyOf[t]].status = "absent"
    /\ rows' = [rows EXCEPT ![KeyOf[t]] =
                  [status |-> "pending", attempts |-> 0, due |-> TRUE,
                   rank |-> RowCount + 1, origin |-> t]]
    /\ txs' = [txs EXCEPT ![t] = "committed"]
    /\ UNCHANGED <<workers, operators, delivered, alerted, requeues, crashes>>

\* The key existed already: the transaction commits and writes no row.
TxDeduplicate(t) ==
    /\ txs[t] = "duplicate"
    /\ txs' = [txs EXCEPT ![t] = "committed"]
    /\ UNCHANGED <<rows, workers, operators, delivered, alerted, requeues, crashes>>

\* The unique index rejects a second insert, or the business change fails for
\* a reason of its own: all of it is rolled back.
TxRollback(t) ==
    /\ txs[t] \in {"fresh", "duplicate"}
    /\ txs' = [txs EXCEPT ![t] = "rolled_back"]
    /\ UNCHANGED <<rows, workers, operators, delivered, alerted, requeues, crashes>>

-----------------------------------------------------------------------------
(* Workers: process_pending_outbox_events_batch in run_polling_worker.     *)

\* Producers use the core session, workers AnalyticsSessionLocal: with an
\* ANALYTICS_DATABASE_URL of its own the table that is polled stays empty.
Runnable(e) == SharedDatabase /\ rows[e].status = "pending" /\ rows[e].due

\* The oldest BatchSize runnable rows.
Candidates ==
    LET runnable == {e \in Events : Runnable(e)}
    IN {e \in runnable :
          Cardinality({f \in runnable : rows[f].rank < rows[e].rank}) < BatchSize}

\* Back to the loop over what is left of the batch, or to the next poll.
Resume(batch) ==
    [IdleWorker EXCEPT !.phase = IF batch = {} THEN "idle" ELSE "batch",
                       !.batch = batch]

Poll(w) ==
    /\ workers[w].phase = "idle"
    /\ Candidates # {}
    /\ workers' = [workers EXCEPT ![w] = Resume(Candidates)]
    /\ UNCHANGED <<rows, txs, operators, delivered, alerted, requeues, crashes>>

\* The next row of the list, in the order of the list.
Upcoming(w, e) ==
    /\ workers[w].phase = "batch"
    /\ e \in workers[w].batch
    /\ \A f \in workers[w].batch : rows[e].rank <= rows[f].rank

\* Mutant: the claim is an UPDATE by id.
ClaimListed(w, e) ==
    /\ Upcoming(w, e)
    /\ rows' = [rows EXCEPT ![e].status = "processing",
                            ![e].due = TRUE,
                            ![e].attempts = @ + 1]
    /\ workers' = [workers EXCEPT ![w] =
                     [phase |-> "running", batch |-> @.batch \ {e},
                      event |-> e, attempts |-> rows[e].attempts + 1]]
    /\ UNCHANGED <<txs, operators, delivered, alerted, requeues, crashes>>

\* Mutant: the retry decision uses the attempts that were listed.
ClaimUnread(w, e) ==
    /\ Upcoming(w, e)
    /\ Runnable(e)
    /\ rows' = [rows EXCEPT ![e].status = "processing",
                            ![e].due = TRUE,
                            ![e].attempts = @ + 1]
    /\ workers' = [workers EXCEPT ![w] =
                     [phase |-> "running", batch |-> @.batch \ {e},
                      event |-> e, attempts |-> rows[e].attempts]]
    /\ UNCHANGED <<txs, operators, delivered, alerted, requeues, crashes>>

\* claim_pending matched: the row is committed as processing and read back.
Claim(w, e) ==
    /\ Upcoming(w, e)
    /\ Runnable(e)
    /\ rows' = [rows EXCEPT ![e].status = "processing",
                            ![e].due = TRUE,
                            ![e].attempts = @ + 1]
    /\ workers' = [workers EXCEPT ![w] =
                     [phase |-> "running", batch |-> @.batch \ {e},
                      event |-> e, attempts |-> rows[e].attempts + 1]]
    /\ UNCHANGED <<txs, operators, delivered, alerted, requeues, crashes>>

\* claim_pending matched no row: the list was stale for this row.
Skip(w, e) ==
    /\ Upcoming(w, e)
    /\ ~Runnable(e)
    /\ workers' = [workers EXCEPT ![w] = Resume(@.batch \ {e})]
    /\ UNCHANGED <<rows, txs, operators, delivered, alerted, requeues, crashes>>

\* Every handler returned; what they did outside of this session stays done.
HandlersReturn(w) ==
    /\ workers[w].phase = "running"
    /\ workers' = [workers EXCEPT ![w].phase = "succeeded"]
    /\ delivered' = [delivered EXCEPT ![workers[w].event] = @ + 1]
    /\ UNCHANGED <<rows, txs, operators, alerted, requeues, crashes>>

\* A handler raised, after none or some of the others completed.
HandlersRaise(w) ==
    /\ workers[w].phase = "running"
    /\ \E outcome \in {"failed", "poisoned"} :
         workers' = [workers EXCEPT ![w].phase = outcome]
    /\ UNCHANGED <<rows, txs, operators, delivered, alerted, requeues, crashes>>

\* Mutant: the mark also follows a failure.
MarkAnyDispatched(w) ==
    /\ workers[w].phase \in {"succeeded", "failed"}
    /\ rows' = [rows EXCEPT ![workers[w].event].status = "dispatched"]
    /\ workers' = [workers EXCEPT ![w] = Resume(@.batch)]
    /\ UNCHANGED <<txs, operators, delivered, alerted, requeues, crashes>>

MarkDispatched(w) ==
    /\ workers[w].phase = "succeeded"
    /\ rows' = [rows EXCEPT ![workers[w].event].status = "dispatched"]
    /\ workers' = [workers EXCEPT ![w] = Resume(@.batch)]
    /\ UNCHANGED <<txs, operators, delivered, alerted, requeues, crashes>>

\* Mutant: one attempt too many.
GivesUpLate(w) ==
    \/ workers[w].phase = "poisoned"
    \/ workers[w].phase = "failed" /\ workers[w].attempts > MaxAttempts

\* evaluate_retry on the attempts loaded after the claim.
GivesUp(w) ==
    \/ workers[w].phase = "poisoned"
    \/ workers[w].phase = "failed" /\ workers[w].attempts >= MaxAttempts

\* Mutant: a failed attempt is called "failed".
MarkFailed(w) ==
    /\ workers[w].phase = "failed"
    /\ ~GivesUp(w)
    /\ \E due \in BOOLEAN :
         rows' = [rows EXCEPT ![workers[w].event].status = "failed",
                              ![workers[w].event].due = due]
    /\ workers' = [workers EXCEPT ![w] = Resume(@.batch)]
    /\ UNCHANGED <<txs, operators, delivered, alerted, requeues, crashes>>

\* Mutant: only next_attempt_at is set.
MarkDelay(w) ==
    /\ workers[w].phase = "failed"
    /\ ~GivesUp(w)
    /\ \E due \in BOOLEAN :
         rows' = [rows EXCEPT ![workers[w].event].status = "processing",
                              ![workers[w].event].due = due]
    /\ workers' = [workers EXCEPT ![w] = Resume(@.batch)]
    /\ UNCHANGED <<txs, operators, delivered, alerted, requeues, crashes>>

\* A delay of zero seconds leaves the row due at once.
MarkRetry(w) ==
    /\ workers[w].phase = "failed"
    /\ ~GivesUp(w)
    /\ \E due \in BOOLEAN :
         rows' = [rows EXCEPT ![workers[w].event].status = "pending",
                              ![workers[w].event].due = due]
    /\ workers' = [workers EXCEPT ![w] = Resume(@.batch)]
    /\ UNCHANGED <<txs, operators, delivered, alerted, requeues, crashes>>

\* Mutant: admins are not notified.
MarkQuietly(w) ==
    /\ GivesUp(w)
    /\ rows' = [rows EXCEPT ![workers[w].event].status = "dead_letter"]
    /\ workers' = [workers EXCEPT ![w] = Resume(@.batch)]
    /\ UNCHANGED <<txs, operators, delivered, alerted, requeues, crashes>>

\* Mutant: the row is closed like a delivered one.
MarkClosed(w) ==
    /\ GivesUp(w)
    /\ rows' = [rows EXCEPT ![workers[w].event].status = "dispatched"]
    /\ alerted' = [alerted EXCEPT ![workers[w].event] = TRUE]
    /\ workers' = [workers EXCEPT ![w] = Resume(@.batch)]
    /\ UNCHANGED <<txs, operators, delivered, requeues, crashes>>

MarkDeadLetter(w) ==
    /\ GivesUp(w)
    /\ rows' = [rows EXCEPT ![workers[w].event].status = "dead_letter"]
    /\ alerted' = [alerted EXCEPT ![workers[w].event] = TRUE]
    /\ workers' = [workers EXCEPT ![w] = Resume(@.batch)]
    /\ UNCHANGED <<txs, operators, delivered, requeues, crashes>>

\* Mutant: what a dead worker held is simply made pending again.
CrashAndRelease(w) ==
    /\ workers[w].phase # "idle"
    /\ crashes < MaxCrashes
    /\ crashes' = crashes + 1
    /\ rows' = [e \in Events |->
                  IF e = workers[w].event THEN [rows[e] EXCEPT !.status = "pending"]
                  ELSE rows[e]]
    /\ workers' = [workers EXCEPT ![w] = IdleWorker]
    /\ UNCHANGED <<txs, operators, delivered, alerted, requeues>>

\* The process dies, or the commit of a mark fails: the exception leaves
\* run_polling_worker and the supervisor starts the worker again.
Crash(w) ==
    /\ workers[w].phase # "idle"
    /\ crashes < MaxCrashes
    /\ crashes' = crashes + 1
    /\ workers' = [workers EXCEPT ![w] = IdleWorker]
    /\ UNCHANGED <<rows, txs, operators, delivered, alerted, requeues>>

\* next_attempt_at passes.
BecomeDue(e) ==
    /\ rows[e].status = "pending"
    /\ ~rows[e].due
    /\ rows' = [rows EXCEPT ![e].due = TRUE]
    /\ UNCHANGED <<txs, workers, operators, delivered, alerted, requeues, crashes>>

-----------------------------------------------------------------------------
(* Operators: requeue_dead_letter_outbox_entry reads, then writes.         *)

\* Mutant: any finished row can be put back.
RequeueReadAny(o, e) ==
    /\ operators[o] = None
    /\ rows[e].status \in {"dispatched", "dead_letter"}
    /\ requeues[e] < MaxRequeues
    /\ operators' = [operators EXCEPT ![o] = e]
    /\ UNCHANGED <<rows, txs, workers, delivered, alerted, requeues, crashes>>

RequeueRead(o, e) ==
    /\ operators[o] = None
    /\ rows[e].status = "dead_letter"
    /\ requeues[e] < MaxRequeues
    /\ operators' = [operators EXCEPT ![o] = e]
    /\ UNCHANGED <<rows, txs, workers, delivered, alerted, requeues, crashes>>

RequeueWrite(o, reset) ==
    /\ operators[o] # None
    /\ rows' = [rows EXCEPT ![operators[o]].status = "pending",
                            ![operators[o]].attempts = IF reset THEN 0 ELSE @]
    /\ requeues' = [requeues EXCEPT ![operators[o]] = @ + 1]
    /\ operators' = [operators EXCEPT ![o] = None]
    /\ UNCHANGED <<txs, workers, delivered, alerted, crashes>>

-----------------------------------------------------------------------------
ProducerStep(t) == TxCheck(t) \/ TxInsert(t) \/ TxDeduplicate(t) \/ TxRollback(t)

WorkerStep(w) ==
    \/ Poll(w)
    \/ \E e \in Events : Claim(w, e) \/ Skip(w, e)
    \/ HandlersReturn(w)
    \/ HandlersRaise(w)
    \/ MarkDispatched(w)
    \/ MarkRetry(w)
    \/ MarkDeadLetter(w)

OperatorStep(o) ==
    \/ \E e \in Events : RequeueRead(o, e)
    \/ \E reset \in BOOLEAN : RequeueWrite(o, reset)

Next ==
    \/ \E t \in Transactions : ProducerStep(t)
    \/ \E w \in Workers : WorkerStep(w) \/ Crash(w)
    \/ \E e \in Events : BecomeDue(e)
    \/ \E o \in Operators : OperatorStep(o)

Spec == Init /\ [][Next]_vars

\* The polling loop of every worker runs, its handlers end, and time passes.
\* Nothing is assumed of producers and operators.
Fairness ==
    /\ \A w \in Workers : WF_vars(WorkerStep(w))
    /\ \A e \in Events : WF_vars(BecomeDue(e))

FairSpec == Spec /\ Fairness

-----------------------------------------------------------------------------
(* Properties.                                                             *)

\* The shape of the tables and of the processes' local state.
TypeOK ==
    /\ rows \in [Events -> Row]
    /\ txs \in [Transactions ->
                 {"idle", "fresh", "duplicate", "committed", "rolled_back"}]
    /\ workers \in [Workers -> Worker]
    /\ operators \in [Operators -> Events \cup {None}]
    /\ delivered \in [Events -> Nat]
    /\ alerted \in [Events -> BOOLEAN]
    /\ requeues \in [Events -> Nat]
    /\ crashes \in Nat

\* With one operator at a time, no event is in the hands of two workers, and
\* the row of an event that a worker runs stays "processing": the conditional
\* claim of claim_pending is the only mutual exclusion there is, and neither
\* a stale candidate list nor a requeue may defeat it.
ClaimExclusive ==
    /\ \A w \in Workers :
         workers[w].event # None => rows[workers[w].event].status = "processing"
    /\ \A v, w \in Workers :
         workers[v].event # None /\ workers[v].event = workers[w].event => v = w

\* "dispatched" is never a lie: the row got there only after every handler
\* completed.
DispatchedWasDelivered ==
    \A e \in Events : rows[e].status = "dispatched" => delivered[e] >= 1

\* "dispatched" is final: no retry, late mark or requeue takes it back.
DispatchedIsFinal ==
    [][\A e \in Events :
         rows[e].status = "dispatched" => rows'[e].status = "dispatched"]_vars

\* Attempts are charged once per claim: across stale lists, retries, crashes
\* and requeues that keep the count, a row is tried at most MaxAttempts times
\* and once more for every requeue.
AttemptBudget ==
    \A e \in Events : rows[e].attempts <= MaxAttempts + requeues[e]

\* The table mirrors the committed business changes: every row carries the
\* payload of a transaction that committed, and the key of every committed
\* transaction has a row, also when two transactions race for one key.
TransactionalOutbox ==
    /\ \A e \in Events :
         rows[e].status # "absent" =>
           rows[e].origin # None /\ txs[rows[e].origin] = "committed"
    /\ \A t \in Transactions :
         txs[t] = "committed" => rows[KeyOf[t]].status # "absent"

\* An operator only ever finds, and only ever puts back, an event that admins
\* were told about and that no worker holds.
RequeueIsAnnounced ==
    \A o \in Operators :
      operators[o] # None =>
        /\ alerted[operators[o]]
        /\ rows[operators[o]].status = "dead_letter"
        /\ \A w \in Workers : workers[w].event # operators[o]

\* What ties the processes' local state to the table: the parts that make the
\* properties above inductive.
Held(w) == workers[w].event # None

HeldPhase ==
    \A w \in Workers : Held(w) <=> workers[w].phase \notin {"idle", "batch"}

\* Completed handlers are known to the row or to the worker that ran them.
DeliveryKnown ==
    /\ \A e \in Events :
         delivered[e] > 0 => /\ delivered[e] = 1
                            /\ rows[e].status \in {"processing", "dispatched"}
    /\ \A w \in Workers :
         Held(w) => (workers[w].phase = "succeeded" <=> delivered[workers[w].event] > 0)

\* A worker decides on the row's own count, and a pending row has one left.
AttemptsLeft ==
    /\ \A w \in Workers :
         Held(w) => workers[w].attempts = rows[workers[w].event].attempts
    /\ \A e \in Events :
         rows[e].status \in {"absent", "pending"} =>
           rows[e].attempts < MaxAttempts + requeues[e]

\* Rows stay: what a process remembers of the table exists.
RowsStay ==
    /\ \A t \in Transactions :
         txs[t] = "duplicate" => rows[KeyOf[t]].status # "absent"
    /\ \A w \in Workers : Held(w) => rows[workers[w].event].status # "absent"
    /\ \A o \in Operators :
         operators[o] # None => rows[operators[o]].status # "absent"

Announced == \A e \in Events : rows[e].status = "dead_letter" => alerted[e]

Bookkeeping == HeldPhase /\ DeliveryKnown /\ AttemptsLeft /\ RowsStay /\ Announced

\* The event as the abstract specification sees it: done from the moment its
\* handlers completed, whatever becomes of the row afterwards.
Standing(e) ==
    CASE delivered[e] > 0                 -> "done"
      [] rows[e].status = "absent"        -> "none"
      [] rows[e].status = "dead_letter"   -> "parked"
      [] OTHER                            -> "waiting"

Promise == INSTANCE Delivery WITH
    state   <- [e \in Events |-> Standing(e)],
    effects <- delivered

\* The table, the workers and one operator, crashes included, implement
\* at-most-once delivery of each event's complete set of handlers.
AtMostOnce == Promise!Spec

\* Without crashes the fair system implements the fair promise: an event in
\* the table is delivered or given up, however claims and retries interleave.
DeliveredOrParked == Promise!FairSpec

\* Every row that is pending ends up dispatched or in the dead letter state.
Settles ==
    \A e \in Events :
      rows[e].status = "pending" ~>
        rows[e].status \in {"dispatched", "dead_letter"}

=============================================================================
