---------------------------- MODULE OutboxProofs ----------------------------
(***************************************************************************)
(* Theorems about Outbox for every set of events, transactions, workers    *)
(* and operators and every bound.                                          *)
(***************************************************************************)
EXTENDS Outbox, FiniteSetTheorems, TLAPS

\* Where a worker resumes is a well-formed idle or listing worker.
LEMMA ResumeType ==
    ASSUME NEW batch \in SUBSET Events
    PROVE  /\ Resume(batch) \in Worker
           /\ Resume(batch).event = None
           /\ Resume(batch).phase \in {"idle", "batch"}
    BY DEF Resume, Worker, IdleWorker, Phases

LEMMA CandidatesType == Candidates \in SUBSET Events
    BY DEF Candidates

LEMMA RowCountType == RowCount \in Nat
<1>1. IsFiniteSet({e \in Events : rows[e].status # "absent"})
    BY EventsAssumption, FS_Subset
<1> QED BY <1>1, FS_CardinalityType DEF RowCount

\* Every reachable state has well-formed tables and worker records, for any
\* number of workers and operators.
THEOREM TypeCorrect == Spec => []TypeOK
<1>1. Init => TypeOK
    BY DEF Init, TypeOK, AbsentRow, IdleWorker, Row, Worker, Statuses, Phases
<1>2. TypeOK /\ [Next]_vars => TypeOK'
    <2> SUFFICES ASSUME TypeOK, [Next]_vars PROVE TypeOK'
        OBVIOUS
    <2> USE DEF TypeOK, Row, Statuses
    <2>1. ASSUME NEW t \in Transactions, ProducerStep(t) PROVE TypeOK'
        <3>0. KeyOf[t] \in Events
            BY KeyOfAssumption
        <3>1. CASE TxCheck(t)
            BY <3>0, <3>1 DEF TxCheck
        <3>2. CASE TxInsert(t)
            BY <3>0, <3>2, RowCountType DEF TxInsert
        <3>3. CASE TxDeduplicate(t)
            BY <3>3 DEF TxDeduplicate
        <3>4. CASE TxRollback(t)
            BY <3>4 DEF TxRollback
        <3> QED BY <2>1, <3>1, <3>2, <3>3, <3>4 DEF ProducerStep
    <2>2. ASSUME NEW w \in Workers, WorkerStep(w) \/ Crash(w) PROVE TypeOK'
        <3>0. /\ workers[w] \in Worker
              /\ workers[w].batch \in SUBSET Events
              /\ workers[w].event \in Events \cup {None}
            BY DEF Worker
        <3>1. CASE Poll(w)
            BY <3>1, CandidatesType, ResumeType DEF Poll
        <3>2. ASSUME NEW e \in Events, Claim(w, e) PROVE TypeOK'
            BY <3>0, <3>2 DEF Claim, Worker, Phases
        <3>3. ASSUME NEW e \in Events, Skip(w, e) PROVE TypeOK'
            BY <3>0, <3>3, ResumeType DEF Skip
        <3>4. CASE HandlersReturn(w)
            <4>1. workers' \in [Workers -> Worker]
                BY <3>4 DEF HandlersReturn, Worker, Phases
            <4>2. delivered' \in [Events -> Nat]
                <5>1. CASE workers[w].event \in Events
                    BY <5>1, <3>4 DEF HandlersReturn
                <5>2. CASE workers[w].event = None
                    BY <5>2, <3>4, NoneAssumption DEF HandlersReturn
                <5> QED BY <3>0, <5>1, <5>2
            <4> QED BY <4>1, <4>2, <3>4 DEF HandlersReturn
        <3>5. CASE HandlersRaise(w)
            BY <3>5 DEF HandlersRaise, Worker, Phases
        <3>6. CASE MarkDispatched(w)
            BY <3>0, <3>6, ResumeType DEF MarkDispatched
        <3>7. CASE MarkRetry(w)
            <4>1. rows' \in [Events -> Row]
                <5> PICK due \in BOOLEAN :
                       rows' = [rows EXCEPT ![workers[w].event].status = "pending",
                                            ![workers[w].event].due = due]
                    BY <3>7 DEF MarkRetry
                <5>1. CASE workers[w].event \in Events /\ due = TRUE
                    BY <5>1
                <5>2. CASE workers[w].event \in Events /\ due = FALSE
                    BY <5>2
                <5>3. CASE workers[w].event = None
                    BY <5>3, NoneAssumption
                <5> QED BY <3>0, <5>1, <5>2, <5>3
            <4>2. workers' \in [Workers -> Worker]
                BY <3>0, <3>7, ResumeType DEF MarkRetry
            <4> QED BY <4>1, <4>2, <3>7 DEF MarkRetry
        <3>8. CASE MarkDeadLetter(w)
            BY <3>0, <3>8, ResumeType DEF MarkDeadLetter
        <3>9. CASE Crash(w)
            BY <3>9 DEF Crash, IdleWorker, Worker, Phases
        <3> QED
            BY <2>2, <3>1, <3>2, <3>3, <3>4, <3>5, <3>6, <3>7, <3>8, <3>9
            DEF WorkerStep
    <2>3. ASSUME NEW e \in Events, BecomeDue(e) PROVE TypeOK'
        BY <2>3 DEF BecomeDue
    <2>4. ASSUME NEW o \in Operators, OperatorStep(o) PROVE TypeOK'
        <3>1. ASSUME NEW e \in Events, RequeueRead(o, e) PROVE TypeOK'
            BY <3>1 DEF RequeueRead
        <3>2. ASSUME NEW reset \in BOOLEAN, RequeueWrite(o, reset) PROVE TypeOK'
            <4>1. operators[o] \in Events
                BY <3>2 DEF RequeueWrite
            <4>2. rows[operators[o]] \in Row
                BY <4>1
            <4>3. rows' \in [Events -> Row]
                BY <4>1, <4>2, <3>2 DEF RequeueWrite
            <4>4. requeues' \in [Events -> Nat]
                BY <4>1, <3>2 DEF RequeueWrite
            <4> QED BY <4>3, <4>4, <3>2 DEF RequeueWrite
        <3> QED BY <2>4, <3>1, <3>2 DEF OperatorStep
    <2>5. CASE UNCHANGED vars
        BY <2>5 DEF vars
    <2> QED BY <2>1, <2>2, <2>3, <2>4, <2>5 DEF Next
<1> QED BY <1>1, <1>2, PTL DEF Spec

-----------------------------------------------------------------------------
(* The table mirrors the committed transactions.                           *)

ProducerInv == TransactionalOutbox /\ RowsStay

\* Every row comes from a committed transaction and every committed
\* transaction's key has a row, whatever workers, crashes and operators do.
THEOREM OutboxIsTransactional == Spec => [](TransactionalOutbox /\ RowsStay)
<1>1. Init => ProducerInv
    BY KeyOfAssumption, NoneAssumption
    DEF Init, ProducerInv, TransactionalOutbox, RowsStay, AbsentRow, IdleWorker, Held
<1>2. TypeOK /\ ProducerInv /\ [Next]_vars => ProducerInv'
    <2> SUFFICES ASSUME TypeOK, ProducerInv, [Next]_vars PROVE ProducerInv'
        OBVIOUS
    <2> USE DEF TypeOK, ProducerInv, TransactionalOutbox, RowsStay, Held
    <2>1. ASSUME NEW t \in Transactions, ProducerStep(t) PROVE ProducerInv'
        <3>0. KeyOf[t] \in Events /\ \A s \in Transactions : KeyOf[s] \in Events
            BY KeyOfAssumption
        <3>1. CASE TxCheck(t)
            BY <3>0, <3>1 DEF TxCheck
        <3>2. CASE TxInsert(t)
            <4>1. /\ rows'[KeyOf[t]].status = "pending"
                  /\ rows'[KeyOf[t]].origin = t
                  /\ \A e \in Events \ {KeyOf[t]} : rows'[e] = rows[e]
                BY <3>0, <3>2 DEF TxInsert
            <4>2. /\ txs'[t] = "committed"
                  /\ \A s \in Transactions \ {t} : txs'[s] = txs[s]
                BY <3>2 DEF TxInsert
            <4>3. t # None
                BY NoneAssumption
            <4>4. UNCHANGED <<workers, operators>>
                BY <3>2 DEF TxInsert
            <4>5. TransactionalOutbox'
                BY <3>0, <4>1, <4>2, <4>3 DEF Row
            <4>6. RowsStay'
                BY <3>0, <4>1, <4>2, <4>4, NoneAssumption DEF Worker
            <4> QED BY <4>5, <4>6
        <3>3. CASE TxDeduplicate(t)
            BY <3>0, <3>3 DEF TxDeduplicate
        <3>4. CASE TxRollback(t)
            BY <3>0, <3>4 DEF TxRollback
        <3> QED BY <2>1, <3>1, <3>2, <3>3, <3>4 DEF ProducerStep
    <2>2. ASSUME NEW w \in Workers, WorkerStep(w) \/ Crash(w) PROVE ProducerInv'
        <3> DEFINE Kept(e) == /\ rows'[e].origin = rows[e].origin
                              /\ rows'[e].status = "absent" <=> rows[e].status = "absent"
                   Known(v) == \/ workers'[v].event = None
                               \/ workers'[v].event = workers[v].event
                               \/ /\ workers'[v].event \in Events
                                  /\ rows[workers'[v].event].status # "absent"
        <3>0. workers[w].event \in Events \cup {None} /\ workers[w].batch \in SUBSET Events
            BY DEF Worker
        <3>1. UNCHANGED <<txs, operators>>
            BY <2>2 DEF WorkerStep, Poll, Claim, Skip, HandlersReturn, HandlersRaise,
                        MarkDispatched, MarkRetry, MarkDeadLetter, Crash
        <3>2. (\A e \in Events : Kept(e)) /\ (\A v \in Workers : Known(v))
            <4>1. CASE Poll(w)
                BY <4>1, CandidatesType, ResumeType DEF Poll
            <4>2. ASSUME NEW e \in Events, Claim(w, e)
                  PROVE  (\A f \in Events : Kept(f)) /\ (\A v \in Workers : Known(v))
                BY <4>2 DEF Claim, Runnable, Row
            <4>3. ASSUME NEW e \in Events, Skip(w, e)
                  PROVE  (\A f \in Events : Kept(f)) /\ (\A v \in Workers : Known(v))
                BY <3>0, <4>3, ResumeType DEF Skip
            <4>4. CASE HandlersReturn(w)
                BY <4>4 DEF HandlersReturn, Worker
            <4>5. CASE HandlersRaise(w)
                BY <4>5 DEF HandlersRaise, Worker
            <4>6. CASE MarkDispatched(w)
                BY <3>0, <4>6, ResumeType, NoneAssumption DEF MarkDispatched, Row
            <4>7. CASE MarkRetry(w)
                BY <3>0, <4>7, ResumeType, NoneAssumption DEF MarkRetry, Row
            <4>8. CASE MarkDeadLetter(w)
                BY <3>0, <4>8, ResumeType, NoneAssumption DEF MarkDeadLetter, Row
            <4>9. CASE Crash(w)
                BY <4>9 DEF Crash, IdleWorker
            <4> QED
                BY <2>2, <4>1, <4>2, <4>3, <4>4, <4>5, <4>6, <4>7, <4>8, <4>9
                DEF WorkerStep
        <3>3. TransactionalOutbox'
            BY <3>1, <3>2, KeyOfAssumption DEF Row
        <3>4. RowsStay'
            BY <3>1, <3>2, KeyOfAssumption DEF Worker
        <3> QED BY <3>3, <3>4
    <2>3. ASSUME NEW e \in Events, BecomeDue(e) PROVE ProducerInv'
        BY <2>3, KeyOfAssumption DEF BecomeDue, Row, Worker
    <2>4. ASSUME NEW o \in Operators, OperatorStep(o) PROVE ProducerInv'
        <3>1. ASSUME NEW e \in Events, RequeueRead(o, e) PROVE ProducerInv'
            BY <3>1, KeyOfAssumption DEF RequeueRead
        <3>2. ASSUME NEW reset \in BOOLEAN, RequeueWrite(o, reset) PROVE ProducerInv'
            <4>1. operators[o] \in Events /\ rows[operators[o]].status # "absent"
                BY <3>2 DEF RequeueWrite
            <4>2. \A e \in Events :
                    /\ rows'[e].origin = rows[e].origin
                    /\ rows'[e].status = "absent" <=> rows[e].status = "absent"
                BY <3>2, <4>1 DEF RequeueWrite, Row
            <4> QED BY <3>2, <4>2, KeyOfAssumption DEF RequeueWrite, Row, Worker
        <3> QED BY <2>4, <3>1, <3>2 DEF OperatorStep
    <2>5. CASE UNCHANGED vars
        BY <2>5 DEF vars
    <2> QED BY <2>1, <2>2, <2>3, <2>4, <2>5 DEF Next
<1> QED BY <1>1, <1>2, TypeCorrect, PTL DEF Spec, ProducerInv

-----------------------------------------------------------------------------
(* Mutual exclusion of the claim.                                          *)

\* Operators take turns: at most one requeue is between its read and its write.
OneOperator == \A o, p \in Operators : o = p

ExclusionInv == HeldPhase /\ ClaimExclusive /\ RequeueIsAnnounced /\ Announced

LEMMA ExclusionInit == Init => ExclusionInv
    BY NoneAssumption
    DEF Init, ExclusionInv, HeldPhase, ClaimExclusive, RequeueIsAnnounced, Announced,
        Held, AbsentRow, IdleWorker

\* Putting a worker back to its loop releases its event and nothing else.
LEMMA ExclusionRelease ==
    ASSUME TypeOK, ExclusionInv,
           NEW w \in Workers,
           UNCHANGED operators,
           workers'[w].event = None, workers'[w].phase \in {"idle", "batch"},
           \A v \in Workers \ {w} : workers'[v] = workers[v],
           \A e \in Events :
             \/ rows'[e] = rows[e]
             \/ e = workers[w].event /\ (rows'[e].status = "dead_letter" => alerted'[e]),
           \A e \in Events : alerted[e] => alerted'[e]
    PROVE  ExclusionInv'
<1> USE DEF TypeOK, ExclusionInv, Held
<1>1. HeldPhase'
    BY DEF HeldPhase
<1>2. ClaimExclusive'
    BY DEF ClaimExclusive, Worker
<1>3. RequeueIsAnnounced'
    BY DEF RequeueIsAnnounced
<1>4. Announced'
    BY DEF Announced
<1> QED BY <1>1, <1>2, <1>3, <1>4

LEMMA ExclusionStep ==
    ASSUME OneOperator, TypeOK, ExclusionInv, [Next]_vars
    PROVE  ExclusionInv'
<1> USE DEF TypeOK, ExclusionInv, Held
<1>1. ASSUME NEW t \in Transactions, ProducerStep(t) PROVE ExclusionInv'
    <2>1. UNCHANGED <<workers, operators, alerted>>
        BY <1>1 DEF ProducerStep, TxCheck, TxInsert, TxDeduplicate, TxRollback
    <2>2. \A e \in Events :
            \/ rows'[e] = rows[e]
            \/ rows[e].status = "absent" /\ rows'[e].status = "pending"
        BY <1>1, KeyOfAssumption
        DEF ProducerStep, TxCheck, TxInsert, TxDeduplicate, TxRollback
    <2> QED
        BY <2>1, <2>2
        DEF HeldPhase, ClaimExclusive, RequeueIsAnnounced, Announced, Worker
<1>2. ASSUME NEW w \in Workers, WorkerStep(w) \/ Crash(w) PROVE ExclusionInv'
    <2>0. workers[w].event \in Events \cup {None} /\ workers[w].batch \in SUBSET Events
        BY DEF Worker
    <2>1. CASE Poll(w)
        <3>1. workers[w].event = None
            BY <2>1 DEF Poll, HeldPhase
        <3> QED BY <2>1, <3>1, CandidatesType, ResumeType, ExclusionRelease DEF Poll
    <2>2. ASSUME NEW e \in Events, Claim(w, e) PROVE ExclusionInv'
        <3>1. /\ workers[w].event = None
              /\ rows[e].status = "pending"
              /\ UNCHANGED <<operators, alerted>>
            BY <2>2 DEF Claim, Upcoming, Runnable, HeldPhase
        <3>2. /\ workers'[w].event = e /\ workers'[w].phase = "running"
              /\ \A v \in Workers \ {w} : workers'[v] = workers[v]
              /\ rows'[e].status = "processing"
              /\ \A f \in Events \ {e} : rows'[f] = rows[f]
            BY <2>2 DEF Claim, Row
        <3>3. \A v \in Workers : workers[v].event # e
            BY <3>1, NoneAssumption DEF ClaimExclusive
        <3>4. HeldPhase'
            BY <3>2, NoneAssumption DEF HeldPhase
        <3>5. ClaimExclusive'
            BY <3>2, <3>3 DEF ClaimExclusive, Worker
        <3>6. RequeueIsAnnounced'
            BY <3>1, <3>2 DEF RequeueIsAnnounced
        <3>7. Announced'
            BY <3>1, <3>2 DEF Announced
        <3> QED BY <3>4, <3>5, <3>6, <3>7
    <2>3. ASSUME NEW e \in Events, Skip(w, e) PROVE ExclusionInv'
        <3>1. workers[w].event = None
            BY <2>3 DEF Skip, Upcoming, HeldPhase
        <3> QED BY <2>0, <2>3, <3>1, ResumeType, ExclusionRelease DEF Skip
    <2>4. CASE HandlersReturn(w) \/ HandlersRaise(w)
        <3>1. /\ UNCHANGED <<rows, operators, alerted>>
              /\ \A v \in Workers : workers'[v].event = workers[v].event
              /\ \A v \in Workers \ {w} : workers'[v] = workers[v]
              /\ workers[w].phase = "running"
              /\ workers'[w].phase \in {"succeeded", "failed", "poisoned"}
            BY <2>4 DEF HandlersReturn, HandlersRaise, Worker
        <3> QED
            BY <3>1 DEF HeldPhase, ClaimExclusive, RequeueIsAnnounced, Announced
    <2>5. CASE MarkDispatched(w)
        BY <2>0, <2>5, ResumeType, ExclusionRelease DEF MarkDispatched, Row
    <2>6. CASE MarkRetry(w)
        BY <2>0, <2>6, ResumeType, ExclusionRelease DEF MarkRetry, Row
    <2>7. CASE MarkDeadLetter(w)
        BY <2>0, <2>7, ResumeType, ExclusionRelease DEF MarkDeadLetter, Row
    <2>8. CASE Crash(w)
        BY <2>8, ExclusionRelease DEF Crash, IdleWorker
    <2> QED
        BY <1>2, <2>1, <2>2, <2>3, <2>4, <2>5, <2>6, <2>7, <2>8 DEF WorkerStep
<1>3. ASSUME NEW e \in Events, BecomeDue(e) PROVE ExclusionInv'
    <2>1. /\ UNCHANGED <<workers, operators, alerted>>
          /\ \A f \in Events : rows'[f].status = rows[f].status
        BY <1>3 DEF BecomeDue, Row
    <2> QED
        BY <2>1
        DEF HeldPhase, ClaimExclusive, RequeueIsAnnounced, Announced, Worker
<1>4. ASSUME NEW o \in Operators, OperatorStep(o) PROVE ExclusionInv'
    <2>1. ASSUME NEW e \in Events, RequeueRead(o, e) PROVE ExclusionInv'
        <3>1. /\ UNCHANGED <<rows, workers, alerted>>
              /\ operators'[o] = e
              /\ rows[e].status = "dead_letter"
            BY <2>1 DEF RequeueRead
        <3>2. \A w \in Workers : workers[w].event # e
            BY <3>1, NoneAssumption DEF ClaimExclusive
        <3>3. RequeueIsAnnounced'
            BY <3>1, <3>2 DEF OneOperator, RequeueIsAnnounced, Announced
        <3> QED BY <3>1, <3>3 DEF HeldPhase, ClaimExclusive, Announced
    <2>2. ASSUME NEW reset \in BOOLEAN, RequeueWrite(o, reset) PROVE ExclusionInv'
        <3>1. /\ UNCHANGED <<workers, alerted>>
              /\ operators[o] \in Events
              /\ operators'[o] = None
            BY <2>2 DEF RequeueWrite
        <3>2. /\ rows'[operators[o]].status = "pending"
              /\ \A f \in Events \ {operators[o]} : rows'[f] = rows[f]
            BY <2>2, <3>1 DEF RequeueWrite, Row
        <3>3. \A w \in Workers : workers[w].event # operators[o]
            BY <2>2 DEF RequeueWrite, RequeueIsAnnounced
        <3>4. ClaimExclusive'
            BY <3>1, <3>2, <3>3 DEF ClaimExclusive, Worker
        <3>5. RequeueIsAnnounced'
            BY <3>1 DEF OneOperator, RequeueIsAnnounced
        <3> QED BY <3>1, <3>2, <3>4, <3>5 DEF HeldPhase, Announced
    <2> QED BY <1>4, <2>1, <2>2 DEF OperatorStep
<1>5. CASE UNCHANGED vars
    BY <1>5 DEF vars, HeldPhase, ClaimExclusive, RequeueIsAnnounced, Announced
<1> QED BY <1>1, <1>2, <1>3, <1>4, <1>5 DEF Next

\* With one operator at a time, no two workers ever run one event and a
\* requeue never takes an event from under a worker, for any number of
\* workers, any batch size and any number of crashes.
THEOREM ClaimIsExclusive ==
    ASSUME OneOperator
    PROVE  Spec => [](ClaimExclusive /\ RequeueIsAnnounced)
<1>1. TypeOK /\ ExclusionInv /\ [Next]_vars => ExclusionInv'
    BY ExclusionStep
<1> QED BY <1>1, ExclusionInit, TypeCorrect, PTL DEF Spec, ExclusionInv

-----------------------------------------------------------------------------
(* Delivery: what the row says of the handlers, and at most once.          *)

DeliveryInv == DeliveryKnown /\ DispatchedWasDelivered

LEMMA DeliveryInit == Init => DeliveryInv
    BY NoneAssumption
    DEF Init, DeliveryInv, DeliveryKnown, DispatchedWasDelivered, Held,
        AbsentRow, IdleWorker

\* The effect of each kind of step on what DeliveryInv and the refinement
\* look at: the row's status, the count of deliveries, who holds what.
LEMMA DeliveryStep ==
    ASSUME TypeOK, ExclusionInv, DeliveryInv, [Next]_vars
    PROVE  DeliveryInv'
<1> USE DEF TypeOK, ExclusionInv, DeliveryInv, Held
<1>1. ASSUME NEW t \in Transactions, ProducerStep(t) PROVE DeliveryInv'
    <2>1. UNCHANGED <<workers, delivered>>
        BY <1>1 DEF ProducerStep, TxCheck, TxInsert, TxDeduplicate, TxRollback
    <2>2. \A e \in Events :
            \/ rows'[e] = rows[e]
            \/ rows[e].status = "absent" /\ rows'[e].status = "pending"
        BY <1>1, KeyOfAssumption
        DEF ProducerStep, TxCheck, TxInsert, TxDeduplicate, TxRollback
    <2> QED BY <2>1, <2>2 DEF DeliveryKnown, DispatchedWasDelivered
<1>2. ASSUME NEW w \in Workers, WorkerStep(w) \/ Crash(w) PROVE DeliveryInv'
    <2>0. /\ workers[w].event \in Events \cup {None}
          /\ workers[w].batch \in SUBSET Events
          /\ workers[w].phase \notin {"idle", "batch"} => workers[w].event \in Events
        BY DEF Worker, HeldPhase
    <2>1. CASE Poll(w)
        BY <2>1, CandidatesType, ResumeType
        DEF Poll, DeliveryKnown, DispatchedWasDelivered
    <2>2. ASSUME NEW e \in Events, Claim(w, e) PROVE DeliveryInv'
        <3>1. /\ rows[e].status = "pending"
              /\ UNCHANGED delivered
              /\ workers'[w].event = e /\ workers'[w].phase = "running"
              /\ \A v \in Workers \ {w} : workers'[v] = workers[v]
              /\ rows'[e].status = "processing"
              /\ \A f \in Events \ {e} : rows'[f] = rows[f]
            BY <2>2 DEF Claim, Runnable, Row
        <3>2. delivered[e] = 0
            BY <3>1 DEF DeliveryKnown
        <3> QED BY <3>1, <3>2 DEF DeliveryKnown, DispatchedWasDelivered
    <2>3. ASSUME NEW e \in Events, Skip(w, e) PROVE DeliveryInv'
        BY <2>0, <2>3, ResumeType DEF Skip, DeliveryKnown, DispatchedWasDelivered
    <2>4. CASE HandlersReturn(w)
        <3> DEFINE e == workers[w].event
        <3>1. /\ e \in Events /\ delivered[e] = 0 /\ rows[e].status = "processing"
            BY <2>0, <2>4, NoneAssumption
            DEF HandlersReturn, DeliveryKnown, ClaimExclusive
        <3>2. /\ UNCHANGED rows
              /\ delivered'[e] = 1
              /\ \A f \in Events \ {e} : delivered'[f] = delivered[f]
              /\ workers'[w].event = e /\ workers'[w].phase = "succeeded"
              /\ \A v \in Workers \ {w} : workers'[v] = workers[v]
            BY <2>4, <3>1 DEF HandlersReturn, Worker
        <3>3. \A v \in Workers \ {w} : workers[v].event # e
            BY <3>1, NoneAssumption DEF ClaimExclusive
        <3>4. DispatchedWasDelivered'
            BY <3>1, <3>2 DEF DispatchedWasDelivered
        <3>5. \A f \in Events :
                delivered'[f] > 0 => /\ delivered'[f] = 1
                                     /\ rows'[f].status \in {"processing", "dispatched"}
            BY <3>1, <3>2 DEF DeliveryKnown
        <3>6. \A v \in Workers :
                workers'[v].event # None =>
                  (workers'[v].phase = "succeeded" <=> delivered'[workers'[v].event] > 0)
            <4> SUFFICES ASSUME NEW v \in Workers, v # w, workers'[v].event # None
                         PROVE  workers'[v].phase = "succeeded" <=>
                                  delivered'[workers'[v].event] > 0
                BY <3>2
            <4>1. workers'[v] = workers[v] /\ workers[v].event \in Events \ {e}
                BY <3>2, <3>3 DEF Worker
            <4> QED BY <3>2, <4>1 DEF DeliveryKnown
        <3> HIDE DEF e
        <3> QED BY <3>4, <3>5, <3>6 DEF DeliveryKnown
    <2>5. CASE HandlersRaise(w)
        <3>1. /\ UNCHANGED <<rows, delivered>>
              /\ workers[w].phase = "running"
              /\ workers'[w].event = workers[w].event
              /\ workers'[w].phase \in {"failed", "poisoned"}
              /\ \A v \in Workers \ {w} : workers'[v] = workers[v]
            BY <2>5 DEF HandlersRaise, Worker
        <3> QED BY <3>1 DEF DeliveryKnown, DispatchedWasDelivered
    <2>6. CASE MarkDispatched(w)
        <3> DEFINE e == workers[w].event
        <3>1. e \in Events /\ delivered[e] = 1
            BY <2>0, <2>6, NoneAssumption DEF MarkDispatched, DeliveryKnown
        <3>2. /\ UNCHANGED delivered
              /\ workers'[w].event = None
              /\ \A v \in Workers \ {w} : workers'[v] = workers[v]
              /\ rows'[e].status = "dispatched"
              /\ \A f \in Events \ {e} : rows'[f] = rows[f]
            BY <2>0, <2>6, <3>1, ResumeType DEF MarkDispatched, Row
        <3> QED BY <3>1, <3>2 DEF DeliveryKnown, DispatchedWasDelivered
    <2>7. CASE MarkRetry(w) \/ MarkDeadLetter(w)
        <3> DEFINE e == workers[w].event
        <3>1. e \in Events /\ delivered[e] = 0
            BY <2>0, <2>7, NoneAssumption
            DEF MarkRetry, MarkDeadLetter, GivesUp, DeliveryKnown
        <3>2. /\ UNCHANGED delivered
              /\ workers'[w].event = None
              /\ \A v \in Workers \ {w} : workers'[v] = workers[v]
              /\ rows'[e].status \in {"pending", "dead_letter"}
              /\ \A f \in Events \ {e} : rows'[f] = rows[f]
            <4>1. CASE MarkRetry(w)
                <5> PICK due \in BOOLEAN :
                       rows' = [rows EXCEPT ![e].status = "pending", ![e].due = due]
                    BY <4>1 DEF MarkRetry
                <5>1. rows'[e].status = "pending"
                      /\ \A f \in Events \ {e} : rows'[f] = rows[f]
                    BY <3>1 DEF Row
                <5> QED BY <2>0, <4>1, <5>1, ResumeType DEF MarkRetry
            <4>2. CASE MarkDeadLetter(w)
                BY <2>0, <4>2, <3>1, ResumeType DEF MarkDeadLetter, Row
            <4> QED BY <2>7, <4>1, <4>2
        <3> QED BY <3>1, <3>2 DEF DeliveryKnown, DispatchedWasDelivered
    <2>8. CASE Crash(w)
        BY <2>8 DEF Crash, IdleWorker, DeliveryKnown, DispatchedWasDelivered
    <2> QED
        BY <1>2, <2>1, <2>2, <2>3, <2>4, <2>5, <2>6, <2>7, <2>8 DEF WorkerStep
<1>3. ASSUME NEW e \in Events, BecomeDue(e) PROVE DeliveryInv'
    <2>1. /\ UNCHANGED <<workers, delivered>>
          /\ \A f \in Events : rows'[f].status = rows[f].status
        BY <1>3 DEF BecomeDue, Row
    <2> QED BY <2>1 DEF DeliveryKnown, DispatchedWasDelivered
<1>4. ASSUME NEW o \in Operators, OperatorStep(o) PROVE DeliveryInv'
    <2>1. ASSUME NEW e \in Events, RequeueRead(o, e) PROVE DeliveryInv'
        BY <2>1 DEF RequeueRead, DeliveryKnown, DispatchedWasDelivered
    <2>2. ASSUME NEW reset \in BOOLEAN, RequeueWrite(o, reset) PROVE DeliveryInv'
        <3> DEFINE e == operators[o]
        <3>1. /\ e \in Events
              /\ rows[e].status = "dead_letter"
              /\ UNCHANGED <<workers, delivered>>
            BY <2>2 DEF RequeueWrite, RequeueIsAnnounced
        <3>2. /\ rows'[e].status = "pending"
              /\ \A f \in Events \ {e} : rows'[f] = rows[f]
            BY <2>2, <3>1 DEF RequeueWrite, Row
        <3>3. delivered[e] = 0
            BY <3>1 DEF DeliveryKnown
        <3> QED BY <3>1, <3>2, <3>3 DEF DeliveryKnown, DispatchedWasDelivered
    <2> QED BY <1>4, <2>1, <2>2 DEF OperatorStep
<1>5. CASE UNCHANGED vars
    BY <1>5 DEF vars, DeliveryKnown, DispatchedWasDelivered
<1> QED BY <1>1, <1>2, <1>3, <1>4, <1>5 DEF Next

\* A dispatched row is never a lie: all handlers of the event completed.
THEOREM DispatchedIsDelivered ==
    ASSUME OneOperator
    PROVE  Spec => []DispatchedWasDelivered
<1>1. TypeOK /\ ExclusionInv /\ [Next]_vars => ExclusionInv'
    BY ExclusionStep
<1>2. TypeOK /\ ExclusionInv /\ DeliveryInv /\ [Next]_vars => DeliveryInv'
    BY DeliveryStep
<1> QED
    BY <1>1, <1>2, ExclusionInit, DeliveryInit, TypeCorrect, PTL
    DEF Spec, DeliveryInv

-----------------------------------------------------------------------------
(* The outbox implements Delivery.                                         *)

\* A step that changes no event's standing is a stutter of the promise.
LEMMA StandingStutter ==
    ASSUME UNCHANGED delivered,
           \A e \in Events : Standing(e)' = Standing(e)
    PROVE  UNCHANGED Promise!vars
    BY DEF Promise!vars

\* A step that moves one event along the promise's graph, and delivers
\* nothing, is a step of the promise.
LEMMA StandingMove ==
    ASSUME UNCHANGED delivered,
           NEW e \in Events,
           \A f \in Events \ {e} : Standing(f)' = Standing(f),
           \/ Standing(e) = "none" /\ Standing(e)' = "waiting"
           \/ Standing(e) = "waiting" /\ Standing(e)' = "parked"
           \/ Standing(e) = "parked" /\ Standing(e)' = "waiting"
    PROVE  Promise!Next
    BY DEF Promise!Next, Promise!Accept, Promise!Park, Promise!Unpark

LEMMA RefinementStep ==
    ASSUME TypeOK, ExclusionInv, DeliveryInv, [Next]_vars
    PROVE  [Promise!Next]_(Promise!vars)
<1> USE DEF TypeOK, ExclusionInv, DeliveryInv, Held
<1>1. ASSUME NEW t \in Transactions, ProducerStep(t)
      PROVE  [Promise!Next]_(Promise!vars)
    <2>0. KeyOf[t] \in Events /\ UNCHANGED delivered
        BY <1>1, KeyOfAssumption
        DEF ProducerStep, TxCheck, TxInsert, TxDeduplicate, TxRollback
    <2>1. CASE TxInsert(t)
        <3>1. /\ rows[KeyOf[t]].status = "absent"
              /\ rows'[KeyOf[t]].status = "pending"
              /\ \A f \in Events \ {KeyOf[t]} : rows'[f] = rows[f]
            BY <2>0, <2>1 DEF TxInsert
        <3>2. delivered[KeyOf[t]] = 0
            BY <2>0, <3>1 DEF DeliveryKnown
        <3> QED BY <2>0, <3>1, <3>2, StandingMove DEF Standing
    <2>2. CASE UNCHANGED rows
        BY <2>0, <2>2, StandingStutter DEF Standing
    <2> QED
        BY <1>1, <2>1, <2>2
        DEF ProducerStep, TxCheck, TxDeduplicate, TxRollback
<1>2. ASSUME NEW w \in Workers, WorkerStep(w) \/ Crash(w)
      PROVE  [Promise!Next]_(Promise!vars)
    <2>0. workers[w].phase \notin {"idle", "batch"} =>
            /\ workers[w].event \in Events
            /\ rows[workers[w].event].status = "processing"
        BY DEF Worker, HeldPhase, ClaimExclusive
    <2>1. CASE UNCHANGED <<rows, delivered>>
        BY <2>1, StandingStutter DEF Standing
    <2>2. ASSUME NEW f \in Events, Claim(w, f) PROVE [Promise!Next]_(Promise!vars)
        <3>1. /\ rows[f].status = "pending" /\ rows'[f].status = "processing"
              /\ UNCHANGED delivered
              /\ \A g \in Events \ {f} : rows'[g] = rows[g]
            BY <2>2 DEF Claim, Runnable, Row
        <3> QED BY <3>1, StandingStutter DEF Standing
    <2>3. CASE HandlersReturn(w)
        <3>1. PICK e \in Events : /\ e = workers[w].event
                                  /\ delivered[e] = 0
                                  /\ rows[e].status = "processing"
            BY <2>0, <2>3, NoneAssumption DEF HandlersReturn, DeliveryKnown
        <3>2. UNCHANGED rows /\ delivered' = [delivered EXCEPT ![e] = @ + 1]
            BY <2>3, <3>1 DEF HandlersReturn
        <3>3. Standing(e) = "waiting" /\ Standing(e)' = "done"
            BY <3>1, <3>2 DEF Standing
        <3>4. \A f \in Events \ {e} : Standing(f)' = Standing(f)
            BY <3>2 DEF Standing
        <3> QED BY <3>1, <3>2, <3>3, <3>4 DEF Promise!Next, Promise!Deliver
    <2>4. CASE MarkDispatched(w)
        <3>1. PICK e \in Events : /\ e = workers[w].event
                                  /\ delivered[e] > 0
                                  /\ UNCHANGED delivered
            BY <2>0, <2>4, NoneAssumption DEF MarkDispatched, DeliveryKnown
        <3>2. \A f \in Events \ {e} : rows'[f] = rows[f]
            BY <2>4, <3>1 DEF MarkDispatched
        <3> QED BY <3>1, <3>2, StandingStutter DEF Standing
    <2>5. CASE MarkRetry(w)
        <3>1. PICK e \in Events : /\ e = workers[w].event
                                  /\ rows[e].status = "processing"
                                  /\ UNCHANGED delivered
            BY <2>0, <2>5 DEF MarkRetry
        <3>2. /\ rows'[e].status = "pending"
              /\ \A f \in Events \ {e} : rows'[f] = rows[f]
            <4> PICK due \in BOOLEAN :
                   rows' = [rows EXCEPT ![e].status = "pending", ![e].due = due]
                BY <2>5, <3>1 DEF MarkRetry
            <4> QED BY <3>1 DEF Row
        <3> QED BY <3>1, <3>2, StandingStutter DEF Standing
    <2>6. CASE MarkDeadLetter(w)
        <3>1. PICK e \in Events : /\ e = workers[w].event
                                  /\ rows[e].status = "processing"
                                  /\ delivered[e] = 0
                                  /\ UNCHANGED delivered
            BY <2>0, <2>6, NoneAssumption DEF MarkDeadLetter, GivesUp, DeliveryKnown
        <3>2. /\ rows'[e].status = "dead_letter"
              /\ \A f \in Events \ {e} : rows'[f] = rows[f]
            BY <2>6, <3>1 DEF MarkDeadLetter, Row
        <3>3. Standing(e) = "waiting" /\ Standing(e)' = "parked"
            BY <3>1, <3>2 DEF Standing
        <3>4. \A f \in Events \ {e} : Standing(f)' = Standing(f)
            BY <3>1, <3>2 DEF Standing
        <3> QED BY <3>1, <3>3, <3>4, StandingMove
    <2> QED
        BY <1>2, <2>1, <2>2, <2>3, <2>4, <2>5, <2>6
        DEF WorkerStep, Poll, Skip, HandlersRaise, Crash
<1>3. ASSUME NEW e \in Events, BecomeDue(e) PROVE [Promise!Next]_(Promise!vars)
    <2>1. UNCHANGED delivered /\ \A f \in Events : rows'[f].status = rows[f].status
        BY <1>3 DEF BecomeDue, Row
    <2> QED BY <2>1, StandingStutter DEF Standing
<1>4. ASSUME NEW o \in Operators, OperatorStep(o)
      PROVE  [Promise!Next]_(Promise!vars)
    <2>1. CASE UNCHANGED <<rows, delivered>>
        BY <2>1, StandingStutter DEF Standing
    <2>2. ASSUME NEW reset \in BOOLEAN, RequeueWrite(o, reset)
          PROVE  [Promise!Next]_(Promise!vars)
        <3>1. PICK e \in Events : /\ e = operators[o]
                                  /\ rows[e].status = "dead_letter"
                                  /\ delivered[e] = 0
                                  /\ UNCHANGED delivered
            BY <2>2 DEF RequeueWrite, RequeueIsAnnounced, DeliveryKnown
        <3>2. /\ rows'[e].status = "pending"
              /\ \A f \in Events \ {e} : rows'[f] = rows[f]
            BY <2>2, <3>1 DEF RequeueWrite, Row
        <3>3. Standing(e) = "parked" /\ Standing(e)' = "waiting"
            BY <3>1, <3>2 DEF Standing
        <3>4. \A f \in Events \ {e} : Standing(f)' = Standing(f)
            BY <3>1, <3>2 DEF Standing
        <3> QED BY <3>1, <3>3, <3>4, StandingMove
    <2> QED BY <1>4, <2>1, <2>2 DEF OperatorStep, RequeueRead
<1>5. CASE UNCHANGED vars
    BY <1>5, StandingStutter DEF vars, Standing
<1> QED BY <1>1, <1>2, <1>3, <1>4, <1>5 DEF Next

\* With one operator at a time the outbox implements the abstract promise:
\* every event's complete set of handlers runs at most once, however workers
\* interleave, retry or crash.
THEOREM OutboxImplementsDelivery ==
    ASSUME OneOperator
    PROVE  Spec => AtMostOnce
<1>1. Init => Promise!Init
    BY DEF Init, Promise!Init, Standing, AbsentRow
<1>2. TypeOK /\ ExclusionInv /\ [Next]_vars => ExclusionInv'
    BY ExclusionStep
<1>3. TypeOK /\ ExclusionInv /\ DeliveryInv /\ [Next]_vars => DeliveryInv'
    BY DeliveryStep
<1>4. TypeOK /\ ExclusionInv /\ DeliveryInv /\ [Next]_vars
        => [Promise!Next]_(Promise!vars)
    BY RefinementStep
<1> QED
    BY <1>1, <1>2, <1>3, <1>4, ExclusionInit, DeliveryInit, TypeCorrect, PTL
    DEF Spec, AtMostOnce, Promise!Spec

-----------------------------------------------------------------------------
(* Finality and the attempt budget.                                        *)

\* The only steps that write the status of an existing row are those of its
\* holder, of a claim and of a requeue, and none of them finds it dispatched.
LEMMA FinalStep ==
    ASSUME TypeOK, ExclusionInv, [Next]_vars,
           NEW e \in Events, rows[e].status = "dispatched"
    PROVE  rows'[e].status = "dispatched"
<1> USE DEF TypeOK, ExclusionInv, Held
<1>1. ASSUME NEW t \in Transactions, ProducerStep(t)
      PROVE  rows'[e] = rows[e]
    BY <1>1, KeyOfAssumption
    DEF ProducerStep, TxCheck, TxInsert, TxDeduplicate, TxRollback
<1>2. ASSUME NEW w \in Workers, WorkerStep(w) \/ Crash(w)
      PROVE  rows'[e] = rows[e]
    <2>1. workers[w].event # e
        BY NoneAssumption DEF ClaimExclusive
    <2>2. ASSUME NEW f \in Events, Claim(w, f) PROVE rows'[e] = rows[e]
        BY <2>2 DEF Claim, Runnable
    <2>3. CASE MarkRetry(w)
        <3> PICK due \in BOOLEAN :
               rows' = [rows EXCEPT ![workers[w].event].status = "pending",
                                    ![workers[w].event].due = due]
            BY <2>3 DEF MarkRetry
        <3> QED BY <2>1
    <2>4. CASE MarkDispatched(w) \/ MarkDeadLetter(w)
        BY <2>1, <2>4 DEF MarkDispatched, MarkDeadLetter
    <2> QED
        BY <1>2, <2>2, <2>3, <2>4
        DEF WorkerStep, Poll, Skip, HandlersReturn, HandlersRaise, Crash
<1>3. ASSUME NEW f \in Events, BecomeDue(f) PROVE rows'[e] = rows[e]
    BY <1>3 DEF BecomeDue
<1>4. ASSUME NEW o \in Operators, OperatorStep(o) PROVE rows'[e] = rows[e]
    <2>1. operators[o] # e
        BY NoneAssumption DEF RequeueIsAnnounced
    <2> QED BY <1>4, <2>1 DEF OperatorStep, RequeueRead, RequeueWrite
<1>5. CASE UNCHANGED vars
    BY <1>5 DEF vars
<1> QED BY <1>1, <1>2, <1>3, <1>4, <1>5 DEF Next

\* No late mark, stale list, crash or requeue takes back a dispatched row.
THEOREM DispatchedStays ==
    ASSUME OneOperator
    PROVE  Spec => DispatchedIsFinal
<1>1. TypeOK /\ ExclusionInv /\ [Next]_vars => ExclusionInv'
    BY ExclusionStep
<1>2. TypeOK /\ ExclusionInv /\ [Next]_vars =>
        [\A e \in Events :
           rows[e].status = "dispatched" => rows'[e].status = "dispatched"]_vars
    BY FinalStep
<1> QED
    BY <1>1, <1>2, ExclusionInit, TypeCorrect, PTL DEF Spec, DispatchedIsFinal

AttemptInv == AttemptsLeft /\ AttemptBudget

LEMMA AttemptInit == Init => AttemptInv
    BY MaxAttemptsAssumption, NoneAssumption
    DEF Init, AttemptInv, AttemptsLeft, AttemptBudget, Held, AbsentRow, IdleWorker

LEMMA AttemptStep ==
    ASSUME TypeOK, ExclusionInv, AttemptInv, [Next]_vars
    PROVE  AttemptInv'
<1> USE MaxAttemptsAssumption DEF TypeOK, ExclusionInv, AttemptInv, Held
<1>1. ASSUME NEW t \in Transactions, ProducerStep(t) PROVE AttemptInv'
    <2>1. UNCHANGED <<workers, requeues>>
        BY <1>1 DEF ProducerStep, TxCheck, TxInsert, TxDeduplicate, TxRollback
    <2>2. \A e \in Events :
            \/ rows'[e] = rows[e]
            \/ /\ rows[e].status = "absent" /\ rows'[e].status = "pending"
               /\ rows'[e].attempts = 0
        BY <1>1, KeyOfAssumption
        DEF ProducerStep, TxCheck, TxInsert, TxDeduplicate, TxRollback
    <2>3. \A e \in Events : 0 < MaxAttempts + requeues[e]
        OBVIOUS
    <2>4. \A w \in Workers :
            workers[w].event # None =>
              workers[w].event \in Events /\ rows[workers[w].event].status # "absent"
        BY DEF ClaimExclusive, Worker
    <2> QED BY <2>1, <2>2, <2>3, <2>4 DEF AttemptsLeft, AttemptBudget
<1>2. ASSUME NEW w \in Workers, WorkerStep(w) \/ Crash(w) PROVE AttemptInv'
    <2>0. /\ workers[w].event \in Events \cup {None}
          /\ workers[w].batch \in SUBSET Events
          /\ workers[w].phase \notin {"idle", "batch"} => workers[w].event \in Events
        BY DEF Worker, HeldPhase
    <2>1. CASE Poll(w)
        BY <2>1, CandidatesType, ResumeType DEF Poll, AttemptsLeft, AttemptBudget
    <2>2. ASSUME NEW e \in Events, Claim(w, e) PROVE AttemptInv'
        <3>1. /\ rows[e].status = "pending"
              /\ UNCHANGED requeues
              /\ workers'[w].event = e /\ workers'[w].attempts = rows[e].attempts + 1
              /\ \A v \in Workers \ {w} : workers'[v] = workers[v]
              /\ rows'[e].status = "processing"
              /\ rows'[e].attempts = rows[e].attempts + 1
              /\ \A f \in Events \ {e} : rows'[f] = rows[f]
            BY <2>2 DEF Claim, Runnable, Row
        <3>2. \A v \in Workers : workers[v].event # e
            BY <3>1, NoneAssumption DEF ClaimExclusive
        <3>3. rows[e].attempts + 1 <= MaxAttempts + requeues[e]
            BY <3>1 DEF AttemptsLeft, Row
        <3>4. AttemptBudget'
            BY <3>1, <3>3 DEF AttemptBudget
        <3>5. \A v \in Workers :
                workers'[v].event # None =>
                  workers'[v].attempts = rows'[workers'[v].event].attempts
            BY <3>1, <3>2 DEF AttemptsLeft, Worker
        <3>6. \A f \in Events :
                rows'[f].status \in {"absent", "pending"} =>
                  rows'[f].attempts < MaxAttempts + requeues'[f]
            BY <3>1 DEF AttemptsLeft
        <3> QED BY <3>4, <3>5, <3>6 DEF AttemptsLeft
    <2>3. ASSUME NEW e \in Events, Skip(w, e) PROVE AttemptInv'
        BY <2>0, <2>3, ResumeType DEF Skip, AttemptsLeft, AttemptBudget
    <2>4. CASE HandlersReturn(w) \/ HandlersRaise(w)
        <3>1. /\ UNCHANGED <<rows, requeues>>
              /\ \A v \in Workers : /\ workers'[v].event = workers[v].event
                                     /\ workers'[v].attempts = workers[v].attempts
            BY <2>4 DEF HandlersReturn, HandlersRaise, Worker
        <3> QED BY <3>1 DEF AttemptsLeft, AttemptBudget
    <2>5. CASE MarkRetry(w)
        <3>1. PICK e \in Events : e = workers[w].event /\ workers[w].event # None
            BY <2>0, <2>5, NoneAssumption DEF MarkRetry
        <3>2. rows[e].attempts < MaxAttempts
            BY <2>5, <3>1 DEF MarkRetry, GivesUp, AttemptsLeft, Row
        <3>3. /\ rows'[e].attempts = rows[e].attempts
              /\ \A f \in Events \ {e} : rows'[f] = rows[f]
            <4> PICK due \in BOOLEAN :
                   rows' = [rows EXCEPT ![e].status = "pending", ![e].due = due]
                BY <2>5, <3>1 DEF MarkRetry
            <4> QED BY DEF Row
        <3>4. /\ UNCHANGED requeues
              /\ workers'[w].event = None
              /\ \A v \in Workers \ {w} : workers'[v] = workers[v]
            BY <2>0, <2>5, ResumeType DEF MarkRetry
        <3>5. rows[e].attempts < MaxAttempts + requeues[e]
            BY <3>2 DEF Row
        <3>6. AttemptBudget'
            BY <3>3, <3>4 DEF AttemptBudget
        <3>7. \A v \in Workers :
                workers'[v].event # None =>
                  workers'[v].attempts = rows'[workers'[v].event].attempts
            BY <3>3, <3>4 DEF AttemptsLeft, Worker
        <3>8. \A f \in Events :
                rows'[f].status \in {"absent", "pending"} =>
                  rows'[f].attempts < MaxAttempts + requeues'[f]
            BY <3>3, <3>4, <3>5 DEF AttemptsLeft
        <3> QED BY <3>6, <3>7, <3>8 DEF AttemptsLeft
    <2>6. CASE MarkDispatched(w) \/ MarkDeadLetter(w)
        <3>1. PICK e \in Events : e = workers[w].event
            BY <2>0, <2>6 DEF MarkDispatched, MarkDeadLetter, GivesUp
        <3>2. /\ rows'[e].attempts = rows[e].attempts
              /\ rows'[e].status \notin {"absent", "pending"}
              /\ \A f \in Events \ {e} : rows'[f] = rows[f]
            BY <2>6, <3>1 DEF MarkDispatched, MarkDeadLetter, Row
        <3>3. /\ UNCHANGED requeues
              /\ workers'[w].event = None
              /\ \A v \in Workers \ {w} : workers'[v] = workers[v]
            BY <2>0, <2>6, ResumeType DEF MarkDispatched, MarkDeadLetter
        <3>4. AttemptBudget'
            BY <3>2, <3>3 DEF AttemptBudget
        <3>5. \A v \in Workers :
                workers'[v].event # None =>
                  workers'[v].attempts = rows'[workers'[v].event].attempts
            BY <3>2, <3>3 DEF AttemptsLeft, Worker
        <3>6. \A f \in Events :
                rows'[f].status \in {"absent", "pending"} =>
                  rows'[f].attempts < MaxAttempts + requeues'[f]
            BY <3>2, <3>3 DEF AttemptsLeft
        <3> QED BY <3>4, <3>5, <3>6 DEF AttemptsLeft
    <2>7. CASE Crash(w)
        BY <2>7 DEF Crash, IdleWorker, AttemptsLeft, AttemptBudget
    <2> QED
        BY <1>2, <2>1, <2>2, <2>3, <2>4, <2>5, <2>6, <2>7 DEF WorkerStep
<1>3. ASSUME NEW e \in Events, BecomeDue(e) PROVE AttemptInv'
    <2>1. /\ UNCHANGED <<workers, requeues>>
          /\ \A f \in Events : /\ rows'[f].status = rows[f].status
                               /\ rows'[f].attempts = rows[f].attempts
        BY <1>3 DEF BecomeDue, Row
    <2> QED BY <2>1 DEF AttemptsLeft, AttemptBudget, Worker
<1>4. ASSUME NEW o \in Operators, OperatorStep(o) PROVE AttemptInv'
    <2>1. ASSUME NEW e \in Events, RequeueRead(o, e) PROVE AttemptInv'
        BY <2>1 DEF RequeueRead, AttemptsLeft, AttemptBudget
    <2>2. ASSUME NEW reset \in BOOLEAN, RequeueWrite(o, reset) PROVE AttemptInv'
        <3>1. PICK e \in Events : e = operators[o] /\ operators[o] # None
            BY <2>2 DEF RequeueWrite
        <3>2. /\ UNCHANGED workers
              /\ requeues'[e] = requeues[e] + 1
              /\ \A f \in Events \ {e} : /\ rows'[f] = rows[f]
                                         /\ requeues'[f] = requeues[f]
            BY <2>2, <3>1 DEF RequeueWrite
        <3>3. rows'[e].attempts \in {0, rows[e].attempts}
            BY <2>2, <3>1 DEF RequeueWrite, Row
        <3>4. \A w \in Workers : workers[w].event # e
            BY <3>1 DEF RequeueIsAnnounced
        <3>5. rows[e].attempts <= MaxAttempts + requeues[e] /\ rows[e].attempts \in Nat
            BY DEF AttemptBudget, Row
        <3>6. rows'[e].attempts < MaxAttempts + requeues'[e]
            BY <3>2, <3>3, <3>5
        <3>7. AttemptBudget'
            BY <3>2, <3>3, <3>5, <3>6 DEF AttemptBudget
        <3>8. \A w \in Workers :
                workers'[w].event # None =>
                  workers'[w].attempts = rows'[workers'[w].event].attempts
            BY <3>2, <3>4 DEF AttemptsLeft, Worker
        <3>9. \A f \in Events :
                rows'[f].status \in {"absent", "pending"} =>
                  rows'[f].attempts < MaxAttempts + requeues'[f]
            BY <3>2, <3>6 DEF AttemptsLeft
        <3> QED BY <3>7, <3>8, <3>9 DEF AttemptsLeft
    <2> QED BY <1>4, <2>1, <2>2 DEF OperatorStep
<1>5. CASE UNCHANGED vars
    BY <1>5 DEF vars, AttemptsLeft, AttemptBudget
<1> QED BY <1>1, <1>2, <1>3, <1>4, <1>5 DEF Next

\* A row is claimed at most MaxAttempts times and once more per requeue,
\* whether or not the requeue resets the count.
THEOREM AttemptsAreBounded ==
    ASSUME OneOperator
    PROVE  Spec => []AttemptBudget
<1>1. TypeOK /\ ExclusionInv /\ [Next]_vars => ExclusionInv'
    BY ExclusionStep
<1>2. TypeOK /\ ExclusionInv /\ AttemptInv /\ [Next]_vars => AttemptInv'
    BY AttemptStep
<1> QED
    BY <1>1, <1>2, ExclusionInit, AttemptInit, TypeCorrect, PTL
    DEF Spec, AttemptInv

-----------------------------------------------------------------------------
(* The other invariants of the safety run.                                 *)

\* An operator only ever puts back an event that administrators were told about
\* and that no worker holds.
THEOREM RequeuesAreAnnounced ==
    ASSUME OneOperator
    PROVE  Spec => []RequeueIsAnnounced
BY ClaimIsExclusive, PTL

\* The local state of every process keeps agreeing with the table.
THEOREM BooksAreKept ==
    ASSUME OneOperator
    PROVE  Spec => []Bookkeeping
<1>1. TypeOK /\ ExclusionInv /\ [Next]_vars => ExclusionInv'
    BY ExclusionStep
<1>2. TypeOK /\ ExclusionInv /\ DeliveryInv /\ [Next]_vars => DeliveryInv'
    BY DeliveryStep
<1>3. TypeOK /\ ExclusionInv /\ AttemptInv /\ [Next]_vars => AttemptInv'
    BY AttemptStep
<1>4. ExclusionInv /\ DeliveryInv /\ AttemptInv /\ RowsStay => Bookkeeping
    BY DEF ExclusionInv, DeliveryInv, AttemptInv, Bookkeeping
<1> QED
    BY <1>1, <1>2, <1>3, <1>4, ExclusionInit, DeliveryInit, AttemptInit, TypeCorrect,
       OutboxIsTransactional, PTL
    DEF Spec

=============================================================================
