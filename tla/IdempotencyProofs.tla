-------------------------- MODULE IdempotencyProofs --------------------------
(***************************************************************************)
(* Theorems about Idempotency for every set of senders and payloads and    *)
(* any number of faults and purges.                                        *)
(***************************************************************************)
EXTENDS Idempotency, TLAPS

LEMMA NoRowType == ASSUME NEW id \in Nat PROVE NoRow(id) \in Record
    BY DEF NoRow, Record

LEMMA IdleType == Idle \in Client
    BY NoRowType DEF Idle, Client

\* What a finished run and a takeover make of a row is a row.
LEMMA RecordedType ==
    ASSUME NEW row \in Record, NEW c \in Clients, NEW outcome
    PROVE  Recorded(row, c, outcome) \in Record
    BY DEF Recorded, Record

LEMMA TakenOverType ==
    ASSUME NEW row \in Record, NEW seen \in Record
    PROVE  TakenOver(row, seen) \in Record
<1>1. CASE seen.status = "processing" /\ seen.response = None
    BY <1>1 DEF TakenOver, Record
<1>2. CASE seen.status = "processing" /\ seen.response # None
    BY <1>2 DEF TakenOver, Record
<1>3. CASE seen.status # "processing" /\ seen.response = None
    BY <1>3 DEF TakenOver, Record
<1>4. CASE seen.status # "processing" /\ seen.response # None
    BY <1>4 DEF TakenOver, Record
<1> QED BY <1>1, <1>2, <1>3, <1>4

LEMMA AnsweredType ==
    ASSUME NEW pc \in {"replayed", "own"}, NEW d \in Clients \cup {None}
    PROVE  [Idle EXCEPT !.pc = pc, !.answer = d] \in Client
    BY NoRowType DEF Idle, Client

\* A run that is over came to an outcome.
OutcomeKnown == \A c \in Clients : clients[c].pc = "ran" => clients[c].outcome # "none"

TypeInv == TypeOK /\ OutcomeKnown

LEMMA OutcomeStep == ASSUME TypeInv, [Next]_vars PROVE OutcomeKnown'
<1> USE DEF TypeInv, TypeOK, OutcomeKnown
<1>1. ASSUME NEW c \in Clients,
             Lookup(c) \/ Mismatch(c) \/ Replay(c) \/ Refuse(c) \/ Finish(c) \/ Die(c)
      PROVE  OutcomeKnown'
    <2>1. (\A d \in Clients \ {c} : clients'[d] = clients[d]) /\ clients'[c].pc # "ran"
        <3>1. CASE Lookup(c)
            BY <3>1 DEF Lookup, Idle
        <3>2. CASE Mismatch(c)
            BY <3>2 DEF Mismatch, Idle
        <3>3. CASE Replay(c)
            BY <3>3 DEF Replay, Idle
        <3>4. CASE Refuse(c)
            BY <3>4 DEF Refuse, Idle
        <3>5. CASE Finish(c)
            BY <3>5 DEF Finish, Idle
        <3>6. CASE Die(c)
            BY <3>6 DEF Die, Idle
        <3> QED BY <1>1, <3>1, <3>2, <3>3, <3>4, <3>5, <3>6
    <2> QED BY <2>1
<1>2. ASSUME NEW c \in Clients, TakeOver(c) \/ Insert(c) PROVE OutcomeKnown'
    <2>1. /\ \A d \in Clients \ {c} : clients'[d] = clients[d]
          /\ clients'[c].pc # "ran"
        BY <1>2 DEF TakeOver, Insert, Idle, Client
    <2> QED BY <2>1
<1>3. ASSUME NEW c \in Clients, Reach(c) \/ Reject(c) PROVE OutcomeKnown'
    BY <1>3 DEF Reach, Reject, Client
<1>4. ASSUME NEW c \in Clients, NEW b \in BOOLEAN, Fail(c, b) PROVE OutcomeKnown'
    BY <1>4 DEF Fail, Client
<1>5. CASE UNCHANGED clients
    BY <1>5
<1> QED
    BY <1>1, <1>2, <1>3, <1>4, <1>5 DEF Next, Dispatch, RunIsLate, Purge, vars

LEMMA TypeStep == ASSUME TypeInv, [Next]_vars PROVE TypeOK'
<1> USE DEF TypeInv, TypeOK
<1>1. ASSUME NEW c \in Clients, Lookup(c) PROVE TypeOK'
    BY <1>1, IdleType DEF Lookup, Client
<1>2. ASSUME NEW c \in Clients, Mismatch(c) \/ Refuse(c) PROVE TypeOK'
    BY <1>2, IdleType DEF Mismatch, Refuse, Client
<1>3. ASSUME NEW c \in Clients, Replay(c) PROVE TypeOK'
    <2>1. clients[c].seen.response \in Clients \cup {None}
        BY DEF Client, Record
    <2> QED BY <1>3, <2>1, IdleType DEF Replay, Client
<1>4. ASSUME NEW c \in Clients, TakeOver(c) PROVE TypeOK'
    <2>1. clients[c].seen \in Record
        BY DEF Client
    <2> QED BY <1>4, <2>1, IdleType, TakenOverType DEF TakeOver, Client
<1>5. ASSUME NEW c \in Clients, Insert(c) PROVE TypeOK'
    <2>1. [NoRow(record.id) EXCEPT !.status = "processing", !.hash = PayloadOf[c]] \in Record
        BY PayloadAssumption DEF NoRow, Record
    <2>2. record' \in Record
        BY <1>5, <2>1 DEF Insert
    <2>3. clients' \in [Clients -> Client]
        <3> DEFINE run == [clients EXCEPT ![c].pc = "running", ![c].seen = record']
        <3>1. run \in [Clients -> Client]
            <4>1. [clients[c] EXCEPT !.pc = "running", !.seen = record'] \in Client
                BY <2>2 DEF Client
            <4>2. run = [clients EXCEPT ![c] =
                            [clients[c] EXCEPT !.pc = "running", !.seen = record']]
                OBVIOUS
            <4> HIDE DEF run
            <4> QED BY <4>1, <4>2
        <3>2. CASE record.status = "absent"
            BY <1>5, <3>1, <3>2 DEF Insert
        <3>3. CASE record.status # "absent"
            BY <1>5, <3>3, IdleType DEF Insert
        <3> QED BY <3>2, <3>3
    <2> QED BY <1>5, <2>2, <2>3 DEF Insert
<1>6. ASSUME NEW c \in Clients, Reach(c) \/ Reject(c) PROVE TypeOK'
    BY <1>6 DEF Reach, Reject, Client
<1>7. ASSUME NEW c \in Clients, NEW b \in BOOLEAN, Fail(c, b) PROVE TypeOK'
    <2>1. clients' \in [Clients -> Client]
        <3>1. [clients[c] EXCEPT !.pc = "ran", !.outcome = "error"] \in Client
            BY DEF Client
        <3>2. clients' = [clients EXCEPT ![c] =
                            [clients[c] EXCEPT !.pc = "ran", !.outcome = "error"]]
            BY <1>7 DEF Fail
        <3> QED BY <3>1, <3>2
    <2>2. effects' \in Nat /\ faults' \in Nat
        BY <1>7 DEF Fail
    <2> QED BY <1>7, <2>1, <2>2 DEF Fail
<1>8. ASSUME NEW c \in Clients, Finish(c) PROVE TypeOK'
    <2>1. record' \in Record
        BY <1>8, RecordedType DEF Finish
    <2>2. clients[c].outcome \in {"reached", "rejected", "error"}
        BY <1>8 DEF Finish, OutcomeKnown, Client
    <2>3. ended' \in [Clients -> SUBSET {"reached", "rejected", "error"}]
        BY <1>8, <2>2 DEF Finish
    <2>4. clients' = [clients EXCEPT ![c] =
                IF clients[c].outcome = "error" THEN Idle
                ELSE [Idle EXCEPT !.pc = "own", !.answer = c]]
        BY <1>8 DEF Finish
    <2>5. clients' \in [Clients -> Client]
        BY <2>4, IdleType, AnsweredType
    <2> QED BY <1>8, <2>1, <2>3, <2>5 DEF Finish
<1>9. ASSUME NEW c \in Clients, Die(c) PROVE TypeOK'
    BY <1>9, IdleType DEF Die
<1>10. CASE RunIsLate
    BY <1>10 DEF RunIsLate, Record
<1>11. CASE Purge
    <2>1. record.id + 1 \in Nat
        BY DEF Record
    <2> QED BY <1>11, <2>1, NoRowType DEF Purge
<1>12. CASE UNCHANGED vars
    BY <1>12 DEF vars
<1> QED
    BY <1>1, <1>2, <1>3, <1>4, <1>5, <1>6, <1>7, <1>8, <1>9, <1>10, <1>11, <1>12
    DEF Next, Dispatch

LEMMA TypeInvHolds == Spec => []TypeInv
<1>1. Init => TypeInv
    <2> SUFFICES ASSUME Init PROVE TypeInv
        OBVIOUS
    <2>1. record \in Record /\ clients \in [Clients -> Client]
        BY NoRowType, IdleType DEF Init
    <2>2. OutcomeKnown
        BY DEF Init, OutcomeKnown, Idle
    <2> QED BY <2>1, <2>2 DEF Init, TypeInv, TypeOK
<1>2. TypeInv /\ [Next]_vars => TypeInv'
    BY TypeStep, OutcomeStep DEF TypeInv
<1> QED BY <1>1, <1>2, PTL DEF Spec

\* The row and every request keep to the values that the middleware writes.
THEOREM TypeCorrect == Spec => []TypeOK
    BY TypeInvHolds, PTL DEF TypeInv

-----------------------------------------------------------------------------
(* What is replayed.  The invariant adds to the property what the row and  *)
(* the row that a request remembers have in common: an id is never used    *)
(* for two hashes, and a response belongs to the hash of its row.          *)

Genuine(d) == ended[d] \cap {"reached", "rejected"} # {}

\* A stored response comes from a run of the row's own payload.
Supported(row) ==
    row.response # None => PayloadOf[row.response] = row.hash /\ Genuine(row.response)

\* What is known of a row that was read, and may have changed or gone since.
Remembered(row) ==
    /\ Supported(row)
    /\ row.status = "absent" => row.hash = None /\ row.response = None
    /\ row.id <= record.id
    /\ row.status # "absent" /\ row.id = record.id =>
         record.status # "absent" /\ record.hash = row.hash

RequestInv(c) ==
    /\ Remembered(clients[c].seen)
    /\ clients[c].pc \in {"running", "ran"} =>
         clients[c].seen.status # "absent" /\ clients[c].seen.hash = PayloadOf[c]
    /\ clients[c].pc = "replayed" =>
         LET d == clients[c].answer
         IN d \in Clients /\ PayloadOf[d] = PayloadOf[c] /\ Genuine(d)

GenuineInv == Remembered(record) /\ \A c \in Clients : RequestInv(c)

\* A step that keeps the hash of a row while it is there, and every recorded
\* outcome, leaves what is remembered true.
LEMMA RememberedStable ==
    ASSUME TypeOK, TypeOK',
           record.id <= record'.id,
           record.status # "absent" /\ record'.id = record.id =>
             record'.status # "absent" /\ record'.hash = record.hash,
           \A d \in Clients : ended[d] \subseteq ended'[d]
    PROVE  /\ \A row \in Record : Remembered(row) => Remembered(row)'
           /\ \A d \in Clients : Genuine(d) => Genuine(d)'
<1>1. \A d \in Clients : Genuine(d) => Genuine(d)'
    BY DEF Genuine
<1>2. ASSUME NEW row \in Record, Remembered(row) PROVE Remembered(row)'
    <2>1. Supported(row)'
        BY <1>1, <1>2 DEF Remembered, Supported, Record
    <2> QED BY <1>2, <2>1 DEF Remembered, TypeOK, Record
<1> QED BY <1>1, <1>2

\* One request moves; the others keep what they remember.
LEMMA OthersStable ==
    ASSUME TypeOK, TypeOK', GenuineInv, NEW c \in Clients,
           \A d \in Clients \ {c} : clients'[d] = clients[d],
           \A row \in Record : Remembered(row) => Remembered(row)',
           \A d \in Clients : Genuine(d) => Genuine(d)'
    PROVE  \A d \in Clients \ {c} : RequestInv(d)'
    BY DEF GenuineInv, RequestInv, TypeOK, Client

LEMMA IdleRemembered == ASSUME TypeOK PROVE Remembered(Idle.seen) /\ Idle.seen = NoRow(0)
    BY DEF Remembered, Supported, Idle, NoRow, TypeOK, Record

LEMMA GenuineStep == ASSUME TypeInv, TypeInv', GenuineInv, [Next]_vars PROVE GenuineInv'
<1> USE DEF TypeInv
<1>0. /\ \A d \in Clients : clients[d] \in Client /\ clients[d].seen \in Record
      /\ record \in Record
    BY DEF TypeOK, Client
<1>1. ASSUME NEW c \in Clients, UNCHANGED <<record, ended>>,
             \A d \in Clients \ {c} : clients'[d] = clients[d],
             RequestInv(c)'
      PROVE  GenuineInv'
    <2>1. /\ \A row \in Record : Remembered(row) => Remembered(row)'
          /\ \A d \in Clients : Genuine(d) => Genuine(d)'
        BY <1>1 DEF Remembered, Supported, Genuine
    <2>2. Remembered(record)'
        BY <1>0, <1>1, <2>1 DEF GenuineInv, Remembered, Supported, Genuine
    <2> QED BY <1>1, <2>1, <2>2, OthersStable DEF GenuineInv
<1>2. ASSUME NEW c \in Clients, clients' = [clients EXCEPT ![c] = Idle], UNCHANGED <<record, ended>>
      PROVE  GenuineInv'
    <2>1. clients'[c] = Idle /\ Idle.pc = "idle"
        BY <1>2 DEF TypeOK, Idle
    <2>2. Remembered(Idle.seen)'
        BY <1>2, IdleRemembered DEF Remembered, Supported, Genuine
    <2>3. RequestInv(c)'
        BY <2>1, <2>2 DEF RequestInv
    <2> QED BY <1>1, <1>2, <2>3 DEF TypeOK
<1>3. ASSUME NEW c \in Clients, Lookup(c) PROVE GenuineInv'
    <2>1. clients'[c].pc = "looked" /\ clients'[c].seen = record
        BY <1>3 DEF Lookup, TypeOK, Idle
    <2>2. Remembered(record)'
        BY <1>3 DEF Lookup, GenuineInv, Remembered, Supported, Genuine
    <2>3. RequestInv(c)'
        BY <1>3, <2>1, <2>2 DEF Lookup, RequestInv
    <2> QED BY <1>1, <1>3, <2>3 DEF Lookup, TypeOK
<1>4. ASSUME NEW c \in Clients, Mismatch(c) PROVE GenuineInv'
    <2>1. clients'[c].pc = "mismatch" /\ clients'[c].seen = Idle.seen
        BY <1>4 DEF Mismatch, TypeOK, Idle
    <2>2. Remembered(Idle.seen)'
        BY <1>4, IdleRemembered DEF Mismatch, Remembered, Supported, Genuine
    <2>3. RequestInv(c)'
        BY <2>1, <2>2 DEF RequestInv
    <2> QED BY <1>1, <1>4, <2>3 DEF Mismatch, TypeOK
<1>5. ASSUME NEW c \in Clients, Replay(c) PROVE GenuineInv'
    <2>1. /\ clients'[c].pc = "replayed"
          /\ clients'[c].seen = Idle.seen
          /\ clients'[c].answer = clients[c].seen.response
        BY <1>5 DEF Replay, TypeOK, Idle
    <2>2. Remembered(Idle.seen)'
        BY <1>5, IdleRemembered DEF Replay, Remembered, Supported, Genuine
    <2>3. /\ clients[c].seen.response \in Clients
          /\ PayloadOf[clients[c].seen.response] = PayloadOf[c]
          /\ Genuine(clients[c].seen.response)
        BY <1>0, <1>5
        DEF Replay, Replayable, GenuineInv, RequestInv, Remembered, Supported, Record
    <2>5. RequestInv(c)'
        BY <1>5, <2>1, <2>2, <2>3 DEF RequestInv, Genuine, Replay
    <2> QED BY <1>1, <1>5, <2>5 DEF Replay, TypeOK
<1>6. ASSUME NEW c \in Clients, Refuse(c) \/ Die(c) PROVE GenuineInv'
    BY <1>2, <1>6 DEF Refuse, Die
<1>7. ASSUME NEW c \in Clients, Reach(c) \/ Reject(c) \/ \E b \in BOOLEAN : Fail(c, b)
      PROVE  GenuineInv'
    <2>1. /\ clients[c].pc = "running" /\ clients'[c].pc = "ran"
          /\ clients'[c].seen = clients[c].seen
          /\ UNCHANGED <<record, ended>>
          /\ \A d \in Clients \ {c} : clients'[d] = clients[d]
        BY <1>0, <1>7 DEF Reach, Reject, Fail, TypeOK, Client
    <2>2. RequestInv(c)'
        BY <2>1 DEF GenuineInv, RequestInv, Remembered, Supported, Genuine
    <2> QED BY <1>1, <2>1, <2>2
\* Steps that write the row.
<1>8. ASSUME record.id <= record'.id,
             record.status # "absent" /\ record'.id = record.id =>
               record'.status # "absent" /\ record'.hash = record.hash,
             \A d \in Clients : ended[d] \subseteq ended'[d],
             Remembered(record)',
             \/ UNCHANGED clients
             \/ \E c \in Clients : /\ RequestInv(c)'
                                   /\ \A d \in Clients \ {c} : clients'[d] = clients[d]
      PROVE  GenuineInv'
    <2>1. /\ \A row \in Record : Remembered(row) => Remembered(row)'
          /\ \A d \in Clients : Genuine(d) => Genuine(d)'
        BY <1>8, RememberedStable
    <2>2. CASE UNCHANGED clients
        BY <1>0, <1>8, <2>1, <2>2 DEF GenuineInv, RequestInv, Client
    <2>3. ASSUME NEW c \in Clients, RequestInv(c)', \A d \in Clients \ {c} : clients'[d] = clients[d]
          PROVE  GenuineInv'
        BY <1>8, <2>1, <2>3, OthersStable DEF GenuineInv
    <2> QED BY <1>8, <2>2, <2>3
<1>9. ASSUME NEW c \in Clients, TakeOver(c) PROVE GenuineInv'
    <2> DEFINE seen == clients[c].seen
    <2>1. CASE ~(record.id = seen.id /\ record.status # "absent")
        BY <1>2, <1>9, <2>1 DEF TakeOver
    <2>2. CASE record.id = seen.id /\ record.status # "absent"
        <3>1. /\ record' = TakenOver(record, seen)
              /\ clients' = [clients EXCEPT ![c].pc = "running"]
              /\ ended' = ended /\ seen.hash = PayloadOf[c]
            BY <1>9, <2>2 DEF TakeOver
        <3>2. /\ record'.id = record.id /\ record'.hash = record.hash
              /\ record'.status # "absent" /\ record'.response \in {record.response, None}
            BY <1>0, <2>2, <3>1 DEF TakenOver, Record
        <3>3. Remembered(record)'
            BY <1>0, <3>1, <3>2 DEF GenuineInv, Remembered, Supported, Genuine, Record
        <3>4. seen.status # "absent"
            BY <3>1, <1>0, PayloadAssumption DEF GenuineInv, RequestInv, Remembered
        <3>5. clients'[c].pc = "running" /\ clients'[c].seen = seen
            BY <1>0, <3>1 DEF TypeOK, Client
        <3>6. Remembered(seen)'
            BY <1>0, <3>1, <3>2, RememberedStable DEF GenuineInv, RequestInv, Record
        <3>7. RequestInv(c)'
            BY <3>1, <3>4, <3>5, <3>6 DEF RequestInv
        <3> QED BY <1>0, <1>8, <3>1, <3>2, <3>3, <3>7 DEF TypeOK, Record
    <2> QED BY <2>1, <2>2
<1>10. ASSUME NEW c \in Clients, Insert(c) PROVE GenuineInv'
    <2>1. CASE record.status # "absent"
        BY <1>2, <1>10, <2>1 DEF Insert
    <2>2. CASE record.status = "absent"
        <3>1. /\ record' = [NoRow(record.id) EXCEPT !.status = "processing", !.hash = PayloadOf[c]]
              /\ clients' = [clients EXCEPT ![c].pc = "running", ![c].seen = record']
              /\ ended' = ended
            BY <1>10, <2>2 DEF Insert
        <3>2. /\ record'.id = record.id /\ record'.hash = PayloadOf[c]
              /\ record'.status = "processing" /\ record'.response = None
            BY <3>1 DEF NoRow
        <3>3. Remembered(record)'
            BY <1>0, <3>2 DEF Remembered, Supported, Record
        <3>4. clients'[c].pc = "running" /\ clients'[c].seen = record'
            BY <3>1 DEF TypeOK, Client
        <3>5. RequestInv(c)'
            BY <3>2, <3>3, <3>4 DEF RequestInv
        <3> QED BY <1>0, <1>8, <2>2, <3>1, <3>2, <3>3, <3>5 DEF TypeOK, Record
    <2> QED BY <2>1, <2>2
<1>11. ASSUME NEW c \in Clients, Finish(c) PROVE GenuineInv'
    <2> DEFINE outcome == clients[c].outcome
               written == record.id = clients[c].seen.id /\ record.status # "absent"
    <2>1. /\ outcome \in {"reached", "rejected", "error"}
          /\ clients[c].seen.status # "absent" /\ clients[c].seen.hash = PayloadOf[c]
        BY <1>0, <1>11 DEF Finish, OutcomeKnown, Client, GenuineInv, RequestInv
    <2>2. /\ \A d \in Clients : ended[d] \subseteq ended'[d]
          /\ outcome # "error" => Genuine(c)'
        BY <1>11, <2>1 DEF Finish, TypeOK, Genuine
    <2>3. /\ record'.id = record.id /\ record'.hash = record.hash
          /\ record.status # "absent" => record'.status # "absent"
          /\ record.status = "absent" => record' = record
          /\ \/ record'.response = record.response
             \/ record'.response = c /\ outcome # "error" /\ written
        BY <1>0, <1>11 DEF Finish, Recorded, Record
    <2>4. \A row \in Record : Remembered(row) => Remembered(row)'
        BY <1>0, <2>2, <2>3, RememberedStable DEF Record
    <2>5. Remembered(record)'
        <3>1. CASE record'.response = record.response
            BY <1>0, <2>2, <2>3, <2>4, <3>1, RememberedStable
            DEF GenuineInv, Remembered, Supported, Record, TypeOK
        <3>2. CASE record'.response = c /\ outcome # "error" /\ written
            <4>1. record.hash = PayloadOf[c]
                BY <2>1, <3>2 DEF GenuineInv, RequestInv, Remembered
            <4> QED BY <1>0, <2>2, <2>3, <3>2, <4>1
                    DEF GenuineInv, Remembered, Supported, Record, TypeOK
        <3> QED BY <2>3, <3>1, <3>2
    <2>6. RequestInv(c)'
        <3>1. clients'[c].pc \in {"idle", "own"} /\ clients'[c].seen = Idle.seen
            BY <1>11 DEF Finish, TypeOK, Idle
        <3>2. Idle.seen \in Record
            BY IdleType DEF Client
        <3> QED BY <2>4, <3>1, <3>2, IdleRemembered DEF RequestInv
    <2>7. \A d \in Clients \ {c} : clients'[d] = clients[d]
        BY <1>11 DEF Finish, TypeOK
    <2> QED BY <1>0, <1>8, <2>2, <2>3, <2>5, <2>6, <2>7 DEF TypeOK, Record
<1>12. CASE RunIsLate
    <2>1. /\ record'.id = record.id /\ record'.hash = record.hash
          /\ record'.status = record.status /\ record'.response = record.response
          /\ UNCHANGED <<clients, ended>>
        BY <1>0, <1>12 DEF RunIsLate, Record
    <2>2. Remembered(record)'
        BY <1>0, <2>1 DEF GenuineInv, Remembered, Supported, Genuine, Record
    <2> QED BY <1>0, <1>8, <2>1, <2>2 DEF Record
<1>13. CASE Purge
    <2>1. record' = NoRow(record.id + 1) /\ UNCHANGED <<clients, ended>>
        BY <1>13 DEF Purge
    <2>2. Remembered(record)'
        BY <1>0, <2>1 DEF Remembered, Supported, NoRow, Record
    <2> QED BY <1>0, <1>8, <2>1, <2>2 DEF NoRow, Record
<1>14. CASE UNCHANGED vars
    BY <1>14
    DEF vars, GenuineInv, RequestInv, Remembered, Supported, Genuine
<1> QED
    BY <1>3, <1>4, <1>5, <1>6, <1>7, <1>9, <1>10, <1>11, <1>12, <1>13, <1>14
    DEF Next, Dispatch

\* A replayed response is the response of a recorded run of the same payload,
\* for any number of senders, faults, takeovers and purges.
THEOREM ReplaysAreGenuine == Spec => []ReplayIsGenuine
<1>1. Init => GenuineInv
    <2> SUFFICES ASSUME Init PROVE GenuineInv
        OBVIOUS
    <2>1. Remembered(NoRow(0))
        BY DEF Init, Remembered, Supported, NoRow
    <2>2. \A c \in Clients : clients[c].seen = NoRow(0) /\ clients[c].pc = "idle"
        BY DEF Init, Idle
    <2> QED BY <2>1, <2>2 DEF Init, GenuineInv, RequestInv
<1>2. TypeInv /\ TypeInv' /\ GenuineInv /\ [Next]_vars => GenuineInv'
    BY GenuineStep
<1>3. GenuineInv => ReplayIsGenuine
    BY DEF GenuineInv, RequestInv, Genuine, ReplayIsGenuine
<1> QED BY <1>1, <1>2, <1>3, TypeInvHolds, PTL DEF Spec

-----------------------------------------------------------------------------
(* At most one effect.  While nothing failed, died, ran late or was purged *)
(* the row is in processing from its insertion to the end of the one run   *)
(* that it admits.                                                         *)

Runs(c) == clients[c].pc \in {"running", "ran"}

\* What such a row can look like: neither failed nor late, and with a response
\* once it is completed; without a hash as long as it is absent.
Calm(row) ==
    /\ row.status # "failed" /\ ~row.late
    /\ row.status = "completed" => row.response # None
    /\ row.status = "absent" => row.hash = None

CalmInv ==
    /\ Calm(record)
    /\ \A c \in Clients :
         /\ Calm(clients[c].seen)
         /\ Runs(c) => record.status = "processing"
         /\ clients[c].pc = "running" => effects = 0
         /\ clients[c].pc = "ran" => clients[c].outcome # "error"
    /\ \A c, d \in Clients : Runs(c) /\ Runs(d) => c = d
    /\ record.status = "absent" => effects = 0
    /\ effects <= 1

\* A request that does not run moves on, and the row stays.
LEMMA CalmMove ==
    ASSUME TypeOK, TypeOK', CalmInv, NEW c \in Clients,
           UNCHANGED <<record, effects>>,
           \A d \in Clients \ {c} : clients'[d] = clients[d],
           Calm(clients'[c].seen), clients'[c].pc \notin {"running", "ran"}
    PROVE  CalmInv'
    BY DEF CalmInv, Runs, Calm

LEMMA CalmStep ==
    ASSUME TypeInv, TypeInv', ~excused => CalmInv, ~excused', [Next]_vars
    PROVE  CalmInv'
<1> USE DEF TypeInv
<1>0. /\ \A d \in Clients : clients[d] \in Client /\ clients[d].seen \in Record
      /\ record \in Record
      /\ Calm(Idle.seen) /\ Idle.pc = "idle"
    BY DEF TypeOK, Client, Idle, NoRow, Calm
<1>1. CalmInv
    <2>1. ~excused
        BY DEF Next, Dispatch, vars, Lookup, Mismatch, Replay, Refuse, TakeOver, Insert,
               Reach, Reject, Fail, Finish, RunIsLate, Die, Purge
    <2> QED BY <2>1
<1>2. ASSUME NEW c \in Clients, Lookup(c) PROVE CalmInv'
    <2>1. clients'[c].pc = "looked" /\ clients'[c].seen = record
        BY <1>2 DEF Lookup, TypeOK, Idle
    <2> QED BY <1>1, <1>2, <2>1, CalmMove DEF Lookup, TypeOK, CalmInv
<1>3. ASSUME NEW c \in Clients, Mismatch(c) \/ Replay(c) \/ Refuse(c) PROVE CalmInv'
    <2>1. clients'[c].pc \notin {"running", "ran"} /\ clients'[c].seen = Idle.seen
        <3>1. CASE Mismatch(c)
            BY <3>1 DEF Mismatch, TypeOK, Idle
        <3>2. CASE Replay(c)
            BY <3>2 DEF Replay, TypeOK, Idle
        <3>3. CASE Refuse(c)
            BY <3>3 DEF Refuse, TypeOK, Idle
        <3> QED BY <1>3, <3>1, <3>2, <3>3
    <2>2. /\ UNCHANGED <<record, effects>>
          /\ \A d \in Clients \ {c} : clients'[d] = clients[d]
        BY <1>3 DEF Mismatch, Replay, Refuse, TypeOK
    <2> QED BY <1>0, <1>1, <2>1, <2>2, CalmMove
<1>4. ASSUME NEW c \in Clients, TakeOver(c) PROVE FALSE
    <2> DEFINE seen == clients[c].seen
    <2>1. Calm(seen) /\ seen \in Record
        BY <1>0, <1>1 DEF CalmInv
    <2>2. seen.hash = PayloadOf[c] /\ ~Replayable(seen) /\ ~InProgress(seen)
        BY <1>4 DEF TakeOver
    <2>3. PayloadOf[c] # None
        BY PayloadAssumption
    <2> QED BY <2>1, <2>2, <2>3 DEF Calm, Replayable, InProgress, Record
<1>5. ASSUME NEW c \in Clients, Insert(c) PROVE CalmInv'
    <2>1. CASE record.status # "absent"
        <3>1. clients' = [clients EXCEPT ![c] = Idle] /\ UNCHANGED <<record, effects>>
            BY <1>5, <2>1 DEF Insert
        <3>2. clients'[c] = Idle /\ \A d \in Clients \ {c} : clients'[d] = clients[d]
            BY <3>1 DEF TypeOK
        <3> QED BY <1>0, <1>1, <3>1, <3>2, CalmMove
    <2>2. CASE record.status = "absent"
        <3>1. /\ record' = [NoRow(record.id) EXCEPT !.status = "processing", !.hash = PayloadOf[c]]
              /\ clients' = [clients EXCEPT ![c].pc = "running", ![c].seen = record']
              /\ effects' = effects
            BY <1>5, <2>2 DEF Insert
        <3>2. record'.status = "processing" /\ ~record'.late /\ Calm(record)'
            BY <3>1 DEF NoRow, Calm
        <3>3. /\ clients'[c].pc = "running" /\ clients'[c].seen = record'
              /\ \A d \in Clients \ {c} : clients'[d] = clients[d]
            BY <3>1 DEF TypeOK, Client
        <3>4. effects = 0 /\ \A d \in Clients : ~Runs(d)
            BY <1>1, <2>2 DEF CalmInv
        <3>5. /\ \A d \in Clients \ {c} : ~Runs(d)'
              /\ \A d \in Clients : Calm(clients[d].seen)'
            <4>1. \A d \in Clients : Calm(clients[d].seen)
                BY <1>1 DEF CalmInv
            <4>2. Calm(clients[c].seen)'
                BY <3>2, <3>3 DEF Calm
            <4> QED BY <3>3, <3>4, <4>1, <4>2 DEF Runs, Calm
        <3>6. effects' = 0
            BY <3>1, <3>4
        <3> HIDE DEF TypeInv
        <3> QED BY <3>2, <3>3, <3>5, <3>6 DEF CalmInv, Runs
    <2> QED BY <2>1, <2>2
<1>6. ASSUME NEW c \in Clients, Reach(c) \/ Reject(c) PROVE CalmInv'
    <2>1. /\ clients[c].pc = "running" /\ clients'[c].pc = "ran"
          /\ clients'[c].seen = clients[c].seen
          /\ clients'[c].outcome \in {"reached", "rejected"}
          /\ record' = record
          /\ effects' \in {effects, effects + 1}
          /\ \A d \in Clients \ {c} : clients'[d] = clients[d]
        BY <1>0, <1>6 DEF Reach, Reject, TypeOK, Client
    <2>2. effects = 0 /\ record.status = "processing" /\ \A d \in Clients \ {c} : ~Runs(d)
        BY <1>1, <2>1 DEF CalmInv, Runs
    <2> QED BY <1>1, <2>1, <2>2 DEF CalmInv, Runs, Calm
<1>7. ASSUME NEW c \in Clients, Finish(c) PROVE CalmInv'
    <2>1. /\ clients[c].pc = "ran" /\ clients[c].outcome # "error"
          /\ record.status = "processing"
          /\ \A d \in Clients \ {c} : ~Runs(d)
        BY <1>1, <1>7 DEF Finish, CalmInv, Runs
    <2>2. Calm(record)' /\ record'.status \in {"processing", "completed"}
        BY <1>0, <1>1, <1>7, <2>1, ClientsAssumption DEF Finish, Recorded, Calm, CalmInv, Record
    <2>3. /\ clients'[c].pc = "own" /\ clients'[c].seen = Idle.seen
          /\ \A d \in Clients \ {c} : clients'[d] = clients[d]
          /\ effects' = effects
        <3>1. clients' = [clients EXCEPT ![c] = [Idle EXCEPT !.pc = "own", !.answer = c]]
            BY <1>7, <2>1 DEF Finish
        <3>2. clients'[c] = [Idle EXCEPT !.pc = "own", !.answer = c]
            BY <3>1 DEF TypeOK
        <3>3. clients'[c].pc = "own" /\ clients'[c].seen = Idle.seen
            BY <3>2 DEF Idle
        <3> QED BY <1>7, <3>1, <3>3 DEF Finish, TypeOK
    <2>4. \A d \in Clients : ~Runs(d)' /\ Calm(clients'[d].seen)
        BY <1>0, <1>1, <2>1, <2>3 DEF CalmInv, Runs
    <2> QED BY <1>1, <2>2, <2>3, <2>4 DEF CalmInv, Runs, Calm
<1>8. ASSUME NEW c \in Clients, Die(c) \/ \E b \in BOOLEAN : Fail(c, b) PROVE FALSE
    BY <1>8 DEF Die, Fail
<1>9. CASE RunIsLate \/ Purge
    BY <1>9 DEF RunIsLate, Purge
<1>10. CASE UNCHANGED vars
    BY <1>1, <1>10 DEF vars, CalmInv, Runs, Calm
<1> QED
    BY <1>2, <1>3, <1>4, <1>5, <1>6, <1>7, <1>8, <1>9, <1>10 DEF Next, Dispatch

\* However many senders of a key overlap, the endpoint commits at most once as
\* long as no run fails, dies or is late and the row is not purged.
THEOREM EffectsAreAtMostOne == Spec => []AtMostOneEffect
<1>1. Init => (~excused => CalmInv)
    <2> SUFFICES ASSUME Init PROVE CalmInv
        OBVIOUS
    <2>1. \A c \in Clients : clients[c].seen = NoRow(0) /\ clients[c].pc = "idle"
        BY DEF Init, Idle
    <2> QED BY <2>1 DEF Init, CalmInv, Calm, Runs, NoRow
<1>2. TypeInv /\ TypeInv' /\ (~excused => CalmInv) /\ [Next]_vars => (~excused => CalmInv)'
    BY CalmStep
<1>3. (~excused => CalmInv) => AtMostOneEffect
    BY DEF CalmInv, AtMostOneEffect
<1> QED BY <1>1, <1>2, <1>3, TypeInvHolds, PTL DEF Spec

=============================================================================
