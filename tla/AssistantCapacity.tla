-------------------------- MODULE AssistantCapacity --------------------------
(***************************************************************************)
(* Admission control of the assistant: two lanes with a limit of running   *)
(* requests, a limit of waiting ones and a timeout.  A chat turn holds a   *)
(* chat permit while its tools, several at a time, each ask for an         *)
(* embedding permit of their own.                                          *)
(*   backend/app/services/assistant_capacity_service.py                    *)
(*   backend/app/api/management/assistant.py (chat, its event stream)      *)
(*   backend/app/assistant/engine.py (the tool calls of a turn)            *)
(*   backend/app/assistant/rag/embeddings.py                               *)
(*                                                                         *)
(* One server process.  Each action is one critical section of the lock,   *)
(* or a step between two awaits.  Waiting is a loop of short sleeps, not a *)
(* queue: whoever polls first after a release is admitted.                 *)
(***************************************************************************)
EXTENDS Naturals, FiniteSets

CONSTANTS
    Turns,          \* chat requests
    Calls,          \* embedding requests
    Caller,         \* the turn each embedding request belongs to
    MaxConcurrent,  \* permits of each lane
    MaxQueue        \* waiting requests of each lane

Lanes == {"chat", "embedding"}

Requests == Turns \cup Calls

Lane(r) == IF r \in Turns THEN "chat" ELSE "embedding"

ASSUME RequestsAssumption ==
    /\ IsFiniteSet(Turns) /\ IsFiniteSet(Calls) /\ Turns \cap Calls = {}
    /\ Caller \in [Calls -> Turns]
ASSUME LimitsAssumption ==
    /\ MaxConcurrent \in [Lanes -> Nat \ {0}]
    /\ MaxQueue \in [Lanes -> Nat]

VARIABLES
    active,      \* permits the lane counts as held
    queued,      \* requests the lane counts as waiting
    at,          \* where each request stands
    waiting,     \* requests whose acquire loop has joined the queue
    gone,        \* turns whose client has disconnected
    forgotten,   \* ghost: waits that ended without the lane's knowledge
    abandoned    \* ghost: chat permits that nobody will release

vars == <<active, queued, at, waiting, gone, forgotten, abandoned>>

\* asking: in the acquire loop; admitted: holds a permit, and of a turn, the
\* event stream has not started; closing: the stream has cancelled its producer.
Places == {"new", "asking", "admitted", "streaming", "closing", "done",
           "rejected", "abandoned"}

Init ==
    /\ active = [l \in Lanes |-> 0]
    /\ queued = [l \in Lanes |-> 0]
    /\ at = [r \in Requests |-> "new"]
    /\ waiting = {} /\ gone = {}
    /\ forgotten = [l \in Lanes |-> 0]
    /\ abandoned = 0

\* max(0, n - 1)
Less(n) == IF n = 0 THEN 0 ELSE n - 1

Full(l) == active[l] >= MaxConcurrent[l]

\* The task of an embedding request is cancelled with the producer of its turn.
Cancelled(r) == r \in Calls /\ at[Caller[r]] # "streaming"

\* The request runs its acquire loop.
Asking(r) == at[r] = "asking" /\ ~Cancelled(r)

--------------------------------------------------------------------------
(* acquire: one pass of its loop. *)

\* POST /assistant/chat.
Start(t) ==
    /\ at[t] = "new"
    /\ at' = [at EXCEPT ![t] = "asking"]
    /\ UNCHANGED <<active, queued, waiting, gone, forgotten, abandoned>>

\* The engine chooses its tools by embedding, or runs a search: of the tool
\* calls of one answer all at once, each with a request of its own.
Embed(c) ==
    /\ at[c] = "new" /\ at[Caller[c]] = "streaming"
    /\ at' = [at EXCEPT ![c] = "asking"]
    /\ UNCHANGED <<active, queued, waiting, gone, forgotten, abandoned>>

\* Mutant: who is admitted stays in the queue.
AdmitQueued(r) ==
    /\ Asking(r)
    /\ ~Full(Lane(r))
    /\ active' = [active EXCEPT ![Lane(r)] = @ + 1]
    /\ at' = [at EXCEPT ![r] = "admitted"]
    /\ waiting' = waiting \ {r}
    /\ UNCHANGED <<queued, gone, forgotten, abandoned>>

\* A free permit goes to whoever polls first.
Admit(r) ==
    /\ Asking(r)
    /\ ~Full(Lane(r))
    /\ active' = [active EXCEPT ![Lane(r)] = @ + 1]
    /\ queued' = IF r \in waiting THEN [queued EXCEPT ![Lane(r)] = Less(@)] ELSE queued
    /\ at' = [at EXCEPT ![r] = "admitted"]
    /\ waiting' = waiting \ {r}
    /\ UNCHANGED <<gone, forgotten, abandoned>>

\* Mutant: one too many.
QueueIsOver(l) == queued[l] > MaxQueue[l]

\* The first pass finds the lane and its queue full.
QueueIsFull(l) == queued[l] >= MaxQueue[l]

\* AssistantCapacityExceeded: a turn is answered 503; an embedding request
\* fails inside a turn that goes on.
RefuseFull(r) ==
    /\ Asking(r) /\ r \notin waiting
    /\ Full(Lane(r)) /\ QueueIsFull(Lane(r))
    /\ at' = [at EXCEPT ![r] = "rejected"]
    /\ UNCHANGED <<active, queued, waiting, gone, forgotten, abandoned>>

Join(r) ==
    /\ Asking(r) /\ r \notin waiting
    /\ Full(Lane(r)) /\ ~QueueIsFull(Lane(r))
    /\ queued' = [queued EXCEPT ![Lane(r)] = @ + 1]
    /\ waiting' = waiting \cup {r}
    /\ UNCHANGED <<active, at, gone, forgotten, abandoned>>

\* Mutant: chat requests wait without a timeout.
TimeOutEmbedding(r) ==
    /\ Asking(r) /\ r \in waiting /\ r \in Calls
    /\ Full(Lane(r))
    /\ queued' = [queued EXCEPT ![Lane(r)] = Less(@)]
    /\ at' = [at EXCEPT ![r] = "rejected"]
    /\ waiting' = waiting \ {r}
    /\ UNCHANGED <<active, gone, forgotten, abandoned>>

\* The timeout has passed and the lane is still full.
TimeOut(r) ==
    /\ Asking(r) /\ r \in waiting
    /\ Full(Lane(r))
    /\ queued' = [queued EXCEPT ![Lane(r)] = Less(@)]
    /\ at' = [at EXCEPT ![r] = "rejected"]
    /\ waiting' = waiting \ {r}
    /\ UNCHANGED <<active, gone, forgotten, abandoned>>

--------------------------------------------------------------------------
(* The event stream of a turn. *)

\* The body of the response is iterated for the first time.
Stream(t) ==
    /\ at[t] = "admitted"
    /\ at' = [at EXCEPT ![t] = "streaming"]
    /\ UNCHANGED <<active, queued, waiting, gone, forgotten, abandoned>>

\* A client that disconnected while its request waited: the response is given
\* up before its body is iterated, and the finally clause that releases the
\* permit is part of the body.
Abandon(t) ==
    /\ at[t] = "admitted"
    /\ t \in gone
    /\ at' = [at EXCEPT ![t] = "abandoned"]
    /\ abandoned' = abandoned + 1
    /\ UNCHANGED <<active, queued, waiting, gone, forgotten>>

Disconnect(t) ==
    /\ at[t] \in {"asking", "admitted", "streaming"}
    /\ t \notin gone
    /\ gone' = gone \cup {t}
    /\ UNCHANGED <<active, queued, at, waiting, forgotten, abandoned>>

\* The stream notices the disconnection and cancels its producer, and with it
\* every call that the producer has started.
Notice(t) ==
    /\ at[t] = "streaming"
    /\ t \in gone
    /\ at' = [at EXCEPT ![t] = "closing"]
    /\ UNCHANGED <<active, queued, waiting, gone, forgotten, abandoned>>

\* assistant_embedding_slot is left, by a result, an error or a cancellation.
EmbedDone(c) ==
    /\ at[c] = "admitted"
    /\ active' = [active EXCEPT !["embedding"] = Less(@)]
    /\ at' = [at EXCEPT ![c] = "done"]
    /\ UNCHANGED <<queued, waiting, gone, forgotten, abandoned>>

\* The cancellation meets a request in the sleep of the acquire loop: the
\* exception passes the lane's counter by.
CancelWait(c) ==
    /\ at[c] = "asking" /\ Cancelled(c)
    /\ at' = [at EXCEPT ![c] = "done"]
    /\ waiting' = waiting \ {c}
    /\ forgotten' = IF c \in waiting
                      THEN [forgotten EXCEPT !["embedding"] = @ + 1] ELSE forgotten
    /\ UNCHANGED <<active, queued, gone, abandoned>>

Ended(c) == at[c] \in {"new", "done", "rejected"}

\* The stream ends with the answer, when all calls of the turn have ended, or
\* after the cancellation, whatever is left of them.
Finish(t) ==
    /\ \/ at[t] = "streaming" /\ \A c \in Calls : Caller[c] = t => Ended(c)
       \/ at[t] = "closing"
    /\ active' = [active EXCEPT !["chat"] = Less(@)]
    /\ at' = [at EXCEPT ![t] = "done"]
    /\ UNCHANGED <<queued, waiting, gone, forgotten, abandoned>>

--------------------------------------------------------------------------

Poll(r) == Admit(r) \/ RefuseFull(r) \/ Join(r) \/ TimeOut(r)

Next ==
    \/ \E r \in Requests : Poll(r)
    \/ \E t \in Turns :
        Start(t) \/ Stream(t) \/ Abandon(t) \/ Disconnect(t) \/ Notice(t) \/ Finish(t)
    \/ \E c \in Calls : Embed(c) \/ EmbedDone(c) \/ CancelWait(c)

Spec == Init /\ [][Next]_vars

\* The event loop runs every task that is ready, a request in the loop polls
\* until its timeout, and embedding calls and answers end.
FairSpec ==
    /\ Spec
    /\ \A t \in Turns : WF_vars(Poll(t) \/ Stream(t) \/ Finish(t))
    /\ \A c \in Calls : WF_vars(Poll(c) \/ EmbedDone(c))

--------------------------------------------------------------------------
(* Properties. *)

\* The counters stay within the limits of their lane.
TypeOK ==
    /\ active \in [Lanes -> Nat] /\ \A l \in Lanes : active[l] <= MaxConcurrent[l]
    /\ queued \in [Lanes -> Nat] /\ \A l \in Lanes : queued[l] <= MaxQueue[l]
    /\ at \in [Requests -> Places]
    /\ waiting \subseteq Requests
    /\ gone \subseteq Turns
    /\ forgotten \in [Lanes -> Nat]
    /\ abandoned \in Nat

\* The requests that hold a permit of the lane, and those that wait for one.
Holders(l) == {r \in Requests : Lane(r) = l /\ at[r] \in {"admitted", "streaming", "closing"}}

Waiters(l) == {r \in waiting : Lane(r) = l}

\* No request is counted twice or released for another: what a lane counts is
\* the requests that hold it and the requests that wait for it, however many of
\* one turn, through every admission, refusal, timeout and disconnection - and,
\* forever, the chat permits whose stream never started and the waits that were
\* cancelled.
SlotsAccounted ==
    /\ active["embedding"] = Cardinality(Holders("embedding"))
    /\ active["chat"] = Cardinality(Holders("chat")) + abandoned
    /\ \A l \in Lanes : queued[l] = Cardinality(Waiters(l)) + forgotten[l]

\* Turns that hold a chat permit and wait for embedding permits do not block
\* each other, nor do permits that are lost: every turn that starts is
\* answered, refused or abandoned by its client.
EveryTurnEnds ==
    \A t \in Turns :
        at[t] = "asking" ~> at[t] \in {"done", "rejected", "abandoned"}

=============================================================================
