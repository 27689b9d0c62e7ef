---------------------------- MODULE Collaboration ----------------------------
(***************************************************************************)
(* Live editing of one document: the sessions of the collaboration server, *)
(* the tokens it keeps to act on their behalf, the document it holds in    *)
(* memory, its cache, and the state the backend stores.                    *)
(*   collab-server/src/server/collabServerApp.ts, connectionRegistry.ts    *)
(*   collab-server/src/documentAuthStore.ts, persistence.ts                *)
(*   backend/app/collaboration/state_manager.py and its endpoints          *)
(*                                                                         *)
(* The content is a Yjs document: a set of edits that only merges.  The    *)
(* server library (Hocuspocus: when it loads, stores and unloads) and the  *)
(* browsers are external, modelled by how the code here is called.         *)
(* A value that may be missing is a set of at most one element.            *)
(***************************************************************************)
EXTENDS Naturals, FiniteSets

CONSTANTS
    Clients,         \* browsers, each with its own copy of the document
    Edits,           \* bound: the edits that are made
    MaxConnections,  \* the document's limit of connections
    MaxSaves,        \* bound: requests to store that overlap
    TokenAccepted,   \* whether the state endpoints accept the server's tokens:
                     \* the possible values
    Disturbances     \* whether requests may fail for other reasons, tokens be
                     \* swept and the stored state be reset

ASSUME ClientsAssumption == IsFiniteSet(Clients)
ASSUME LimitsAssumption == MaxConnections \in Nat \ {0} /\ MaxSaves \in Nat \ {0}
ASSUME SwitchesAssumption == TokenAccepted \subseteq BOOLEAN /\ Disturbances \in BOOLEAN

VARIABLES
    pc,        \* where each client's connection stands
    copy,      \* the edits in the browser, kept there when the tab closes
    registry,  \* ConnectionRegistry.activeConnections: the mode of each
    auth,      \* documentAuthStore: the mode of the token held for each
    live,      \* the document in memory
    pending,   \* a store is scheduled
    saves,     \* states on their way to the backend
    failed,    \* documentsWithPersistenceFailures
    cache,     \* documentCache
    stored,    \* documents.yjs_state
    accepts    \* whether the state endpoints take a collaboration token

vars == <<pc, copy, registry, auth, live, pending, saves, failed, cache, stored, accepts>>

Modes == {"none", "read", "write"}
State == SUBSET Edits
Optional(S) == {T \in SUBSET S : Cardinality(T) <= 1}

\* The edits of a state that may be missing.
Content(s) == UNION s

Init ==
    /\ pc = [c \in Clients |-> "away"]
    /\ copy = [c \in Clients |-> {}]
    /\ registry = [c \in Clients |-> "none"]
    /\ auth = [c \in Clients |-> "none"]
    /\ live = {}
    /\ pending = FALSE
    /\ saves = {}
    /\ failed = FALSE
    /\ cache = {}
    /\ stored = {}
    /\ accepts \in TokenAccepted

Registered == {c \in Clients : registry[c] # "none"}
Synced == {c \in Clients : pc[c] = "synced"}

-----------------------------------------------------------------------------
(* Sessions *)

\* A client presents its token; the server asks the backend to verify it.
Verify(c) ==
    /\ pc[c] = "away"
    /\ pc' = [pc EXCEPT ![c] = "verifying"]
    /\ UNCHANGED <<copy, registry, auth, live, pending, saves, failed, cache, stored, accepts>>

\* Mutant: one too many.
HasRoomLeft == Cardinality(Registered) <= MaxConnections

HasRoom == Cardinality(Registered) < MaxConnections

\* The backend's answer, with the permissions it grants: the limits are read and
\* the connection is registered in one go.
Join(c) ==
    /\ pc[c] = "verifying"
    /\ HasRoom
    /\ \E mode \in {"read", "write"} :
        /\ registry' = [registry EXCEPT ![c] = mode]
        /\ auth' = [auth EXCEPT ![c] = mode]
    /\ pc' = [pc EXCEPT ![c] = "registered"]
    /\ UNCHANGED <<copy, live, pending, saves, failed, cache, stored, accepts>>

\* The backend denies the token, or the document is full.
Refuse(c) ==
    /\ pc[c] = "verifying"
    /\ pc' = [pc EXCEPT ![c] = "away"]
    /\ UNCHANGED <<copy, registry, auth, live, pending, saves, failed, cache, stored, accepts>>

\* Mutant: the tokens go with the last connection only.
TokensUntilLast(c) ==
    IF Registered \subseteq {c} THEN [d \in Clients |-> "none"] ELSE auth

\* The tokens left when c leaves: the last one clears what is there.
TokensWithout(c) ==
    IF Registered \subseteq {c} THEN [d \in Clients |-> "none"]
                                ELSE [auth EXCEPT ![c] = "none"]

\* A connection closes: unregistered first, tokens and cache cleared with the last
\* one, and only then the library's final store.
Leave(c) ==
    /\ pc[c] \in {"registered", "synced"}
    /\ pc' = [pc EXCEPT ![c] = "away"]
    /\ registry' = [registry EXCEPT ![c] = "none"]
    /\ auth' = TokensWithout(c)
    /\ cache' = IF Registered \subseteq {c} THEN {} ELSE cache
    /\ pending' = (pending \/ (live # {} /\ Synced = {c}))
    /\ UNCHANGED <<copy, live, saves, failed, stored, accepts>>

\* An hour without a join, a load or a store: the sweep drops the tokens, also those
\* of open connections.
Sweep ==
    /\ ~pending /\ saves = {} /\ Disturbances
    /\ \E c \in Clients : auth[c] # "none"
    /\ auth' = [c \in Clients |-> "none"]
    /\ UNCHANGED <<pc, copy, registry, live, pending, saves, failed, cache, stored, accepts>>

-----------------------------------------------------------------------------
(* Loading and editing *)

\* What loadDocument may return: the cached state; the stored one; nothing when
\* there is no token, no stored state, or the request fails.
Fetched ==
    IF \A c \in Clients : auth[c] = "none" THEN {{}}
    ELSE IF cache # {} THEN {cache}
    ELSE (IF accepts THEN {stored} ELSE {{}}) \cup (IF Disturbances THEN {{}} ELSE {})

\* The first connection has the document loaded; a missing state is an empty one.
Load ==
    /\ live = {}
    /\ \E c \in Clients : pc[c] = "registered"
    /\ \E s \in Fetched :
        /\ live' = {Content(s)}
        /\ cache' = IF s = {} THEN cache ELSE s
    /\ UNCHANGED <<pc, copy, registry, auth, pending, saves, failed, stored, accepts>>

\* The document in memory takes in the edits of new; every synced browser follows.
Merge(c, new) ==
    LET merged == Content(live) \cup new
    IN  /\ live' = {merged}
        /\ copy' = [d \in Clients |-> IF d \in Synced \cup {c} THEN copy[d] \cup merged ELSE copy[d]]
        /\ pending' = (pending \/ merged # Content(live))

\* Browser and server exchange what the other lacks; a read-only one only receives.
Sync(c) ==
    /\ pc[c] = "registered"
    /\ live # {}
    /\ pc' = [pc EXCEPT ![c] = "synced"]
    /\ Merge(c, IF registry[c] = "write" THEN copy[c] ELSE {})
    /\ UNCHANGED <<registry, auth, saves, failed, cache, stored, accepts>>

\* A new edit, made by a writer online or kept in the browser until it is back.
EditOnline(c, e) ==
    /\ pc[c] = "synced" /\ registry[c] = "write"
    /\ \A d \in Clients : e \notin copy[d]
    /\ Merge(c, {e})
    /\ UNCHANGED <<pc, registry, auth, saves, failed, cache, stored, accepts>>

EditOffline(c, e) ==
    /\ pc[c] = "away"
    /\ \A d \in Clients : e \notin copy[d]
    /\ copy' = [copy EXCEPT ![c] = @ \cup {e}]
    /\ UNCHANGED <<pc, registry, auth, live, pending, saves, failed, cache, stored, accepts>>

-----------------------------------------------------------------------------
(* Storing *)

\* Mutant: the state is added to what is cached.
CacheAdd(s) == cache' = cache \cup {s}

CacheSet(s) == cache' = {s}

StoreToken == \E c \in Clients : auth[c] = "write"

\* Mutant: nobody is warned.
StoreDropped ==
    /\ pending /\ ~StoreToken
    /\ pending' = FALSE
    /\ UNCHANGED <<pc, copy, registry, auth, live, saves, failed, cache, stored, accepts>>

\* The scheduled store finds no token of a writer.
StoreRefused ==
    /\ pending /\ ~StoreToken
    /\ pending' = FALSE
    /\ failed' = TRUE
    /\ UNCHANGED <<pc, copy, registry, auth, live, saves, cache, stored, accepts>>

\* The scheduled store sends the state it encodes, cached before the answer.
StoreSent ==
    /\ pending /\ StoreToken
    /\ Cardinality(saves) < MaxSaves
    /\ pending' = FALSE
    /\ saves' = saves \cup live
    /\ CacheSet(Content(live))
    /\ UNCHANGED <<pc, copy, registry, auth, live, failed, stored, accepts>>

\* The backend has written the state; the warning is withdrawn.
SaveSucceeds(s) ==
    /\ s \in saves
    /\ accepts
    /\ saves' = saves \ {s}
    /\ stored' = {s}
    /\ failed' = FALSE
    /\ UNCHANGED <<pc, copy, registry, auth, live, pending, cache, accepts>>

\* The request fails, or times out when the backend may have written the state.
SaveFails(s) ==
    /\ s \in saves
    /\ ~accepts \/ Disturbances
    /\ saves' = saves \ {s}
    /\ stored' \in {stored} \cup (IF accepts THEN {{s}} ELSE {})
    /\ failed' = TRUE
    /\ UNCHANGED <<pc, copy, registry, auth, live, pending, cache, accepts>>

\* Another instance has saved, this one's own message returns, or the cache is full.
Evict ==
    /\ cache # {}
    /\ cache' = {}
    /\ UNCHANGED <<pc, copy, registry, auth, live, pending, saves, failed, stored, accepts>>

\* The final store is over and nobody is connected: the document leaves memory.
Unload ==
    /\ live # {} /\ Synced = {} /\ ~pending
    /\ live' = {}
    /\ failed' = FALSE
    /\ UNCHANGED <<pc, copy, registry, auth, pending, saves, cache, stored, accepts>>

\* An editor resets the stored state; the server is not told.
ClearState ==
    /\ Disturbances
    /\ stored # {}
    /\ stored' = {}
    /\ UNCHANGED <<pc, copy, registry, auth, live, pending, saves, failed, cache, accepts>>

Store == StoreRefused \/ StoreSent

Answer == \E s \in saves : SaveSucceeds(s) \/ SaveFails(s)

Next ==
    \/ \E c \in Clients : Verify(c) \/ Join(c) \/ Refuse(c) \/ Leave(c) \/ Sync(c)
    \/ \E c \in Clients, e \in Edits : EditOnline(c, e) \/ EditOffline(c, e)
    \/ Sweep \/ Load \/ Store \/ Answer \/ Evict \/ Unload \/ ClearState

Spec == Init /\ [][Next]_vars

\* The debounce timer fires within maxDebounceMs and a request ends within
\* BACKEND_TIMEOUT_MS, whatever the clients do.
FairSpec == Spec /\ WF_vars(Store) /\ \A s \in State : WF_vars(SaveSucceeds(s) \/ SaveFails(s))

-----------------------------------------------------------------------------
(* Properties *)

\* Every variable holds what the code can put there; a missing document has no
\* synced client, and at most one state is cached.
TypeOK ==
    /\ pc \in [Clients -> {"away", "verifying", "registered", "synced"}]
    /\ copy \in [Clients -> State]
    /\ registry \in [Clients -> Modes]
    /\ auth \in [Clients -> Modes]
    /\ live \in Optional(State)
    /\ pending \in BOOLEAN
    /\ saves \subseteq State
    /\ failed \in BOOLEAN
    /\ cache \in Optional(State)
    /\ stored \in Optional(State)
    /\ accepts \in BOOLEAN

\* authenticateConnection awaits the backend before it reads the limits: however many
\* verifications overlap, the document never has more connections than its limit.
CapacityHeld == Cardinality(Registered) <= MaxConnections

\* The tokens the server acts with are those of open connections, in their mode: it
\* never stores in the name of a client that has left or may only read.
TokensFollowConnections ==
    \A c \in Clients : auth[c] # "none" => auth[c] = registry[c]

\* handleStoreDocument: an edit in the document when a store is scheduled reaches the
\* stored state, or its editors are warned, or the document is closed.
EditsSettle ==
    \A e \in Edits :
        (pending /\ e \in Content(live))
            ~> (e \in Content(stored) \/ failed \/ live = {})

\* The state endpoints take what the server sends: an edit that a connected writer
\* has in the document is stored while the writer stays.
EditsReachBackend ==
    \A c \in Clients, e \in Edits :
        (pc[c] = "synced" /\ registry[c] = "write" /\ e \in Content(live))
            ~> (e \in Content(stored) \/ registry[c] = "none")
=============================================================================
