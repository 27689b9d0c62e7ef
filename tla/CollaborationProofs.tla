------------------------- MODULE CollaborationProofs -------------------------
(***************************************************************************)
(* Theorems about Collaboration for every set of clients and edits, every  *)
(* limit and every behaviour of the backend.                               *)
(***************************************************************************)
EXTENDS Collaboration, FiniteSetTheorems, TLAPS

\* A state that is there is a state that may be missing.
LEMMA OptionalType ==
    /\ {} \in Optional(State)
    /\ \A s \in State : {s} \in Optional(State)
<1>1. Cardinality({}) <= 1
    BY FS_EmptySet
<1>2. ASSUME NEW s \in State PROVE Cardinality({s}) <= 1
    BY FS_Singleton
<1>3. \A s \in State : {s} \in SUBSET State
    OBVIOUS
<1>4. {} \in SUBSET State
    OBVIOUS
<1> QED BY <1>1, <1>2, <1>3, <1>4 DEF Optional

LEMMA ContentType == ASSUME NEW s \in Optional(State) PROVE Content(s) \in State
    BY DEF Content, Optional, State

LEMMA FetchedType == ASSUME TypeOK PROVE Fetched \subseteq Optional(State)
    BY OptionalType DEF Fetched, TypeOK

LEMMA MergeType ==
    ASSUME TypeOK, NEW c \in Clients, NEW new \in State, Merge(c, new)
    PROVE  /\ live' \in Optional(State)
           /\ copy' \in [Clients -> State]
           /\ pending' \in BOOLEAN
<1> DEFINE merged == Content(live) \cup new
<1>1. merged \in State
    BY ContentType DEF TypeOK, State
<1>2. \A d \in Clients : copy[d] \in State /\ copy[d] \cup merged \in State
    BY <1>1 DEF TypeOK, State
<1>3. live' = {merged}
    BY DEF Merge
<1>4. copy' = [d \in Clients |-> IF d \in Synced \cup {c} THEN copy[d] \cup merged ELSE copy[d]]
    BY DEF Merge
<1>5. pending' \in BOOLEAN
    BY DEF Merge, TypeOK
<1> HIDE DEF merged
<1> QED BY <1>1, <1>2, <1>3, <1>4, <1>5, OptionalType

LEMMA TokensType ==
    ASSUME TypeOK, NEW c \in Clients PROVE TokensWithout(c) \in [Clients -> Modes]
    BY DEF TokensWithout, TypeOK, Modes

LEMMA TypeStep == ASSUME TypeOK, [Next]_vars PROVE TypeOK'
<1> USE DEF TypeOK
<1>0. Content(live) \in State
    BY ContentType
<1>1. ASSUME NEW c \in Clients, Verify(c) PROVE TypeOK'
    BY <1>1 DEF Verify
<1>2. ASSUME NEW c \in Clients, Join(c) PROVE TypeOK'
    BY <1>2 DEF Join, Modes
<1>3. ASSUME NEW c \in Clients, Refuse(c) PROVE TypeOK'
    BY <1>3 DEF Refuse
<1>4. ASSUME NEW c \in Clients, Leave(c) PROVE TypeOK'
    <2>1. auth' \in [Clients -> Modes]
        BY <1>4, TokensType DEF Leave
    <2>2. cache' \in Optional(State) /\ pending' \in BOOLEAN
        BY <1>4, OptionalType DEF Leave
    <2> QED BY <1>4, <2>1, <2>2 DEF Leave, Modes
<1>5. ASSUME NEW c \in Clients, Sync(c) PROVE TypeOK'
    <2>1. (IF registry[c] = "write" THEN copy[c] ELSE {}) \in State
        BY DEF State
    <2> QED BY <1>5, <2>1, MergeType DEF Sync
<1>6. ASSUME NEW c \in Clients, NEW e \in Edits, EditOnline(c, e) PROVE TypeOK'
    <2>1. {e} \in State
        BY DEF State
    <2> QED BY <1>6, <2>1, MergeType DEF EditOnline
<1>7. ASSUME NEW c \in Clients, NEW e \in Edits, EditOffline(c, e) PROVE TypeOK'
    BY <1>7 DEF EditOffline, State
<1>8. CASE Sweep
    BY <1>8 DEF Sweep, Modes
<1>9. CASE Load
    <2> PICK s \in Fetched : live' = {Content(s)} /\ cache' = IF s = {} THEN cache ELSE s
        BY <1>9 DEF Load
    <2>1. s \in Optional(State) /\ Content(s) \in State
        BY FetchedType, ContentType
    <2> QED BY <1>9, <2>1, OptionalType DEF Load
<1>10. CASE StoreRefused
    BY <1>10 DEF StoreRefused
<1>11. CASE StoreSent
    <2>1. live \subseteq State
        BY DEF Optional
    <2> QED BY <1>0, <1>11, <2>1, OptionalType DEF StoreSent, CacheSet
<1>12. ASSUME NEW s \in saves, SaveSucceeds(s) \/ SaveFails(s) PROVE TypeOK'
    BY <1>12, OptionalType DEF SaveSucceeds, SaveFails
<1>13. CASE Evict \/ Unload \/ ClearState
    BY <1>13, OptionalType DEF Evict, Unload, ClearState
<1>14. CASE UNCHANGED vars
    BY <1>14 DEF vars
<1> QED
    BY <1>1, <1>2, <1>3, <1>4, <1>5, <1>6, <1>7, <1>8, <1>9, <1>10, <1>11, <1>12,
       <1>13, <1>14
    DEF Next, Store, Answer

\* What the server, the backend and the browsers hold keeps its type: at most one
\* document in memory, one cached and one stored state.
THEOREM TypeCorrect == Spec => []TypeOK
<1>1. Init => TypeOK
    BY OptionalType, SwitchesAssumption DEF Init, TypeOK, State, Modes
<1> QED BY <1>1, TypeStep, PTL DEF Spec

-----------------------------------------------------------------------------
(* What a step does to the registry: one client joins, one leaves, or      *)
(* nothing happens to it.                                                  *)

LEMMA RegistryStep ==
    ASSUME TypeOK, [Next]_vars
    PROVE  \/ \E c \in Clients : Join(c) \/ Leave(c)
           \/ Sweep
           \/ UNCHANGED <<registry, auth>>
    BY DEF Next, vars, Verify, Refuse, Sync, EditOnline, EditOffline, Load, Store,
           StoreRefused, StoreSent, Answer, SaveSucceeds, SaveFails, Evict, Unload, ClearState

\* The document never has more connections than its limit, for any number of clients
\* whose verifications overlap.
THEOREM CapacityIsHeld == Spec => []CapacityHeld
<1>1. Init => CapacityHeld
    <2> SUFFICES ASSUME Init PROVE CapacityHeld
        OBVIOUS
    <2>1. Registered = {}
        BY DEF Init, Registered
    <2> QED BY <2>1, FS_EmptySet, LimitsAssumption DEF CapacityHeld
<1>2. TypeOK /\ CapacityHeld /\ [Next]_vars => CapacityHeld'
    <2> SUFFICES ASSUME TypeOK, CapacityHeld, [Next]_vars PROVE CapacityHeld'
        OBVIOUS
    <2>0. IsFiniteSet(Registered) /\ Cardinality(Registered) \in Nat
        BY ClientsAssumption, FS_Subset, FS_CardinalityType DEF Registered
    <2>1. ASSUME NEW c \in Clients, Join(c) PROVE CapacityHeld'
        <3>1. Registered' \in {Registered, Registered \cup {c}}
            BY <2>1 DEF Join, Registered, TypeOK
        <3>2. Cardinality(Registered) + 1 <= MaxConnections
            BY <2>0, <2>1, LimitsAssumption DEF Join, HasRoom
        <3>3. Cardinality(Registered \cup {c}) <= Cardinality(Registered) + 1
            BY <2>0, FS_AddElement
        <3>4. Cardinality(Registered \cup {c}) \in Nat
            BY <2>0, FS_AddElement, FS_CardinalityType
        <3> QED BY <2>0, <3>1, <3>2, <3>3, <3>4, LimitsAssumption DEF CapacityHeld
    <2>2. ASSUME NEW c \in Clients, Leave(c) PROVE CapacityHeld'
        <3>1. Registered' \subseteq Registered
            BY <2>2 DEF Leave, Registered, TypeOK
        <3>2. Cardinality(Registered') <= Cardinality(Registered) /\ Cardinality(Registered') \in Nat
            BY <2>0, <3>1, FS_Subset, FS_CardinalityType
        <3> QED BY <2>0, <3>2, LimitsAssumption DEF CapacityHeld
    <2>3. CASE UNCHANGED registry
        BY <2>3 DEF CapacityHeld, Registered
    <2> QED BY <2>1, <2>2, <2>3, RegistryStep DEF Sweep
<1> QED BY <1>1, <1>2, TypeCorrect, PTL DEF Spec

\* The server holds tokens of open connections only, each in the mode of its
\* connection, through every order of joins, departures and sweeps.
THEOREM TokensFollow == Spec => []TokensFollowConnections
<1>1. Init => TokensFollowConnections
    BY DEF Init, TokensFollowConnections
<1>2. TypeOK /\ TokensFollowConnections /\ [Next]_vars => TokensFollowConnections'
    <2> SUFFICES ASSUME TypeOK, TokensFollowConnections, [Next]_vars
                 PROVE  TokensFollowConnections'
        OBVIOUS
    <2> USE DEF TypeOK, TokensFollowConnections
    <2>1. ASSUME NEW c \in Clients, Join(c) PROVE TokensFollowConnections'
        BY <2>1 DEF Join
    <2>2. ASSUME NEW c \in Clients, Leave(c) PROVE TokensFollowConnections'
        <3>1. auth'[c] = "none" /\ \A d \in Clients : auth'[d] \in {auth[d], "none"}
            BY <2>2 DEF Leave, TokensWithout
        <3>2. \A d \in Clients \ {c} : registry'[d] = registry[d]
            BY <2>2 DEF Leave
        <3> QED BY <3>1, <3>2
    <2>3. CASE Sweep
        BY <2>3 DEF Sweep
    <2>4. CASE UNCHANGED <<registry, auth>>
        BY <2>4
    <2> QED BY <2>1, <2>2, <2>3, <2>4, RegistryStep
<1> QED BY <1>1, <1>2, TypeCorrect, PTL DEF Spec

=============================================================================
