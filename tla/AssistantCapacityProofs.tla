----------------------- MODULE AssistantCapacityProofs -----------------------
(***************************************************************************)
(* Theorems about AssistantCapacity for every finite set of turns and of   *)
(* calls, however the calls are shared out, and for all limits.            *)
(***************************************************************************)
EXTENDS AssistantCapacity, FiniteSetTheorems, TLAPS

LEMMA LessType == ASSUME NEW n \in Nat PROVE Less(n) \in Nat /\ Less(n) <= n
    BY DEF Less

LEMMA LaneType ==
    /\ "chat" \in Lanes /\ "embedding" \in Lanes
    /\ \A r \in Requests : Lane(r) \in Lanes
    /\ \A t \in Turns : t \in Requests /\ Lane(t) = "chat"
    /\ \A c \in Calls : c \in Requests /\ Lane(c) = "embedding"
    BY RequestsAssumption DEF Lanes, Lane, Requests

LEMMA TypeStep == ASSUME TypeOK, [Next]_vars PROVE TypeOK'
<1> USE DEF TypeOK
<1>0. \A l \in Lanes : MaxConcurrent[l] \in Nat /\ MaxQueue[l] \in Nat
    BY LimitsAssumption DEF Lanes
<1>1. ASSUME NEW t \in Turns, Start(t) \/ Stream(t) \/ Abandon(t) \/ Disconnect(t) \/ Notice(t)
      PROVE  TypeOK'
    BY <1>1 DEF Start, Stream, Abandon, Disconnect, Notice, Places
<1>2. ASSUME NEW t \in Turns, Finish(t) PROVE TypeOK'
    BY <1>0, <1>2, LaneType, LessType DEF Finish, Places
<1>3. ASSUME NEW c \in Calls, Embed(c) PROVE TypeOK'
    BY <1>3 DEF Embed, Places
<1>4. ASSUME NEW c \in Calls, EmbedDone(c) PROVE TypeOK'
    BY <1>0, <1>4, LaneType, LessType DEF EmbedDone, Places
<1>5. ASSUME NEW c \in Calls, CancelWait(c) PROVE TypeOK'
    BY <1>5, LaneType DEF CancelWait, Places
<1>6. ASSUME NEW r \in Requests, Admit(r) PROVE TypeOK'
    <2> DEFINE l == Lane(r)
    <2>0. l \in Lanes
        BY LaneType
    <2>1. active[l] < MaxConcurrent[l]
        BY <1>0, <1>6, <2>0 DEF Admit, Full
    <2>2. /\ active' = [active EXCEPT ![l] = @ + 1]
          /\ queued' = queued \/ queued' = [queued EXCEPT ![l] = Less(@)]
          /\ at' = [at EXCEPT ![r] = "admitted"] /\ waiting' = waiting \ {r}
          /\ UNCHANGED <<gone, forgotten, abandoned>>
        BY <1>6 DEF Admit
    <2> HIDE DEF l
    <2>3. queued' \in [Lanes -> Nat] /\ \A m \in Lanes : queued'[m] <= MaxQueue[m]
        BY <1>0, <2>0, <2>2, LessType
    <2>4. active' \in [Lanes -> Nat] /\ \A m \in Lanes : active'[m] <= MaxConcurrent[m]
        BY <1>0, <2>0, <2>1, <2>2
    <2> QED BY <2>2, <2>3, <2>4 DEF Places
<1>7. ASSUME NEW r \in Requests, RefuseFull(r) PROVE TypeOK'
    BY <1>7 DEF RefuseFull, Places
<1>8. ASSUME NEW r \in Requests, Join(r) PROVE TypeOK'
    <2> DEFINE l == Lane(r)
    <2>0. l \in Lanes
        BY LaneType
    <2>1. queued[l] < MaxQueue[l]
        BY <1>0, <1>8, <2>0 DEF Join, QueueIsFull
    <2>2. queued' = [queued EXCEPT ![l] = @ + 1]
        BY <1>8 DEF Join
    <2> HIDE DEF l
    <2>3. queued' \in [Lanes -> Nat] /\ \A m \in Lanes : queued'[m] <= MaxQueue[m]
        BY <1>0, <2>0, <2>1, <2>2
    <2> QED BY <1>8, <2>3 DEF Join
<1>9. ASSUME NEW r \in Requests, TimeOut(r) PROVE TypeOK'
    <2>1. queued' \in [Lanes -> Nat] /\ \A m \in Lanes : queued'[m] <= MaxQueue[m]
        BY <1>0, <1>9, LaneType, LessType DEF TimeOut
    <2> QED BY <1>9, <2>1 DEF TimeOut, Places
<1>10. CASE UNCHANGED vars
    BY <1>10 DEF vars
<1> QED
    BY <1>1, <1>2, <1>3, <1>4, <1>5, <1>6, <1>7, <1>8, <1>9, <1>10 DEF Next, Poll

\* The lanes never count more permits or waiting requests than their limits
\* allow, for any number of turns and calls.
THEOREM TypeCorrect == Spec => []TypeOK
<1>1. Init => TypeOK
    BY LimitsAssumption DEF Init, TypeOK, Places, Lanes
<1> QED BY <1>1, TypeStep, PTL DEF Spec

-----------------------------------------------------------------------------
(* Counting. *)

One(b) == IF b THEN 1 ELSE 0

LEMMA OneType == ASSUME NEW b \in BOOLEAN PROVE One(b) \in {0, 1}
    BY DEF One

LEMMA RequestsFinite == IsFiniteSet(Requests)
    BY RequestsAssumption, FS_Union DEF Requests

\* A set of requests after a step of one of them.
LEMMA CountOf ==
    ASSUME NEW S \in SUBSET Requests, NEW T \in SUBSET Requests, NEW r \in Requests,
           T \ {r} = S \ {r}
    PROVE  /\ Cardinality(S) \in Nat /\ Cardinality(T) \in Nat
           /\ Cardinality(T) = Cardinality(S) - One(r \in S) + One(r \in T)
           /\ r \in S => Cardinality(S) > 0
<1>1. /\ IsFiniteSet(S) /\ IsFiniteSet(T) /\ IsFiniteSet(S \ {r}) /\ IsFiniteSet(T \ {r})
    BY RequestsFinite, FS_Subset
<1>2. /\ Cardinality(S) \in Nat /\ Cardinality(T) \in Nat
      /\ Cardinality(S \ {r}) \in Nat /\ Cardinality(T \ {r}) \in Nat
    BY <1>1, FS_CardinalityType
<1>3. Cardinality(S) = Cardinality(S \ {r}) + One(r \in S)
    <2>1. CASE r \in S
        BY <1>1, <1>2, <2>1, FS_RemoveElement DEF One
    <2>2. CASE r \notin S
        <3>1. S \ {r} = S
            BY <2>2
        <3>2. Cardinality(S \ {r}) = Cardinality(S)
            BY <3>1, Zenon
        <3> QED BY <1>2, <2>2, <3>2 DEF One
    <2> QED BY <2>1, <2>2
<1>4. Cardinality(T) = Cardinality(T \ {r}) + One(r \in T)
    <2>1. CASE r \in T
        BY <1>1, <1>2, <2>1, FS_RemoveElement DEF One
    <2>2. CASE r \notin T
        <3>1. T \ {r} = T
            BY <2>2
        <3>2. Cardinality(T \ {r}) = Cardinality(T)
            BY <3>1, Zenon
        <3> QED BY <1>2, <2>2, <3>2 DEF One
    <2> QED BY <2>1, <2>2
<1>5. Cardinality(T \ {r}) = Cardinality(S \ {r})
    OBVIOUS
<1> QED BY <1>2, <1>3, <1>4, <1>5 DEF One

\* A counter that follows its set, apart from what is lost.
LEMMA Balance ==
    ASSUME NEW c \in Int, NEW cc \in Int, NEW n \in Int, NEW nn \in Int,
           NEW lost \in Int, NEW llost \in Int, NEW d \in Int,
           c = n + lost, nn = n + d, cc - llost = c - lost + d
    PROVE  cc = nn + llost
    OBVIOUS

-----------------------------------------------------------------------------
(* The accounts of the lanes. *)

Holds(place) == place \in {"admitted", "streaming", "closing"}

\* The permits of a lane that nobody will release.
Lost(l) == IF l = "chat" THEN abandoned ELSE 0

\* Only a request in an acquire loop waits.
Orderly == \A r \in waiting : at[r] = "asking"

AccountsInv == SlotsAccounted /\ Orderly

LEMMA SetsType == \A l : Holders(l) \in SUBSET Requests
    BY DEF Holders

LEMMA WaitersType == ASSUME TypeOK PROVE \A l : Waiters(l) \in SUBSET Requests
    BY DEF Waiters, TypeOK

LEMMA LaneAccounts ==
    SlotsAccounted <=> \A l \in Lanes : /\ active[l] = Cardinality(Holders(l)) + Lost(l)
                                        /\ queued[l] = Cardinality(Waiters(l)) + forgotten[l]
<1>1. Cardinality(Holders("embedding")) \in Nat
    BY SetsType, RequestsFinite, FS_Subset, FS_CardinalityType
<1> QED BY <1>1 DEF SlotsAccounted, Lanes, Lost

\* What a request holds, or waits for, its lane counts.
LEMMA CountersPositive ==
    ASSUME TypeOK, AccountsInv, NEW r \in Requests
    PROVE  /\ Holds(at[r]) => active[Lane(r)] > 0
           /\ r \in waiting => queued[Lane(r)] > 0
<1> DEFINE l == Lane(r)
<1>1. l \in Lanes
    BY LaneType
<1>2. /\ active[l] = Cardinality(Holders(l)) + Lost(l) /\ Lost(l) \in Nat
      /\ queued[l] = Cardinality(Waiters(l)) + forgotten[l] /\ forgotten[l] \in Nat
    BY <1>1, LaneAccounts DEF AccountsInv, Lost, TypeOK
<1>3. /\ Holds(at[r]) => r \in Holders(l)
      /\ r \in waiting => r \in Waiters(l)
    BY DEF Holds, Holders, Waiters
<1>4. /\ Cardinality(Holders(l)) \in Nat /\ (r \in Holders(l) => Cardinality(Holders(l)) > 0)
      /\ Cardinality(Waiters(l)) \in Nat /\ (r \in Waiters(l) => Cardinality(Waiters(l)) > 0)
    BY SetsType, WaitersType, CountOf
<1> QED BY <1>2, <1>3, <1>4

\* The step moves one request, the counters of its lane follow, those of the
\* other lane stay, and only who asks may wait.
Accounted(r, place) ==
    /\ at' = [at EXCEPT ![r] = place]
    /\ waiting' \ {r} = waiting \ {r}
    /\ r \in waiting' => place = "asking"
    /\ \A l \in Lanes :
        /\ active'[l] - Lost(l)' = active[l] - Lost(l)
                + IF l = Lane(r) THEN One(Holds(place)) - One(Holds(at[r])) ELSE 0
        /\ queued'[l] - forgotten'[l] = queued[l] - forgotten[l]
                + IF l = Lane(r) THEN One(r \in waiting') - One(r \in waiting) ELSE 0

\* Such a step keeps the accounts.
LEMMA AccountsKept ==
    ASSUME TypeOK, TypeOK', AccountsInv, NEW r \in Requests, NEW place \in Places,
           Accounted(r, place)
    PROVE  AccountsInv'
<1>0. /\ at'[r] = place /\ \A q \in Requests \ {r} : at'[q] = at[q]
      /\ waiting \subseteq Requests /\ waiting' \subseteq Requests
    BY DEF TypeOK, Accounted
<1>1. Orderly'
    BY <1>0 DEF AccountsInv, Orderly, Accounted
<1>2. ASSUME NEW l \in Lanes
      PROVE  /\ active'[l] = Cardinality(Holders(l)') + Lost(l)'
             /\ queued'[l] = Cardinality(Waiters(l)') + forgotten'[l]
    <2>1. /\ Holders(l) \in SUBSET Requests /\ Holders(l)' \in SUBSET Requests
          /\ Waiters(l) \in SUBSET Requests /\ Waiters(l)' \in SUBSET Requests
        BY <1>0 DEF Holders, Waiters
    <2>2. /\ Holders(l)' \ {r} = Holders(l) \ {r}
          /\ r \in Holders(l) <=> l = Lane(r) /\ Holds(at[r])
          /\ r \in Holders(l)' <=> l = Lane(r) /\ Holds(place)
        BY <1>0 DEF Holders, Holds
    <2>3. /\ Waiters(l)' \ {r} = Waiters(l) \ {r}
          /\ r \in Waiters(l) <=> l = Lane(r) /\ r \in waiting
          /\ r \in Waiters(l)' <=> l = Lane(r) /\ r \in waiting'
        BY <1>0 DEF Waiters, Accounted
    <2> DEFINE h == Cardinality(Holders(l))
               hh == Cardinality(Holders(l)')
               q == Cardinality(Waiters(l))
               qq == Cardinality(Waiters(l)')
    <2>4. /\ h \in Nat /\ hh \in Nat
          /\ hh = h - One(r \in Holders(l)) + One(r \in Holders(l)')
        BY <2>1, <2>2, CountOf
    <2>5. /\ q \in Nat /\ qq \in Nat
          /\ qq = q - One(r \in Waiters(l)) + One(r \in Waiters(l)')
        BY <2>1, <2>3, CountOf
    <2>6. hh = h + IF l = Lane(r) THEN One(Holds(place)) - One(Holds(at[r])) ELSE 0
        BY <2>2, <2>4 DEF One
    <2>7. qq = q + IF l = Lane(r) THEN One(r \in waiting') - One(r \in waiting) ELSE 0
        BY <2>3, <2>5 DEF One
    <2>8. /\ active[l] = h + Lost(l) /\ queued[l] = q + forgotten[l]
          /\ active[l] \in Nat /\ active'[l] \in Nat /\ Lost(l) \in Nat /\ Lost(l)' \in Nat
          /\ queued[l] \in Nat /\ queued'[l] \in Nat
          /\ forgotten[l] \in Nat /\ forgotten'[l] \in Nat
        BY LaneAccounts DEF AccountsInv, TypeOK, Lost
    <2> HIDE DEF h, hh, q, qq
    <2> DEFINE d == IF l = Lane(r) THEN One(Holds(place)) - One(Holds(at[r])) ELSE 0
               e == IF l = Lane(r) THEN One(r \in waiting') - One(r \in waiting) ELSE 0
    <2>9. d \in Int /\ e \in Int
        BY DEF One
    <2>10. /\ active'[l] - Lost(l)' = active[l] - Lost(l) + d
           /\ queued'[l] - forgotten'[l] = queued[l] - forgotten[l] + e
           /\ hh = h + d /\ qq = q + e
        BY <2>6, <2>7 DEF Accounted
    <2> HIDE DEF d, e
    <2>11. active'[l] = hh + Lost(l)' /\ queued'[l] = qq + forgotten'[l]
        <3>1. active'[l] = hh + Lost(l)'
            BY <2>4, <2>8, <2>9, <2>10, Balance
        <3>2. queued'[l] = qq + forgotten'[l]
            BY <2>5, <2>8, <2>9, <2>10, Balance
        <3> QED BY <3>1, <3>2
    <2> QED BY <2>11 DEF hh, qq
<1>3. SlotsAccounted'
    <2>1. Cardinality(Holders("embedding")') \in Nat
        <3>1. Holders("embedding")' \in SUBSET Requests
            BY DEF Holders
        <3> QED BY <3>1, RequestsFinite, FS_Subset, FS_CardinalityType
    <2> QED BY <1>2, <2>1, LaneType DEF SlotsAccounted, Lost
<1> QED BY <1>1, <1>3 DEF AccountsInv

\* Every step keeps the accounts.
LEMMA AccountsStep ==
    ASSUME TypeOK, TypeOK', AccountsInv, [Next]_vars
    PROVE  AccountsInv'
<1>0. /\ active \in [Lanes -> Nat] /\ queued \in [Lanes -> Nat] /\ at \in [Requests -> Places]
      /\ forgotten \in [Lanes -> Nat] /\ abandoned \in Nat
      /\ Turns \subseteq Requests /\ Calls \subseteq Requests /\ Turns \cap Calls = {}
    BY RequestsAssumption DEF TypeOK, Requests
<1>1. \A r \in Requests : /\ Lane(r) \in Lanes
                          /\ r \in Turns => Lane(r) = "chat"
                          /\ r \in Calls => Lane(r) = "embedding"
    BY <1>0, LaneType DEF Lane
<1>2. /\ \A r \in Requests : at[r] # "asking" => r \notin waiting
      /\ \A r \in Requests : Holds(at[r]) => active[Lane(r)] > 0
      /\ \A r \in Requests : r \in waiting => queued[Lane(r)] > 0
    BY CountersPositive DEF AccountsInv, Orderly
<1>3. \A n \in Nat : n > 0 => Less(n) = n - 1
    BY DEF Less
<1>4. /\ \A p \in {"admitted", "streaming", "closing"} : One(Holds(p)) = 1
      /\ \A p \in {"new", "asking", "done", "rejected", "abandoned"} : One(Holds(p)) = 0
    BY DEF One, Holds
<1>5. ASSUME NEW r \in Requests, (r \in Turns /\ Start(r)) \/ (r \in Calls /\ Embed(r))
      PROVE  AccountsInv'
    <2>1. /\ at[r] = "new" /\ at' = [at EXCEPT ![r] = "asking"]
          /\ UNCHANGED <<active, queued, waiting, forgotten, abandoned>>
        BY <1>5 DEF Start, Embed
    <2>5. Accounted(r, "asking")
        BY <1>0, <1>1, <1>2, <1>4, <2>1 DEF Accounted, Lost, One
    <2> QED BY <1>0, <2>1, <2>5, AccountsKept DEF Places
<1>6. ASSUME NEW r \in Requests, Admit(r) PROVE AccountsInv'
    <2>1. /\ at[r] = "asking" /\ at' = [at EXCEPT ![r] = "admitted"]
          /\ active' = [active EXCEPT ![Lane(r)] = @ + 1]
          /\ waiting' = waiting \ {r}
          /\ UNCHANGED <<forgotten, abandoned>>
        BY <1>6 DEF Admit, Asking
    <2>2. \A l \in Lanes : queued'[l] = queued[l]
                + IF l = Lane(r) THEN One(r \in waiting') - One(r \in waiting) ELSE 0
        BY <1>0, <1>1, <1>2, <1>3, <1>6, <2>1 DEF Admit, One
    <2>3. \A l \in Lanes : active'[l] = active[l]
                + IF l = Lane(r) THEN One(Holds("admitted")) - One(Holds(at[r])) ELSE 0
        BY <1>0, <1>1, <1>4, <2>1
    <2>5. Accounted(r, "admitted")
        BY <1>0, <2>1, <2>2, <2>3 DEF Accounted, Lost, One
    <2> QED BY <1>0, <2>1, <2>5, AccountsKept DEF Places
<1>7. ASSUME NEW r \in Requests, RefuseFull(r) PROVE AccountsInv'
    <2>1. /\ at[r] = "asking" /\ at' = [at EXCEPT ![r] = "rejected"] /\ r \notin waiting
          /\ UNCHANGED <<active, queued, waiting, forgotten, abandoned>>
        BY <1>7 DEF RefuseFull, Asking
    <2>5. Accounted(r, "rejected")
        BY <1>0, <1>4, <2>1 DEF Accounted, Lost, One
    <2> QED BY <1>0, <2>1, <2>5, AccountsKept DEF Places
<1>8. ASSUME NEW r \in Requests, Join(r) PROVE AccountsInv'
    <2>1. /\ at[r] = "asking" /\ at' = [at EXCEPT ![r] = "asking"] /\ r \notin waiting
          /\ queued' = [queued EXCEPT ![Lane(r)] = @ + 1] /\ waiting' = waiting \cup {r}
          /\ UNCHANGED <<active, forgotten, abandoned>>
        BY <1>0, <1>8 DEF Join, Asking
    <2>2. \A l \in Lanes : queued'[l] = queued[l]
                + IF l = Lane(r) THEN One(r \in waiting') - One(r \in waiting) ELSE 0
        BY <1>0, <1>1, <2>1 DEF One
    <2>5. Accounted(r, "asking")
        BY <1>0, <2>1, <2>2 DEF Accounted, Lost, One
    <2> QED BY <1>0, <2>1, <2>5, AccountsKept DEF Places
<1>9. ASSUME NEW r \in Requests, TimeOut(r) PROVE AccountsInv'
    <2>1. /\ at[r] = "asking" /\ at' = [at EXCEPT ![r] = "rejected"]
          /\ r \in waiting /\ waiting' = waiting \ {r}
          /\ queued' = [queued EXCEPT ![Lane(r)] = Less(@)]
          /\ UNCHANGED <<active, forgotten, abandoned>>
        BY <1>9 DEF TimeOut, Asking
    <2>2. \A l \in Lanes : queued'[l] = queued[l]
                + IF l = Lane(r) THEN One(r \in waiting') - One(r \in waiting) ELSE 0
        BY <1>0, <1>1, <1>2, <1>3, <2>1 DEF One
    <2>5. Accounted(r, "rejected")
        BY <1>0, <1>4, <2>1, <2>2 DEF Accounted, Lost, One
    <2> QED BY <1>0, <2>1, <2>5, AccountsKept DEF Places
<1>10. ASSUME NEW t \in Turns, Stream(t) \/ Notice(t) PROVE AccountsInv'
    <2>1. PICK place \in {"streaming", "closing"} : at' = [at EXCEPT ![t] = place]
        BY <1>10 DEF Stream, Notice
    <2>2. /\ at[t] \in {"admitted", "streaming"}
          /\ UNCHANGED <<active, queued, waiting, forgotten, abandoned>>
        BY <1>10 DEF Stream, Notice
    <2>5. Accounted(t, place)
        BY <1>0, <1>2, <1>4, <2>1, <2>2 DEF Accounted, Lost, One
    <2> QED BY <1>0, <2>1, <2>5, AccountsKept DEF Places
<1>11. ASSUME NEW t \in Turns, Abandon(t) PROVE AccountsInv'
    <2>1. /\ at[t] = "admitted" /\ at' = [at EXCEPT ![t] = "abandoned"]
          /\ abandoned' = abandoned + 1
          /\ UNCHANGED <<active, queued, waiting, forgotten>>
        BY <1>11 DEF Abandon
    <2>2. \A l \in Lanes : active'[l] - Lost(l)' = active[l] - Lost(l)
                + IF l = Lane(t) THEN One(Holds("abandoned")) - One(Holds(at[t])) ELSE 0
        BY <1>0, <1>1, <1>4, <2>1 DEF Lost
    <2>5. Accounted(t, "abandoned")
        BY <1>0, <1>2, <2>1, <2>2 DEF Accounted, One
    <2> QED BY <1>0, <2>1, <2>5, AccountsKept DEF Places
<1>12. ASSUME NEW r \in Requests, (r \in Turns /\ Finish(r)) \/ (r \in Calls /\ EmbedDone(r))
       PROVE  AccountsInv'
    <2>1. /\ Holds(at[r]) /\ at' = [at EXCEPT ![r] = "done"]
          /\ active' = [active EXCEPT ![Lane(r)] = Less(@)]
          /\ UNCHANGED <<queued, waiting, forgotten, abandoned>>
        BY <1>0, <1>1, <1>12 DEF Finish, EmbedDone, Holds
    <2>2. at[r] # "asking"
        BY <2>1 DEF Holds
    <2>3. \A l \in Lanes : active'[l] = active[l]
                + IF l = Lane(r) THEN One(Holds("done")) - One(Holds(at[r])) ELSE 0
        BY <1>0, <1>1, <1>2, <1>3, <2>1 DEF One, Holds
    <2>5. Accounted(r, "done")
        BY <1>0, <1>2, <2>1, <2>2, <2>3 DEF Accounted, Lost, One
    <2> QED BY <1>0, <2>1, <2>5, AccountsKept DEF Places
<1>13. ASSUME NEW c \in Calls, CancelWait(c) PROVE AccountsInv'
    <2>1. /\ at[c] = "asking" /\ at' = [at EXCEPT ![c] = "done"] /\ waiting' = waiting \ {c}
          /\ UNCHANGED <<active, queued, abandoned>>
        BY <1>13 DEF CancelWait
    <2>2. \A l \in Lanes : queued'[l] - forgotten'[l] = queued[l] - forgotten[l]
                + IF l = Lane(c) THEN One(c \in waiting') - One(c \in waiting) ELSE 0
        BY <1>0, <1>1, <1>13, <2>1 DEF CancelWait, One
    <2>5. Accounted(c, "done")
        BY <1>0, <1>4, <2>1, <2>2 DEF Accounted, Lost, One
    <2> QED BY <1>0, <2>1, <2>5, AccountsKept DEF Places
<1>14. ASSUME UNCHANGED <<active, queued, at, waiting, forgotten, abandoned>> PROVE AccountsInv'
    BY <1>14 DEF AccountsInv, SlotsAccounted, Orderly, Holders, Waiters
<1>15. CASE UNCHANGED vars
    BY <1>14, <1>15 DEF vars
<1>16. ASSUME NEW t \in Turns, Disconnect(t) PROVE AccountsInv'
    BY <1>14, <1>16 DEF Disconnect
<1>17. CASE Next
    <2>1. ASSUME NEW r \in Requests, Poll(r) PROVE AccountsInv'
        BY <1>6, <1>7, <1>8, <1>9, <2>1 DEF Poll
    <2>2. ASSUME NEW t \in Turns,
                 Start(t) \/ Stream(t) \/ Abandon(t) \/ Disconnect(t) \/ Notice(t) \/ Finish(t)
          PROVE  AccountsInv'
        BY <1>0, <1>5, <1>10, <1>11, <1>12, <1>16, <2>2
    <2>3. ASSUME NEW c \in Calls, Embed(c) \/ EmbedDone(c) \/ CancelWait(c) PROVE AccountsInv'
        BY <1>0, <1>5, <1>12, <1>13, <2>3
    <2> QED BY <1>17, <2>1, <2>2, <2>3 DEF Next
<1> QED BY <1>15, <1>17

\* The lanes count what is held and what waits, request by request, apart from
\* the permits and waits that are lost: for any number of turns, and of calls
\* that one turn makes at a time.
THEOREM SlotsAreAccounted == Spec => []SlotsAccounted
<1>1. Init => AccountsInv
    <2> SUFFICES ASSUME Init PROVE AccountsInv
        OBVIOUS
    <2>1. /\ Holders("embedding") = {} /\ Holders("chat") = {}
          /\ \A l \in Lanes : Waiters(l) = {}
        BY DEF Init, Holders, Waiters
    <2>2. Cardinality({}) = 0
        BY FS_EmptySet
    <2> QED BY <2>1, <2>2 DEF Init, AccountsInv, SlotsAccounted, Orderly, Lanes
<1>2. TypeOK /\ TypeOK' /\ AccountsInv /\ [Next]_vars => AccountsInv'
    BY AccountsStep
<1>3. AccountsInv => SlotsAccounted
    BY DEF AccountsInv
<1> QED BY <1>1, <1>2, <1>3, TypeCorrect, PTL DEF Spec

=============================================================================
