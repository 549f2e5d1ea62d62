------------------------------ MODULE Registry ------------------------------
(***************************************************************************)
(* The peer registry of one node (internal/peer/peer_registry.go) as pure  *)
(* operators on its value: every exported method of Registry is one        *)
(* critical section of its mutex, so every operator here is one atomic     *)
(* step of whoever calls it.  What the methods write to Redis when there   *)
(* is a REDIS_URL is added in module SharedRegistry.                       *)
(*                                                                         *)
(* A registry value maps every peer id to its record, or to NoRecord when  *)
(* the Go map has no such key.  Instead of an absolute LastSeen a record   *)
(* holds its age, now - LastSeen, which stops counting one unit after the  *)
(* longest timeout: no comparison in the code tells larger ages apart.     *)
(* JoinedAt is written and never read, so it is left out.                  *)
(***************************************************************************)
EXTENDS Naturals, FiniteSets

CONSTANTS
    PeerId,             \* peer identities (64 hex digits in the code)
    Addr,               \* host:port strings that nodes advertise
    NoAddr,             \* the empty address string
    NoRecord,           \* the Go map has no such key
    MaxNetworkPeers,    \* utils.MaxNetworkPeers, Registry.max
    InactiveAfter,      \* Manager.InactiveAfter (9 s)
    StaleTimeout        \* staleTimeout in RunCleanup (60 s)

Active   == "active"
Inactive == "inactive"
Left     == "left"
State    == {Active, Inactive, Left}

\* Ages saturate here: one past the longest timeout they are compared with.
AgeCap == StaleTimeout + 1

Endpoint == [grpc : Addr \cup {NoAddr}, http : Addr \cup {NoAddr}]

Record == [grpc : Addr \cup {NoAddr}, http : Addr \cup {NoAddr},
           state : State, age : 0..AgeCap]

Registries == [PeerId -> Record \cup {NoRecord}]

ASSUME RegistryAssumption ==
    /\ MaxNetworkPeers \in Nat \ {0}
    /\ InactiveAfter \in Nat
    /\ StaleTimeout \in Nat
    /\ InactiveAfter <= StaleTimeout
    /\ NoAddr \notin Addr
    /\ NoRecord \notin Record

-----------------------------------------------------------------------------
\* The ids the map holds.
Known(reg) == {p \in PeerId : reg[p] # NoRecord}

Without(reg, p) == [reg EXCEPT ![p] = NoRecord]

\* The record every caller of Upsert builds: Active and seen just now.
Fresh(ep) == [grpc |-> ep.grpc, http |-> ep.http, state |-> Active, age |-> 0]

\* Two endpoints an Upsert takes for the same host.  `ex' is the entry in
\* the map: its http address counts only when it is not empty.
SameHost(ex, ep) ==
    \/ ex.grpc = ep.grpc
    \/ ex.http # NoAddr /\ ex.http = ep.http

\* The other entries that carry the newcomer's address.
Stale(reg, id, ep) == {p \in Known(reg) \ {id} : SameHost(reg[p], ep)}

PrunedKeepAll(reg, id, ep) == {reg}

\* Prune loop of Upsert: it deletes the first entry it meets with the same
\* address and stops.  Map iteration order is random: any one may be met.
Pruned(reg, id, ep) ==
    IF Stale(reg, id, ep) = {}
    THEN {reg}
    ELSE {Without(reg, p) : p \in Stale(reg, id, ep)}

WithRoomOffByOne(reg) ==
    IF Cardinality(Known(reg)) < MaxNetworkPeers + 1
    THEN {reg}
    ELSE {Without(reg, p) : p \in {q \in Known(reg) : reg[q].state = Left}}

WithRoomEvictInactive(reg) ==
    IF Cardinality(Known(reg)) < MaxNetworkPeers
    THEN {reg}
    ELSE {Without(reg, p) : p \in Known(reg)}

WithRoomNeverEvicts(reg) ==
    IF Cardinality(Known(reg)) < MaxNetworkPeers THEN {reg} ELSE {}

\* Room for one more: below the maximum as it is, at the maximum by
\* evicting some peer that has Left; no result when there is none.
WithRoom(reg) ==
    IF Cardinality(Known(reg)) < MaxNetworkPeers
    THEN {reg}
    ELSE {Without(reg, p) : p \in {q \in Known(reg) : reg[q].state = Left}}

\* Upsert that returns true: the registries it may leave behind.
Accepted(reg, id, ep) ==
    UNION {IF id \in Known(r)
           THEN {[r EXCEPT ![id] = Fresh(ep)]}
           ELSE {[s EXCEPT ![id] = Fresh(ep)] : s \in WithRoom(r)} :
           r \in Pruned(reg, id, ep)}

\* Upsert that returns false: it has pruned, and then found no room.
Refused(reg, id, ep) ==
    {r \in Pruned(reg, id, ep) : id \notin Known(r) /\ WithRoom(r) = {}}

\* Every outcome of Upsert, for callers that ignore its result.
Upsert(reg, id, ep) == Accepted(reg, id, ep) \cup Refused(reg, id, ep)

MarkStateInserts(reg, id, s) ==
    [reg EXCEPT ![id] = IF id \in Known(reg) THEN [@ EXCEPT !.state = s]
                        ELSE [grpc |-> NoAddr, http |-> NoAddr, state |-> s, age |-> 0]]

MarkState(reg, id, s) ==
    IF id \in Known(reg) THEN [reg EXCEPT ![id].state = s] ELSE reg

\* A sign of life: an Inactive peer is Active again, a Left one stays Left.
Touch(reg, id) ==
    IF id \in Known(reg)
    THEN [reg EXCEPT ![id].age = 0,
                     ![id].state = IF @ = Inactive THEN Active ELSE @]
    ELSE reg

Remove(reg, id) == Without(reg, id)

\* One unit of time passes for every entry.
Aged(reg) ==
    [p \in PeerId |->
        IF reg[p] = NoRecord THEN NoRecord
        ELSE [reg[p] EXCEPT !.age = IF @ < AgeCap THEN @ + 1 ELSE AgeCap]]
=============================================================================
