--------------------------- MODULE SharedRegistry ---------------------------
(***************************************************************************)
(* The registries of several nodes that share a Redis (REDIS_URL set):     *)
(* every method of Registry also writes what it did to Redis, under keys   *)
(* that live 60 s, and startRedisSync of every node reads all keys every   *)
(* 5 s and merges what it finds (internal/peer/peer_registry.go).          *)
(*                                                                         *)
(* A method holds the registry's lock until its Redis commands have        *)
(* returned, so the method and its commands are one step; the result of a  *)
(* command is ignored, so each one may also have been lost.  Two things are *)
(* read before the lock is taken and used under it: the record that a sync *)
(* merges, and the time that an Upsert writes as LastSeen.  In between, the *)
(* registry and Redis may change.                                          *)
(*                                                                         *)
(* What the loops and handlers of a node do between their lock sections is *)
(* the subject of module Membership; here they call the methods at any     *)
(* moment.  Clocks of different nodes agree.                               *)
(***************************************************************************)
EXTENDS Registry

CONSTANTS
    Node,           \* the nodes that share the Redis
    OwnEndpoint,    \* what each of them advertises
    MayServeAt,     \* the endpoints every id may come up at
    LeaveCalls,     \* the ids for which somebody may call LeaveNetwork
    MaxCalls        \* bound: how many Upserts may be under way at a time

\* PeerId holds the ids whose entries are followed.  A node that is not one
\* of them has its own entry left out, and MaxNetworkPeers counts without it.
ASSUME SharedAssumption ==
    /\ OwnEndpoint \in [Node -> Endpoint]
    /\ MayServeAt \in [PeerId -> SUBSET Endpoint]
    /\ LeaveCalls \subseteq PeerId
    /\ MaxCalls \in Nat

VARIABLES
    peers,      \* the registry of every node
    redis,      \* the record under the key "peers:<id>", or NoRecord
    fetched,    \* what a node's sync has read and not merged, or NoRecord
    calls,      \* the Upserts under way, with the age of their LastSeen
    heard       \* ghost: the time since any node heard of the peer

vars == <<peers, redis, fetched, calls, heard>>

Fetched == [id : PeerId, rec : Record]

Call == [node : Node, id : PeerId, ep : Endpoint, age : 0..AgeCap]

OwnRegistry(n) ==
    [p \in PeerId |-> IF p = n THEN Fresh(OwnEndpoint[n]) ELSE NoRecord]

Init ==
    /\ peers = [n \in Node |-> OwnRegistry(n)]
    /\ redis = [p \in PeerId |->
                    IF p \in Node THEN Fresh(OwnEndpoint[p]) ELSE NoRecord]
    /\ fetched = [n \in Node |-> NoRecord]
    /\ calls = {}
    /\ heard = [p \in PeerId |-> IF p \in Node THEN 0 ELSE AgeCap]

-----------------------------------------------------------------------------
(* The methods of Registry *)

\* What Redis may hold after a SET of every id in kept, with its entry in
\* reg, followed by a DEL of every id in gone: each command may be lost.
Sent(reg, kept, gone) ==
    {[p \in PeerId |-> IF p \in d THEN NoRecord
                       ELSE IF p \in s THEN reg[p] ELSE redis[p]] :
        s \in SUBSET kept, d \in SUBSET gone}

Update(n, reg, kept, gone) ==
    /\ peers' = [peers EXCEPT ![n] = reg]
    /\ redis' \in Sent(reg, kept \cap Known(reg), gone)
    /\ UNCHANGED fetched

\* JoinNetwork, the bootstrap list or KnownPeers names a peer: the caller of
\* Upsert reads the clock ...
Contact(n, id, ep) ==
    /\ Cardinality(calls) < MaxCalls
    /\ calls' = calls \cup {[node |-> n, id |-> id, ep |-> ep, age |-> 0]}
    /\ heard' = [heard EXCEPT ![id] = 0]
    /\ UNCHANGED <<peers, redis, fetched>>

\* What Upsert leaves of a registry: LastSeen is the caller's reading of the
\* clock, whatever the entry has by now.
Upserted(reg, c) ==
    {IF c.id \in Known(r) THEN [r EXCEPT ![c.id].age = c.age] ELSE r :
        r \in Upsert(reg, c.id, c.ep)}

\* ... and Upsert gets the lock, at once or when others have released it.  The
\* entry is set, those pruned or evicted for it are deleted.
FinishUpsert(c) ==
    /\ c \in calls
    /\ \E reg \in Upserted(peers[c.node], c) :
          Update(c.node, reg, {c.id}, Known(peers[c.node]) \ Known(reg))
    /\ calls' = calls \ {c}
    /\ UNCHANGED heard

\* Touch, for a ping made or received, and for the node itself.  It reads the
\* clock under the lock.
Seen(n, id) ==
    /\ id \in Known(peers[n])
    /\ Update(n, Touch(peers[n], id), {id}, {})
    /\ heard' = [heard EXCEPT ![id] = 0]
    /\ UNCHANGED calls

\* Sweep marks what was overdue in its snapshot, whatever it is by now.
MarkInactive(n, id) ==
    /\ id \in Known(peers[n]) \ {n}
    /\ Update(n, MarkState(peers[n], id, Inactive), {id}, {})
    /\ UNCHANGED <<calls, heard>>

\* RunCleanup, with the same reserve, or Leave: MarkState to Left publishes
\* the entry and then deletes it.
Retire(n, id) ==
    /\ id \in Known(peers[n])
    /\ id # n \/ id \in LeaveCalls
    /\ Update(n, MarkState(peers[n], id, Left), {id}, {id})
    /\ UNCHANGED <<calls, heard>>

\* The second half of Leave.
Drop(n, id) ==
    /\ id \in LeaveCalls
    /\ Update(n, Remove(peers[n], id), {}, {id})
    /\ UNCHANGED <<calls, heard>>

-----------------------------------------------------------------------------
(* startRedisSync *)

SyncGetMissing(n, id) ==
    /\ fetched[n] = NoRecord
    /\ fetched' = [fetched EXCEPT ![n] = [id |-> id, rec |-> redis[id]]]
    /\ UNCHANGED <<peers, redis, calls, heard>>

\* GET of one key of the list that KEYS returned; a key that is gone is
\* skipped.
SyncGet(n, id) ==
    /\ fetched[n] = NoRecord
    /\ redis[id] # NoRecord
    /\ fetched' = [fetched EXCEPT ![n] = [id |-> id, rec |-> redis[id]]]
    /\ UNCHANGED <<peers, redis, calls, heard>>

\* LastSeen of rec is after that of ex, or may be, or may not be: two times
\* of one unit can be in either order.
MayBeNewer(rec, ex) == rec.age <= ex.age
MayBeOlder(rec, ex) == rec.age >= ex.age

MergedUnordered(reg, id, rec) ==
    IF id \in Known(reg) \/ Cardinality(Known(reg)) < MaxNetworkPeers
    THEN {[reg EXCEPT ![id] = rec]}
    ELSE {reg}

MergedAsContact(reg, id, rec) ==
    Upsert(reg, id, [grpc |-> rec.grpc, http |-> rec.http])

\* What the merge of one record leaves of a registry.  A newer record
\* replaces the entry; an unknown one is inserted while there is room,
\* without the prune and the eviction of Upsert.
Merged(reg, id, rec) ==
    IF id \in Known(reg)
    THEN {r \in {[reg EXCEPT ![id] = rec]} : MayBeNewer(rec, reg[id])}
            \cup {r \in {reg} : MayBeOlder(rec, reg[id])}
    ELSE IF Cardinality(Known(reg)) < MaxNetworkPeers
         THEN {[reg EXCEPT ![id] = rec]}
         ELSE {reg}

SyncMerge(n) ==
    /\ fetched[n] # NoRecord
    /\ \E reg \in Merged(peers[n], fetched[n].id, fetched[n].rec) :
          peers' = [peers EXCEPT ![n] = reg]
    /\ fetched' = [fetched EXCEPT ![n] = NoRecord]
    /\ UNCHANGED <<redis, calls, heard>>

-----------------------------------------------------------------------------
\* The 60 s of a key are over.
Expire(id) ==
    /\ redis[id] # NoRecord
    /\ redis' = [redis EXCEPT ![id] = NoRecord]
    /\ UNCHANGED <<peers, fetched, calls, heard>>

\* A node dies and starts again with itself in its registry; Redis and the
\* other nodes keep what they have.
Restart(n) ==
    /\ peers' = [peers EXCEPT ![n] = OwnRegistry(n)]
    /\ redis' \in Sent(OwnRegistry(n), {n} \cap PeerId, {})
    /\ fetched' = [fetched EXCEPT ![n] = NoRecord]
    /\ calls' = {c \in calls : c.node # n}
    /\ heard' = [p \in PeerId |-> IF p = n THEN 0 ELSE heard[p]]

Older(age) == IF age < AgeCap THEN age + 1 ELSE AgeCap

\* One unit of time passes for every copy of every entry, and for every call.
Tick ==
    /\ peers' = [n \in Node |-> Aged(peers[n])]
    /\ redis' = Aged(redis)
    /\ fetched' = [n \in Node |->
                      IF fetched[n] = NoRecord THEN NoRecord
                      ELSE [fetched[n] EXCEPT !.rec.age = Older(@)]]
    /\ calls' = {[c EXCEPT !.age = Older(@)] : c \in calls}
    /\ heard' = [p \in PeerId |-> Older(heard[p])]

-----------------------------------------------------------------------------
Next ==
    \/ \E n \in Node, id \in PeerId :
          \/ \E ep \in MayServeAt[id] : Contact(n, id, ep)
          \/ Seen(n, id)
          \/ MarkInactive(n, id) \/ Retire(n, id) \/ Drop(n, id)
          \/ SyncGet(n, id)
    \/ \E c \in calls : FinishUpsert(c)
    \/ \E n \in Node : SyncMerge(n) \/ Restart(n)
    \/ \E id \in PeerId : Expire(id)
    \/ Tick

Spec == Init /\ [][Next]_vars

\* Sweep marks an entry that stays Active and overdue.
SweepOverdue(n, id) ==
    /\ id \in Known(peers[n])
    /\ peers[n][id].state = Active
    /\ peers[n][id].age > InactiveAfter
    /\ MarkInactive(n, id)

\* A key that nobody sets again runs out.  Sweep sets the key of an
\* Inactive entry every 3 s, so nothing is asked of those.
ExpireActive(id) ==
    /\ redis[id] # NoRecord
    /\ redis[id].state = Active
    /\ Expire(id)

FairSpec ==
    /\ Spec
    /\ WF_vars(Tick)
    /\ \A n \in Node, id \in PeerId : WF_vars(SweepOverdue(n, id))
    /\ \A id \in PeerId : WF_vars(ExpireActive(id))

-----------------------------------------------------------------------------
(* Properties *)

\* The registries, the keys in Redis and what the syncs have read hold
\* records, and the Upserts under way are calls.
TypeOK ==
    /\ peers \in [Node -> Registries]
    /\ redis \in Registries
    /\ fetched \in [Node -> Fetched \cup {NoRecord}]
    /\ calls \subseteq Call
    /\ heard \in [PeerId -> 0..AgeCap]

\* No registry exceeds its maximum, whatever its sync inserts between the
\* calls of the node's own loops (README: "Enforces a hard cap of 20 active
\* peers").
Capacity == \A n \in Node : Cardinality(Known(peers[n])) <= MaxNetworkPeers

\* An Upsert of p at n that has waited for the lock returns with this step,
\* and its reading of the clock is what the entry has now.
WrittenByUpsert(n, p) ==
    \E c \in calls \ calls' :
        c.node = n /\ c.id = p /\ c.age = peers'[n][p].age

\* "Merge states carefully favoring newer seen timestamps"
\* (peer_registry.go:200): neither the merge, also when the node has seen the
\* peer since the sync's GET, nor a Touch, a mark or a removal moves the
\* LastSeen of an entry back.  Only an Upsert may, which writes the time its
\* caller read before it got the lock.
LastSeenForward ==
    [][(\A n \in Node : \A p \in Known(peers[n]) \cap Known(peers'[n]) :
            peers'[n][p].age <= peers[n][p].age \/ WrittenByUpsert(n, p))
        \/ Tick]_vars

\* No registry, key or copy shows a peer as seen later than any node heard
\* of it: the sync passes LastSeen on and makes no sign of life of a copy,
\* as Upsert does of the entries in a list or a reply.
LastSeenTrue ==
    \A p \in PeerId :
        /\ \A n \in Node :
              /\ p \in Known(peers[n]) => peers[n][p].age >= heard[p]
              /\ fetched[n] # NoRecord /\ fetched[n].id = p
                   => fetched[n].rec.age >= heard[p]
        /\ p \in Known(redis) => redis[p].age >= heard[p]
        /\ \A c \in calls : c.id = p => c.age >= heard[p]

\* Some other node, Redis or a sync on its way to another node has p Active,
\* or an Upsert under way is about to.
ActiveElsewhere(p) ==
    \/ p \in Known(redis) /\ redis[p].state = Active
    \/ \E c \in calls : c.id = p
    \/ \E n \in Node \ {p} :
          \/ p \in Known(peers[n]) /\ peers[n][p].state = Active
          \/ /\ fetched[n] # NoRecord /\ fetched[n].id = p
             /\ fetched[n].rec.state = Active

\* Once no other node, key or copy has a peer Active, only hearing of it
\* brings it back: the merge takes over the state a record has and, unlike
\* the Upsert of a list or a reply, makes no peer Active by passing it on.
NoRevival ==
    [][\A p \in PeerId :
          ActiveElsewhere(p)' => ActiveElsewhere(p) \/ heard'[p] = 0]_vars

\* A peer that nobody hears of any more does not stay Active in any other
\* node's registry: the copies that the nodes pass each other through Redis,
\* lost commands and restarts of nodes do not keep it alive.
SilentPeerInactive ==
    \A p \in PeerId :
        <>[](heard[p] > 0)
        => <>[](\A n \in Node \ {p} :
                   p \in Known(peers[n]) => peers[n][p].state # Active)
=============================================================================
